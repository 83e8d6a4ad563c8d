--------------------------- MODULE OutboundProofs ---------------------------
(***************************************************************************)
(* What leaves a machine, for every policy, every set of applications and  *)
(* contents and any number of copies, restarts and clips.                  *)
(***************************************************************************)
EXTENDS Outbound, FiniteSetTheorems, TLAPS

USE MeAssumption

-----------------------------------------------------------------------------
(***************************************************************************)
(* The policy.                                                             *)
(***************************************************************************)

\* A name that is white space is no candidate, so that no rule matches it.
LEMMA BlankMatchesNothing ==
    ASSUME NEW rules
    PROVE  ~ Matches(rules, {Blank})
  BY NormAssumption DEF Matches, Normal

\* A context that could not be had blocks nothing: its names are white space, which
\* normalizeSlice drops from the candidates.  What is left are the filters.
THEOREM NoContextBlocksNothing ==
    ASSUME NEW c
    PROVE  ~ BlocksContext(c, NoContext)
  <1>1. /\ {NoContext.app, NoContext.bundle} = {Blank}
        /\ {NoContext.process} = {Blank}
        /\ {NoContext.app, NoContext.bundle, NoContext.process} = {Blank}
    BY DEF NoContext
  <1>2. QED
    BY <1>1, BlankMatchesNothing DEF BlocksContext, DetectsPasswordManager

\* A policy that does not use the context blocks in none: handlePrivacy need not ask.
THEOREM UnusedContextBlocksNothing ==
    ASSUME NEW c \in Config, NEW ctx, ~ UsesContext(c)
    PROVE  ~ BlocksContext(c, ctx)
  BY DEF UsesContext, BlocksContext, Matches

\* The rules are normal names, of which a second normalisation makes the same.
THEOREM RulesAreNormal ==
    ASSUME NEW apps \in SUBSET Raw, NEW processes \in SUBSET Raw,
           NEW classes \in SUBSET SensitiveClass, NEW clear \in BOOLEAN
    PROVE  /\ NewConfig(apps, processes, classes, clear) \in Config
           /\ Normal(Normal(apps)) = Normal(apps)
  <1>1. ASSUME NEW names \in SUBSET Raw
        PROVE  Normal(names) \in SUBSET Word
    BY NormAssumption DEF Normal
  <1>2. Normal(Normal(apps)) = Normal(apps)
    BY <1>1, NormAssumption, BlankAssumption DEF Normal
  <1>3. QED
    BY <1>1, <1>2 DEF NewConfig, Config

-----------------------------------------------------------------------------
(***************************************************************************)
(* The requests.                                                           *)
(***************************************************************************)

\* What NormalizeMimeType makes of a type is one.
LEMMA NormalType ==
    ASSUME NEW mime \in MimeTypes
    PROVE  NormalizeMimeType(mime) \in MimeTypes
  BY MimeAssumption DEF NormalizeMimeType

LEMMA ContentsTyped ==
    ASSUME NEW c \in Contents
    PROVE  c \in Content /\ c.mime # NoType /\ NormalizeMimeType(c.mime) = c.mime
  BY ContentsAssumption

\* A put of clipd is a blob or a string, by its kind, and keeps what a content is.
LEMMA PutOfType ==
    ASSUME NEW c \in Content, c.mime # NoType
    PROVE  PutByType(c) = IF ~ IsText(c) /\ c.size > 0 THEN Blob(c) ELSE Json(c, ~ IsText(c))
  BY DEF PutByType, Put

LEMMA TypedContent ==
    ASSUME NEW c \in Content, NEW mime \in MimeTypes
    PROVE  /\ GivenAs(c, mime) \in Content /\ GivenAs(c, mime).mime = mime
           /\ GivenAs(c, mime).size = c.size /\ GivenAs(c, mime).blank = c.blank
           /\ GivenAs(c, mime).looks = c.looks
           /\ [GivenAs(c, mime) EXCEPT !.utf8 = TRUE] \in Content
           /\ [GivenAs(c, mime) EXCEPT !.utf8 = TRUE].size = c.size
  BY DEF GivenAs, Content

LEMMA KeptIsSame ==
    ASSUME NEW c \in Contents
    PROVE  Kept(c) \in {c, [c EXCEPT !.utf8 = TRUE]}
  <1>1. c \in Content /\ c.mime # NoType /\ NormalizeMimeType(c.mime) = c.mime
    BY ContentsTyped
  <1>2. GivenAs(c, c.mime) = c
    BY <1>1 DEF GivenAs, Content
  <1>3. CASE ~ IsText(c) /\ c.size > 0
    <2>1. PutByType(c) = Blob(c)
      BY <1>1, <1>3, PutOfType
    <2>2. Typed(Blob(c)) = c /\ ~ WrongField(Blob(c))
      BY <1>1, <1>2 DEF Typed, HubType, Blob, WrongField
    <2>3. QED
      BY <2>1, <2>2 DEF Kept, StoredAs, Blob
  <1>4. CASE ~ (~ IsText(c) /\ c.size > 0)
    <2>1. PutByType(c) = Json(c, ~ IsText(c))
      BY <1>1, <1>4, PutOfType
    <2>2. Typed(Json(c, ~ IsText(c))) = c
      BY <1>1, <1>2 DEF Typed, HubType, Json
    <2>3. ~ WrongField(Json(c, ~ IsText(c)))
      BY <2>2 DEF WrongField, Json
    <2>4. QED
      BY <2>1, <2>2, <2>3 DEF Kept, StoredAs, Json
  <1>5. QED
    BY <1>3, <1>4

LEMMA AcceptedSize ==
    ASSUME NEW req, req.ct \in Content, req.size \in Nat, req.ct.size <= req.size, Accepts(req)
    PROVE  req.ct.size \in 1 .. MaxContentSize
  BY SizesAssumption DEF Accepts, TooLarge, LacksContent, Content

\* The requests there are.
FromClipd(req) == \E c \in Contents : req = PutByType(c)
FromOthers(req) == \E c \in Foreign : req \in TailclipRequests(c) \cup OtherRequests(c)
IsRequest(req) == FromClipd(req) \/ FromOthers(req)

LEMMA JsonType ==
    ASSUME NEW ct \in Content, NEW asData \in BOOLEAN
    PROVE  /\ Json(ct, asData).ct = ct /\ Json(ct, asData).size \in Nat
           /\ ct.size <= Json(ct, asData).size
           /\ Json(ct, asData).route = "json" /\ Json(ct, asData).data = asData
  <1>1. ct.size \in Nat /\ ct.escapes \in Nat /\ Framing \in Nat
    BY SizesAssumption DEF Content
  <1>2. Base64(ct.size) \in Nat /\ ct.size <= Base64(ct.size)
    BY <1>1 DEF Base64
  <1>3. QED
    BY <1>1, <1>2 DEF Json

LEMMA BlobType ==
    ASSUME NEW ct \in Content
    PROVE  /\ Blob(ct).ct = ct /\ Blob(ct).size \in Nat /\ ct.size <= Blob(ct).size
           /\ Blob(ct).route = "blob"
  BY DEF Blob, Content

\* A request carries a content of the clipboard, or one that was given.
LEMMA RequestType ==
    ASSUME NEW req, IsRequest(req)
    PROVE  /\ req.ct \in Content
           /\ req.size \in Nat /\ req.ct.size <= req.size
           /\ req.route \in {"json", "blob"}
           /\ FromClipd(req) => req.ct \in Contents
           /\ FromOthers(req) => req.ct \in Given
  <1> DEFINE Fits(r, ct) == \/ r = Blob(ct)
                            \/ \E asData \in BOOLEAN : r = Json(ct, asData)
  <1>1. ASSUME NEW ct \in Content, Fits(req, ct)
        PROVE  /\ req.ct = ct /\ req.size \in Nat /\ req.ct.size <= req.size
               /\ req.route \in {"json", "blob"}
    BY <1>1, JsonType, BlobType
  <1>2. ASSUME NEW c \in Content, c.mime # NoType
        PROVE  Fits(PutByType(c), c) /\ Fits(PutText(c), c)
    <2>1. PutText(c) = Json(c, FALSE)
      BY <1>2 DEF PutText, Put
    <2>2. IsText(c) \in BOOLEAN
      BY DEF IsText
    <2>3. QED
      BY <1>2, <2>1, <2>2, PutOfType
  <1>3. ASSUME NEW c \in Contents, req = PutByType(c)
        PROVE  c \in Content /\ Fits(req, c)
    BY <1>2, <1>3, ContentsTyped
  <1>4. ASSUME NEW c \in Foreign, req \in TailclipRequests(c) \cup OtherRequests(c)
        PROVE  \E ct \in Given \cap Content : Fits(req, ct)
    <2>1. c \in Content
      BY ForeignAssumption, ContentsTyped
    <2>2. ASSUME NEW mime \in MimeTypes
          PROVE  GivenAs(c, mime) \in Given \cap Content
      <3>1. GivenAs(c, mime) \in Given
        BY DEF Given
      <3>2. QED
        BY <2>1, <3>1, TypedContent
    <2>3. CASE req \in TailclipRequests(c)
      <3>1. PICK mime \in MimeTypes \ {NoType} :
                req \in {PutByType(GivenAs(c, mime)), PutText(GivenAs(c, mime))}
        BY <2>3 DEF TailclipRequests
      <3>2. GivenAs(c, mime).mime # NoType
        BY <2>1, TypedContent
      <3>3. QED
        BY <1>2, <2>2, <3>1, <3>2
    <2>4. CASE req \in OtherRequests(c)
      <3>1. PICK mime \in MimeTypes : Fits(req, GivenAs(c, mime))
        BY <2>4 DEF OtherRequests
      <3>2. QED
        BY <2>2, <3>1
    <2>5. QED
      BY <1>4, <2>3, <2>4
  <1>5. FromClipd(req) => /\ req.ct \in Content /\ req.ct \in Contents
                          /\ req.size \in Nat /\ req.ct.size <= req.size
                          /\ req.route \in {"json", "blob"}
    BY <1>1, <1>3 DEF FromClipd
  <1>6. FromOthers(req) => /\ req.ct \in Content /\ req.ct \in Given
                           /\ req.size \in Nat /\ req.ct.size <= req.size
                           /\ req.route \in {"json", "blob"}
    BY <1>1, <1>4 DEF FromOthers
  <1>7. QED
    BY <1>5, <1>6 DEF IsRequest

\* What the hub stores of a request it accepts.
LEMMA StoredAsGiven ==
    ASSUME NEW req, IsRequest(req), Accepts(req)
    PROVE  /\ StoredAs(req) \in Content
           /\ StoredAs(req).size \in 1 .. MaxContentSize
           /\ StoredAs(req) \in Held(req.ct)
  <1> DEFINE mime == HubType(req)
             kept == IF req.ct.mime = NoType THEN {OctetStream, PlainText}
                     ELSE {req.ct.mime, NormalizeMimeType(req.ct.mime)}
  <1>1. /\ req.ct \in Content /\ req.ct.mime \in MimeTypes
        /\ req.ct.size \in 1 .. MaxContentSize
        /\ req.route \in {"json", "blob"}
    BY RequestType, AcceptedSize DEF Content
  <1>2. mime \in kept /\ mime \in MimeTypes
    BY <1>1, NormalType, MimeAssumption DEF HubType, NormalizeMimeType
  <1>3. ~ WrongField(req)
    BY DEF Accepts, LacksContent
  <1> HIDE DEF mime
  <1>4. /\ GivenAs(req.ct, mime) \in Content
        /\ GivenAs(req.ct, mime).size = req.ct.size
    BY <1>1, <1>2, TypedContent
  <1> USE DEF mime
  <1>5. Held(req.ct) = {GivenAs(req.ct, m) : m \in kept} \cup
                       {[GivenAs(req.ct, m) EXCEPT !.utf8 = TRUE] : m \in kept \cap Textual}
    BY DEF Held
  <1>6. CASE req.route = "json" /\ ~ req.data
    <2>1. StoredAs(req) = [GivenAs(req.ct, mime) EXCEPT !.utf8 = TRUE]
      BY <1>3, <1>6 DEF StoredAs, Typed
    <2>2. mime \in Textual
      BY <1>1, <1>2, <1>3, <1>6, TypedContent DEF WrongField, Typed, IsText
    <2>3. StoredAs(req) \in Held(req.ct)
      BY <1>2, <1>5, <2>1, <2>2
    <2>4. QED
      BY <1>1, <1>2, <2>1, <2>3, TypedContent
  <1>7. CASE ~ (req.route = "json" /\ ~ req.data)
    <2>1. StoredAs(req) = GivenAs(req.ct, mime)
      BY <1>3, <1>7 DEF StoredAs, Typed
    <2>2. StoredAs(req) \in Held(req.ct)
      BY <1>2, <1>5, <2>1
    <2>3. StoredAs(req) \in Content /\ StoredAs(req).size = req.ct.size
      BY <1>4, <2>1
    <2>4. QED
      BY <1>1, <2>2, <2>3
  <1>8. QED
    BY <1>6, <1>7

-----------------------------------------------------------------------------
(***************************************************************************)
(* The log.                                                                *)
(***************************************************************************)

Putters == {"clipd", "late", "other"}
Clips == [ct : Content, from : Putters]

\* A request that is accepted leaves the log as it is, or adds one clip to it, and is
\* what is current then.
LEMMA StoresStep ==
    ASSUME NEW req, IsRequest(req), Accepts(req), NEW from \in Putters,
           log \in Seq(Clips), Stores(req, from)
    PROVE  /\ log' \in Seq(Clips) /\ current' = StoredAs(req) /\ current' \in Content
           /\ \/ log' = log /\ IsCurrent(StoredAs(req))
              \/ /\ ~ IsCurrent(StoredAs(req))
                 /\ Len(log') = Len(log) + 1 /\ DOMAIN log' = DOMAIN log \cup {Len(log) + 1}
                 /\ \A k \in DOMAIN log : log'[k] = log[k]
                 /\ log'[Len(log) + 1] = [ct |-> StoredAs(req), from |-> from]
  <1>1. StoredAs(req) \in Content
    BY StoredAsGiven
  <1>2. [ct |-> StoredAs(req), from |-> from] \in Clips
    BY <1>1 DEF Clips
  <1>3. CASE IsCurrent(StoredAs(req))
    BY <1>1, <1>3 DEF Stores, IsCurrent
  <1>4. CASE ~ IsCurrent(StoredAs(req))
    BY <1>1, <1>2, <1>4 DEF Stores
  <1>5. QED
    BY <1>3, <1>4

\* The puts of others, and those that clipd gave up, are requests.
LEMMA OthersRequest ==
    ASSUME NEW c \in Foreign, TailclipPut(c) \/ OtherPut(c)
    PROVE  \E req : FromOthers(req) /\ PutFrom(req, "other")
  BY DEF TailclipPut, OtherPut, FromOthers

LEMMA LateRequest ==
    ASSUME HandHolds, OutTypeOK, NEW c \in Contents, CommitLate(c)
    PROVE  /\ FromClipd(PutByType(c)) /\ IsRequest(PutByType(c)) /\ Accepts(PutByType(c))
           /\ Stores(PutByType(c), "late") /\ ~ BlocksText(policy, c)
  BY DEF CommitLate, HandHolds, FromClipd, IsRequest, OutTypeOK

LEMMA SendRequest ==
    ASSUME HandHolds, Send
    PROVE  /\ FromClipd(PutByType(found)) /\ IsRequest(PutByType(found))
           /\ Accepts(PutByType(found)) /\ Stores(PutByType(found), "clipd")
           /\ found \in Contents /\ ~ BlocksText(policy, found)
  BY DEF Send, HandHolds, InHand, FromClipd, IsRequest

-----------------------------------------------------------------------------
(***************************************************************************)
(* Types.                                                                  *)
(***************************************************************************)

LEMMA OutTypePreserved ==
    ASSUME OutTypeOK, HandHolds, [OutNext]_vars
    PROVE  OutTypeOK'
  <1> USE DEF OutTypeOK, MonitorTypeOK, monitorVars, hubVars, countVars, ghostVars, Mishap
  <1>1. ASSUME NEW c \in Contents, CopyIn(c)
        PROVE  OutTypeOK'
    BY <1>1 DEF CopyIn, Copy
  <1>2. ASSUME NEW app \in Apps, SwitchTo(app)
        PROVE  OutTypeOK'
    BY <1>2 DEF SwitchTo
  <1>3. ASSUME NEW c \in Foreign, TailclipPut(c) \/ OtherPut(c)
        PROVE  OutTypeOK'
    <2>1. PICK req : FromOthers(req) /\ PutFrom(req, "other")
      BY <1>3, OthersRequest
    <2>2. log' \in Seq(Clips) /\ current' \in Content
      BY <2>1, StoresStep DEF PutFrom, Clips, Putters, IsRequest
    <2>3. QED
      BY <2>1, <2>2 DEF PutFrom, Clips, Putters
  <1>4. CASE Poll
    BY <1>4 DEF Poll, PollNew
  <1>5. CASE HandlePrivacy
    BY <1>5 DEF HandlePrivacy, Decide, MarkHandled, HandHolds, found
  <1>6. CASE HandlePrivacyBlind
    BY <1>6 DEF HandlePrivacyBlind, Decide, MarkHandled, HandHolds, found
  <1>7. CASE ClearLocal
    BY <1>7 DEF ClearLocal
  <1>8. CASE ClearLocalFails \/ MarkSent
    BY <1>8 DEF ClearLocalFails, MarkSent, MarkHandled
  <1>9. CASE Send
    <2>1. log' \in Seq(Clips) /\ current' \in Content
      BY <1>9, SendRequest, StoresStep DEF Clips, Putters
    <2>2. QED
      BY <1>9, <2>1 DEF Send, Clips, Putters
  <1>10. CASE SendFails \/ AnswerLost
    BY <1>10 DEF SendFails, AnswerLost
  <1>11. CASE SendGivenUp
    BY <1>11 DEF SendGivenUp, HandHolds, found
  <1>12. ASSUME NEW c \in Contents, CommitLate(c)
         PROVE  OutTypeOK'
    <2>1. log' \in Seq(Clips) /\ current' \in Content
      BY <1>12, LateRequest, StoresStep DEF Clips, Putters
    <2>2. QED
      BY <1>12, <2>1 DEF CommitLate, Clips, Putters
  <1>13. CASE LoseCurrent
    <2>1. \A k \in DOMAIN log : log[k].ct \in Content
      <3>1. log \in Seq(Clips)
        BY DEF Clips, Putters
      <3>2. \A k \in DOMAIN log : log[k] \in Clips
        BY <3>1
      <3>3. QED
        BY <3>2 DEF Clips
    <2>2. /\ current' \in Content \cup {Empty} /\ losses' \in Nat /\ mishaps' \in Nat
          /\ UNCHANGED <<monitorVars, policy, front, poller, log, late, copies, switches,
                         ghostVars>>
      BY <1>13, <2>1 DEF LoseCurrent
    <2>3. QED
      BY <2>2
  <1>14. CASE Restart
    BY <1>14 DEF Restart, ResetMonitor
  <1>15. CASE UNCHANGED vars
    BY <1>15 DEF vars
  <1>16. QED
    BY <1>1, <1>2, <1>3, <1>4, <1>5, <1>6, <1>7, <1>8, <1>9, <1>10, <1>11, <1>12, <1>13,
       <1>14, <1>15 DEF OutNext

-----------------------------------------------------------------------------
(***************************************************************************)
(* What is kept local.                                                     *)
(***************************************************************************)

\* The policy does not change, and what a step passes on it has let pass.
LEMMA HandPreserved ==
    ASSUME OutTypeOK, HandHolds, [OutNext]_vars
    PROVE  policy' = policy /\ HandHolds'
  <1> USE DEF OutTypeOK, MonitorTypeOK, HandHolds, InHand, found, monitorVars, hubVars,
              countVars, ghostVars
  <1>1. CASE \E c \in Contents : CopyIn(c)
    BY <1>1 DEF CopyIn, Copy
  <1>2. CASE \E app \in Apps : SwitchTo(app)
    BY <1>2 DEF SwitchTo
  <1>3. CASE \E c \in Foreign : TailclipPut(c) \/ OtherPut(c)
    BY <1>3 DEF TailclipPut, OtherPut, PutFrom
  <1>4. CASE Poll
    BY <1>4 DEF Poll, PollNew
  <1>5. CASE HandlePrivacy
    BY <1>5 DEF HandlePrivacy, Decide, BlocksIn, Blocks, MarkHandled
  <1>6. CASE HandlePrivacyBlind
    BY <1>6 DEF HandlePrivacyBlind, Decide, BlocksIn, Blocks, MarkHandled
  <1>7. CASE ClearLocal \/ ClearLocalFails \/ MarkSent
    BY <1>7 DEF ClearLocal, ClearLocalFails, MarkSent, MarkHandled
  <1>8. CASE Send \/ SendFails \/ AnswerLost
    BY <1>8 DEF Send, SendFails, AnswerLost
  <1>9. CASE SendGivenUp
    BY <1>9 DEF SendGivenUp
  <1>10. ASSUME NEW c \in Contents, CommitLate(c)
         PROVE  policy' = policy /\ HandHolds'
    <2>1. \A d \in Contents : late'[d] > 0 => late[d] > 0
      BY <1>10 DEF CommitLate
    <2>2. QED
      BY <1>10, <2>1 DEF CommitLate
  <1>11. CASE LoseCurrent
    BY <1>11 DEF LoseCurrent
  <1>12. CASE Restart \/ UNCHANGED vars
    BY <1>12 DEF Restart, ResetMonitor, vars
  <1>13. QED
    BY <1>1, <1>2, <1>3, <1>4, <1>5, <1>6, <1>7, <1>8, <1>9, <1>10, <1>11, <1>12 DEF OutNext

\* Nothing but a put changes the log, and what clipd puts it has let pass.
LEMMA LogSteps ==
    ASSUME OutTypeOK, HandHolds, [OutNext]_vars, log' # log
    PROVE  \E req, from :
              /\ from \in Putters
              /\ IsRequest(req) /\ Accepts(req) /\ Stores(req, from)
              /\ from # "other" =>
                     \E c \in Contents : req = PutByType(c) /\ ~ BlocksText(policy, c)
              /\ from = "other" => FromOthers(req)
  <1>1. ASSUME Send
        PROVE  \E c \in Contents :
                  /\ IsRequest(PutByType(c)) /\ Accepts(PutByType(c))
                  /\ Stores(PutByType(c), "clipd") /\ ~ BlocksText(policy, c)
    BY <1>1, SendRequest
  <1>2. ASSUME NEW c \in Contents, CommitLate(c)
        PROVE  /\ IsRequest(PutByType(c)) /\ Accepts(PutByType(c))
               /\ Stores(PutByType(c), "late") /\ ~ BlocksText(policy, c)
    BY <1>2, LateRequest
  <1>3. ASSUME NEW c \in Foreign, TailclipPut(c) \/ OtherPut(c)
        PROVE  \E req : FromOthers(req) /\ IsRequest(req) /\ Accepts(req) /\ Stores(req, "other")
    BY <1>3, OthersRequest DEF PutFrom, IsRequest
  <1>4. \/ Send
        \/ \E c \in Contents : CommitLate(c)
        \/ \E c \in Foreign : TailclipPut(c) \/ OtherPut(c)
    BY DEF OutNext, vars, hubVars, CopyIn, SwitchTo, Poll, HandlePrivacy, HandlePrivacyBlind,
           ClearLocal, ClearLocalFails, SendFails, SendGivenUp, MarkSent, AnswerLost,
           LoseCurrent, Restart
  <1>5. CASE Send
    <2>1. "clipd" \in Putters
      BY DEF Putters
    <2>2. PICK c \in Contents :
              /\ IsRequest(PutByType(c)) /\ Accepts(PutByType(c))
              /\ Stores(PutByType(c), "clipd") /\ ~ BlocksText(policy, c)
      BY <1>1, <1>5
    <2>3. QED
      BY <2>1, <2>2
  <1>6. CASE \E c \in Contents : CommitLate(c)
    <2>1. "late" \in Putters
      BY DEF Putters
    <2>2. PICK c \in Contents : CommitLate(c)
      BY <1>6
    <2>3. QED
      BY <1>2, <2>1, <2>2
  <1>7. CASE \E c \in Foreign : TailclipPut(c) \/ OtherPut(c)
    <2>1. "other" \in Putters
      BY DEF Putters
    <2>2. PICK req : FromOthers(req) /\ IsRequest(req) /\ Accepts(req) /\ Stores(req, "other")
      BY <1>3, <1>7
    <2>3. QED
      BY <2>1, <2>2
  <1>8. QED
    BY <1>4, <1>5, <1>6, <1>7

\* A clip is added by a request that the hub accepts.
LEMMA LogGrows ==
    ASSUME OutTypeOK, NEW req, IsRequest(req), Accepts(req), NEW from \in Putters,
           Stores(req, from), log' # log
    PROVE  /\ DOMAIN log' = DOMAIN log \cup {Len(log) + 1}
           /\ \A k \in DOMAIN log : log'[k] = log[k]
           /\ log'[Len(log) + 1] = [ct |-> StoredAs(req), from |-> from]
  BY StoresStep DEF OutTypeOK, Clips, Putters

LEMMA FilteredPreserved ==
    ASSUME OutTypeOK, HandHolds, FilteredKeptLocal, [OutNext]_vars
    PROVE  FilteredKeptLocal'
  <1>1. policy' = policy
    BY HandPreserved
  <1>2. CASE log' = log
    BY <1>1, <1>2 DEF FilteredKeptLocal
  <1>3. CASE log' # log
    <2>1. PICK req, from :
              /\ from \in Putters
              /\ IsRequest(req) /\ Accepts(req) /\ Stores(req, from)
              /\ from # "other" =>
                     \E c \in Contents : req = PutByType(c) /\ ~ BlocksText(policy, c)
      BY <1>3, LogSteps
    <2>2. /\ DOMAIN log' = DOMAIN log \cup {Len(log) + 1}
          /\ \A k \in DOMAIN log : log'[k] = log[k]
          /\ log'[Len(log) + 1] = [ct |-> StoredAs(req), from |-> from]
      BY <1>3, <2>1, LogGrows
    <2>3. ASSUME from # "other"
          PROVE  ~ BlocksText(policy, StoredAs(req))
      <3>1. PICK c \in Contents : StoredAs(req) = Kept(c) /\ ~ BlocksText(policy, c)
        BY <2>1, <2>3 DEF Kept
      <3>2. c \in Content /\ Kept(c) \in {c, [c EXCEPT !.utf8 = TRUE]}
        BY ContentsTyped, KeptIsSame
      <3>3. Kept(c).mime = c.mime /\ Kept(c).blank = c.blank /\ Kept(c).looks = c.looks
        BY <3>2 DEF Content
      <3>4. QED
        BY <3>1, <3>3 DEF BlocksText, IsText
    <2>4. QED
      BY <1>1, <2>2, <2>3 DEF FilteredKeptLocal
  <1>4. QED
    BY <1>2, <1>3

LEMMA HeldPreserved ==
    ASSUME OutTypeOK, HandHolds, HeldAsGiven, [OutNext]_vars
    PROVE  HeldAsGiven'
  <1>1. CASE log' = log
    BY <1>1 DEF HeldAsGiven
  <1>2. CASE log' # log
    <2>1. PICK req, from :
              /\ from \in Putters
              /\ IsRequest(req) /\ Accepts(req) /\ Stores(req, from)
              /\ from # "other" => \E c \in Contents : req = PutByType(c)
              /\ from = "other" => FromOthers(req)
      BY <1>2, LogSteps
    <2>2. /\ DOMAIN log' = DOMAIN log \cup {Len(log) + 1}
          /\ \A k \in DOMAIN log : log'[k] = log[k]
          /\ log'[Len(log) + 1] = [ct |-> StoredAs(req), from |-> from]
      BY <1>2, <2>1, LogGrows
    <2>3. StoredAs(req).size \in 1 .. MaxContentSize /\ StoredAs(req) \in Held(req.ct)
      BY <2>1, StoredAsGiven
    <2>4. /\ from # "other" => req.ct \in Contents
          /\ from = "other" => req.ct \in Given
      BY <2>1, RequestType DEF FromClipd
    <2>5. QED
      BY <2>2, <2>3, <2>4 DEF HeldAsGiven
  <1>3. QED
    BY <1>1, <1>2

LEMMA OriginPreserved ==
    ASSUME OutTypeOK, HandHolds, OriginIsFront, [OutNext]_vars
    PROVE  OriginIsFront'
  <1> USE DEF OutTypeOK, MonitorTypeOK, OriginIsFront, monitorVars, hubVars,
              countVars, ghostVars
  <1>1. ASSUME NEW c \in Contents, CopyIn(c)
        PROVE  OriginIsFront'
    BY <1>1 DEF CopyIn
  <1>2. CASE \E app \in Apps : SwitchTo(app)
    BY <1>2 DEF SwitchTo
  <1>3. CASE Poll
    BY <1>3 DEF Poll
  <1>4. CASE HandlePrivacyBlind
    BY <1>4 DEF HandlePrivacyBlind, HandHolds, found
  <1>5. CASE UNCHANGED <<front, origin, excused>>
    BY <1>5
  <1>6. QED
    BY <1>1, <1>2, <1>3, <1>4, <1>5
       DEF OutNext, vars, TailclipPut, OtherPut, PutFrom, HandlePrivacy, ClearLocal,
           ClearLocalFails, Send, SendFails, SendGivenUp, CommitLate, MarkSent, AnswerLost,
           LoseCurrent, Restart

LEMMA IgnoredPreserved ==
    ASSUME OutTypeOK, HandHolds, OriginIsFront, IgnoredContextKeptLocal, [OutNext]_vars
    PROVE  IgnoredContextKeptLocal'
  <1> USE DEF OutTypeOK, MonitorTypeOK, HandHolds, IgnoredContextKeptLocal, InHand, found,
              monitorVars, hubVars,
              countVars, ghostVars
  <1>1. policy' = policy /\ policy \in Config
    BY HandPreserved, PoliciesAssumption
  <1>2. ASSUME NEW c \in Contents, CopyIn(c)
        PROVE  IgnoredContextKeptLocal'
    BY <1>1, <1>2 DEF CopyIn, Copy
  <1>3. CASE \E app \in Apps : SwitchTo(app)
    BY <1>1, <1>3 DEF SwitchTo
  <1>4. CASE HandlePrivacy
    <2>1. CASE poller' = "sending"
      <3>1. /\ ~ BlocksContext(policy, IF UsesContext(policy) THEN front ELSE NoContext)
            /\ UNCHANGED monitorVars
        BY <1>4, <2>1 DEF HandlePrivacy, Decide, BlocksIn, Blocks
      <3>2. ~ BlocksContext(policy, front)
        BY <1>1, <3>1, UnusedContextBlocksNothing
      <3>3. excused[found] # {} \/ origin[found] = front
        BY <1>4 DEF OriginIsFront, HandlePrivacy
      <3>4. QED
        BY <1>1, <1>4, <3>1, <3>2, <3>3 DEF HandlePrivacy
    <2>2. CASE poller' # "sending"
      BY <1>4, <2>2 DEF HandlePrivacy, Decide
    <2>3. QED
      BY <2>1, <2>2
  <1>5. CASE HandlePrivacyBlind
    <2>1. poller' \in {"sending", "clearing", "idle"} /\ pending' = pending
      BY <1>5 DEF HandlePrivacyBlind, Decide, MarkHandled
    <2>2. excused'[found] # {}
      BY <1>5 DEF HandlePrivacyBlind
    <2>3. QED
      BY <2>1, <2>2
  <1>6. CASE Send
    BY <1>1, <1>6 DEF Send
  <1>7. CASE \/ \E c \in Foreign : TailclipPut(c) \/ OtherPut(c)
             \/ \E c \in Contents : CommitLate(c)
    BY <1>1, <1>7 DEF TailclipPut, OtherPut, PutFrom, CommitLate
  <1>8. CASE Poll \/ ClearLocal \/ ClearLocalFails \/ SendFails \/ SendGivenUp \/ MarkSent
             \/ AnswerLost \/ Restart
    BY <1>8 DEF Poll, ClearLocal, ClearLocalFails, SendFails, SendGivenUp, MarkSent, AnswerLost,
                Restart
  <1>9. CASE UNCHANGED vars \/ LoseCurrent
    BY <1>1, <1>9 DEF vars, LoseCurrent
  <1>10. QED
    BY <1>2, <1>3, <1>4, <1>5, <1>6, <1>7, <1>8, <1>9 DEF OutNext

LEMMA BlockedPreserved ==
    ASSUME OutTypeOK, HandHolds, BlockedIsSeen, [OutNext]_vars
    PROVE  BlockedIsSeen'
  <1> USE DEF OutTypeOK, MonitorTypeOK, HandHolds, BlockedIsSeen, found, monitorVars,
              hubVars, countVars, ghostVars
  <1>1. ASSUME NEW c \in Contents, CopyIn(c)
        PROVE  BlockedIsSeen'
    BY <1>1 DEF CopyIn, Copy
  <1>2. CASE \E app \in Apps : SwitchTo(app)
    BY <1>2 DEF SwitchTo
  <1>3. CASE \/ \E c \in Foreign : TailclipPut(c) \/ OtherPut(c)
             \/ \E c \in Contents : CommitLate(c)
    BY <1>3 DEF TailclipPut, OtherPut, PutFrom, CommitLate
  <1>4. CASE Poll
    BY <1>4 DEF Poll, PollNew
  <1>5. ASSUME NEW ctx, poller = "polled", Decide(ctx)
        PROVE  BlockedIsSeen'
    BY <1>5 DEF Decide, MarkHandled
  <1>6. CASE HandlePrivacy \/ HandlePrivacyBlind
    BY <1>5, <1>6 DEF HandlePrivacy, HandlePrivacyBlind
  <1>7. CASE ClearLocal
    BY <1>7, EmptyAssumption DEF ClearLocal
  <1>8. CASE ClearLocalFails
    BY <1>8 DEF ClearLocalFails, MarkHandled
  <1>9. CASE MarkSent
    BY <1>9 DEF MarkSent, MarkHandled
  <1>10. CASE Send \/ SendFails \/ SendGivenUp \/ AnswerLost \/ LoseCurrent
    BY <1>10 DEF Send, SendFails, SendGivenUp, AnswerLost, LoseCurrent
  <1>11. CASE Restart \/ UNCHANGED vars
    BY <1>11 DEF Restart, ResetMonitor, vars
  <1>12. QED
    BY <1>1, <1>2, <1>3, <1>4, <1>6, <1>7, <1>8, <1>9, <1>10, <1>11 DEF OutNext

-----------------------------------------------------------------------------
(***************************************************************************)
(* One copy, one clip.                                                     *)
(***************************************************************************)

LEMMA OwnClipsFinite ==
    ASSUME log \in Seq(Clips)
    PROVE  IsFiniteSet(OwnClips) /\ Cardinality(OwnClips) \in Nat
  <1>1. OwnClips \in SUBSET (1 .. Len(log)) /\ Len(log) \in Int /\ 1 \in Int
    BY DEF OwnClips
  <1>2. IsFiniteSet(1 .. Len(log))
    BY <1>1, FS_Interval
  <1>3. QED
    BY <1>1, <1>2, FS_Subset, FS_CardinalityType

\* The clips of clipd are counted, and the log grows by one at most.
LEMMA OwnClipsStep ==
    ASSUME NEW req, IsRequest(req), Accepts(req), NEW from \in Putters,
           log \in Seq(Clips), Stores(req, from)
    PROVE  /\ Cardinality(OwnClips') =
                  Cardinality(OwnClips) + One(from = "clipd" /\ log' # log)
           /\ log' = log <=> IsCurrent(StoredAs(req))
           /\ current' = StoredAs(req)
  <1>1. IsFiniteSet(OwnClips) /\ Cardinality(OwnClips) \in Nat
    BY OwnClipsFinite
  <1>2. current' = StoredAs(req)
    BY StoresStep
  <1>3. CASE log' = log /\ IsCurrent(StoredAs(req))
    <2>1. OwnClips' = OwnClips
      BY <1>3 DEF OwnClips
    <2>2. QED
      BY <1>1, <1>2, <1>3, <2>1 DEF One
  <1>4. CASE /\ ~ IsCurrent(StoredAs(req))
             /\ Len(log') = Len(log) + 1 /\ DOMAIN log' = DOMAIN log \cup {Len(log) + 1}
             /\ \A k \in DOMAIN log : log'[k] = log[k]
             /\ log'[Len(log) + 1] = [ct |-> StoredAs(req), from |-> from]
    <2>1. log' # log /\ Len(log) + 1 \notin DOMAIN log
      BY <1>4, StoresStep
    <2>2. OwnClips' = IF from = "clipd" THEN OwnClips \cup {Len(log) + 1} ELSE OwnClips
      BY <1>4, <2>1 DEF OwnClips
    <2>3. Len(log) + 1 \notin OwnClips
      BY <2>1 DEF OwnClips
    <2>4. Cardinality(OwnClips \cup {Len(log) + 1}) = Cardinality(OwnClips) + 1
      BY <1>1, <2>3, FS_AddElement
    <2>5. QED
      BY <1>1, <1>2, <1>4, <2>1, <2>2, <2>4 DEF One
  <1>5. QED
    BY <1>3, <1>4, StoresStep

LEMMA CopiesPreserved ==
    ASSUME OutTypeOK, HandHolds, CopiesCount, [OutNext]_vars
    PROVE  CopiesCount'
  <1> USE DEF OutTypeOK, MonitorTypeOK, HandHolds, CopiesCount, found, monitorVars, hubVars,
              countVars, ghostVars
  <1> DEFINE own == Cardinality(OwnClips)
             hand == Kept(pending[Me])
             there == Kept(board[Me])
             holding == poller \in {"polled", "sending"}
             full == board[Me] # Empty
  <1>1. own \in Nat /\ log \in Seq(Clips)
    BY OwnClipsFinite DEF Clips, Putters
  <1>2. ASSUME UNCHANGED log
        PROVE  own' = own
    BY <1>2 DEF OwnClips
  <1>3. StillToCome = IF holding
                      THEN One(current # hand) + One(full /\ there # hand)
                      ELSE One(full /\ current # there)
    BY DEF StillToCome, IsCurrent
  <1>4. StillToCome' = IF holding'
                       THEN One(current' # hand') + One(full' /\ there' # hand')
                       ELSE One(full' /\ current' # there')
    BY DEF StillToCome, IsCurrent
  <1>5. StillToCome' \in Int /\ StillToCome \in Int
    BY <1>3, <1>4 DEF One
  <1>6. ASSUME NEW c \in Contents, CopyIn(c)
        PROVE  CopiesCount'
    <2>1. UNCHANGED <<log, current, pending, poller, others, losses>> /\ copies' = copies + 1
      BY <1>6 DEF CopyIn, Copy
    <2>2. StillToCome' <= StillToCome + 1
      BY <1>3, <1>4, <2>1 DEF One
    <2>3. QED
      BY <1>1, <1>2, <1>5, <2>1, <2>2
  <1>7. ASSUME UNCHANGED <<monitorVars, poller, copies, losses>>,
               own' = own, others' = others + One(log' # log),
               log' = log => current' = current
        PROVE  CopiesCount'
    <2>1. StillToCome' <= StillToCome + One(log' # log)
      BY <1>3, <1>4, <1>7 DEF One
    <2>2. One(log' # log) \in Int
      BY DEF One
    <2>3. QED
      BY <1>1, <1>5, <1>7, <2>1, <2>2
  <1>8. ASSUME NEW c \in Foreign, TailclipPut(c) \/ OtherPut(c)
        PROVE  CopiesCount'
    <2>1. PICK req : FromOthers(req) /\ PutFrom(req, "other")
      BY <1>8, OthersRequest
    <2>2. /\ UNCHANGED <<monitorVars, poller, copies, losses>>
          /\ others' = others + One(log' # log)
      BY <2>1 DEF PutFrom, One
    <2>3. /\ IsRequest(req) /\ Accepts(req) /\ Stores(req, "other") /\ "other" \in Putters
      BY <2>1 DEF PutFrom, IsRequest, Putters
    <2>4. own' = own
      BY <1>1, <2>3, OwnClipsStep DEF One
    <2>5. log' = log => current' = current
      BY <1>1, <2>3, OwnClipsStep DEF IsCurrent
    <2>6. QED
      BY <1>7, <2>2, <2>4, <2>5
  <1>9. ASSUME NEW c \in Contents, CommitLate(c)
        PROVE  CopiesCount'
    <2>1. /\ UNCHANGED <<monitorVars, poller, copies, losses>>
          /\ others' = others + One(log' # log)
      BY <1>9 DEF CommitLate, One
    <2>2. /\ IsRequest(PutByType(c)) /\ Accepts(PutByType(c))
          /\ Stores(PutByType(c), "late") /\ "late" \in Putters
      BY <1>9, LateRequest DEF Putters
    <2>3. /\ own' = own + One("late" = "clipd" /\ log' # log)
          /\ log' = log <=> current = StoredAs(PutByType(c))
          /\ current' = StoredAs(PutByType(c))
      BY <1>1, <2>2, OwnClipsStep DEF IsCurrent
    <2>4. own' = own /\ (log' = log => current' = current)
      BY <1>1, <2>3 DEF One
    <2>5. QED
      BY <1>7, <2>1, <2>4
  <1>10. CASE Send
    <2>1. /\ IsRequest(PutByType(found)) /\ Accepts(PutByType(found))
          /\ Stores(PutByType(found), "clipd") /\ "clipd" \in Putters
      BY <1>10, SendRequest DEF Putters
    <2>2. /\ StoredAs(PutByType(found)) = hand
          /\ UNCHANGED <<monitorVars, copies, others, losses>>
          /\ poller = "sending" /\ poller' = "answered"
      BY <1>10 DEF Send, Kept
    <2>3. /\ own' = own + One(log' # log)
          /\ log' = log <=> current = hand
          /\ current' = hand
      BY <1>1, <2>1, <2>2, OwnClipsStep DEF One, IsCurrent
    <2>4. StillToCome' + One(log' # log) <= StillToCome
      BY <1>3, <1>4, <2>2, <2>3 DEF One
    <2>5. One(log' # log) \in Int
      BY DEF One
    <2>6. own' + StillToCome' <= own + StillToCome
      BY <1>1, <1>5, <2>3, <2>4, <2>5
    <2>7. QED
      BY <1>1, <1>5, <2>2, <2>3, <2>5, <2>6
  <1>11. ASSUME UNCHANGED <<log, copies, others, losses>>, StillToCome' <= StillToCome
         PROVE  CopiesCount'
    BY <1>1, <1>2, <1>5, <1>11
  <1>12. CASE LoseCurrent
    <2>1. UNCHANGED <<monitorVars, log, poller, copies, others>> /\ losses' = losses + 1
      BY <1>12 DEF LoseCurrent
    <2>2. StillToCome' <= StillToCome + 1
      BY <1>3, <1>4, <2>1 DEF One
    <2>3. QED
      BY <1>1, <1>2, <1>5, <2>1, <2>2
  <1>13. CASE Poll
    <2>1. UNCHANGED <<log, current, board, copies, others, losses>>
      BY <1>13 DEF Poll, PollNew
    <2>2. ~ holding /\ holding' /\ full /\ hand' = there
      BY <1>13 DEF Poll, PollNew
    <2>3. StillToCome' <= StillToCome
      BY <1>3, <1>4, <2>1, <2>2 DEF One
    <2>4. QED
      BY <1>11, <2>1, <2>3
  <1>14. ASSUME UNCHANGED <<log, current, board, pending, copies, others, losses>>,
                holding' => holding
         PROVE  CopiesCount'
    <2>1. StillToCome' <= StillToCome
      BY <1>3, <1>4, <1>14 DEF One
    <2>2. QED
      BY <1>11, <1>14, <2>1
  <1>15. CASE HandlePrivacy \/ HandlePrivacyBlind
    BY <1>14, <1>15 DEF HandlePrivacy, HandlePrivacyBlind, Decide, MarkHandled
  <1>16. CASE ClearLocal
    <2>1. UNCHANGED <<log, copies, others, losses>> /\ ~ holding /\ ~ holding' /\ ~ full'
      BY <1>16 DEF ClearLocal
    <2>2. StillToCome' <= StillToCome
      BY <1>3, <1>4, <2>1 DEF One
    <2>3. QED
      BY <1>11, <2>1, <2>2
  <1>17. CASE Restart
    <2>1. UNCHANGED <<log, current, board, copies, others, losses>> /\ ~ holding'
      BY <1>17 DEF Restart, ResetMonitor
    <2>2. StillToCome' <= StillToCome
      BY <1>3, <1>4, <2>1 DEF One
    <2>3. QED
      BY <1>11, <2>1, <2>2
  <1>18. CASE SendFails \/ SendGivenUp \/ AnswerLost
    BY <1>14, <1>18 DEF SendFails, SendGivenUp, AnswerLost
  <1>19. CASE ClearLocalFails \/ MarkSent
    BY <1>14, <1>19 DEF ClearLocalFails, MarkSent, MarkHandled
  <1>20. CASE UNCHANGED vars \/ \E app \in Apps : SwitchTo(app)
    BY <1>14, <1>20 DEF vars, SwitchTo
  <1>21. QED
    BY <1>6, <1>8, <1>9, <1>10, <1>12, <1>13, <1>15, <1>16, <1>17, <1>18, <1>19, <1>20
       DEF OutNext

-----------------------------------------------------------------------------

LEMMA OutInitially == OutInit => OutInv
  <1> SUFFICES ASSUME OutInit
               PROVE  OutInv
    OBVIOUS
  <1> USE DEF OutInit, MonitorInit
  <1>1. board[Me] \in Contents \cup {Empty}
    BY BeforeAssumption
  <1>2. OutTypeOK
    BY BeforeAssumption DEF OutTypeOK, MonitorTypeOK
  <1>3. HandHolds /\ FilteredKeptLocal /\ HeldAsGiven /\ IgnoredContextKeptLocal
    BY DEF HandHolds, InHand, FilteredKeptLocal, HeldAsGiven, IgnoredContextKeptLocal
  <1>4. OriginIsFront /\ BlockedIsSeen
    BY DEF OriginIsFront, BlockedIsSeen
  <1>5. CopiesCount
    <2>1. OwnClips = {}
      BY DEF OwnClips
    <2>2. Cardinality(OwnClips) = 0
      BY <2>1, FS_EmptySet
    <2>3. QED
      BY <2>2 DEF CopiesCount, StillToCome, One, IsCurrent
  <1>6. QED
    BY <1>2, <1>3, <1>4, <1>5 DEF OutInv

\* The inductive invariant of the way out (internal/agent/agent.go with its monitor and
\* policy, internal/hubclient/client.go, internal/hub/handler.go).
THEOREM OutInvariance == OutSpec => []OutInv
  <1>1. OutInv /\ [OutNext]_vars => OutInv'
    BY OutTypePreserved, HandPreserved, FilteredPreserved, OriginPreserved,
       IgnoredPreserved, BlockedPreserved, HeldPreserved, CopiesPreserved DEF OutInv
  <1>2. QED
    BY <1>1, OutInitially, PTL DEF OutSpec

\* What was copied in a context that the policy blocks is not put, but for the listed
\* excuses: --ignore-apps, --ignore-processes and the password managers.
THEOREM IgnoredContextsStay == OutSpec => []IgnoredContextKeptLocal
  <1>1. OutInv => IgnoredContextKeptLocal
    BY DEF OutInv
  <1>2. QED
    BY <1>1, OutInvariance, PTL

\* No clip that clipd put looks like a class that the policy filters.
THEOREM FilteredStays == OutSpec => []FilteredKeptLocal
  <1>1. OutInv => FilteredKeptLocal
    BY DEF OutInv
  <1>2. QED
    BY <1>1, OutInvariance, PTL

\* What the process blocked stays local until it is copied again: Poll and MarkHandled
\* of the monitor, handlePrivacy and ClearLocal.
THEOREM BlockedStays == OutSpec => []BlockedStaysLocal
  <1>1. OutInv => BlockedStaysLocal
    BY DEF OutInv, BlockedIsSeen, BlockedStaysLocal, InHand
  <1>2. QED
    BY <1>1, OutInvariance, PTL

\* The hub holds what it was given, in one of the forms that the two routes make of it,
\* not empty and not above the limit; of clipd under the type of the clipboard.
THEOREM HeldFaithfully == OutSpec => []HeldAsGiven
  <1>1. OutInv => HeldAsGiven
    BY DEF OutInv
  <1>2. QED
    BY <1>1, OutInvariance, PTL

\* The puts that clipd waits for add no more clips than were copied, or came between,
\* or than the hub lost its current clip, whatever answers are lost, whatever puts are
\* given up and arrive late, and however often clipd is restarted.
THEOREM NoCopyTwice == OutSpec => []OneCopyOneClip
  <1>1. OutInv => OneCopyOneClip
    <2> SUFFICES ASSUME OutInv
                 PROVE  OneCopyOneClip
      OBVIOUS
    <2>1. Cardinality(OwnClips) \in Nat /\ copies \in Nat /\ others \in Nat /\ losses \in Nat
      BY OwnClipsFinite DEF OutInv, OutTypeOK, Clips, Putters
    <2>2. StillToCome \in Nat
      BY DEF StillToCome, One
    <2>3. QED
      BY <2>1, <2>2 DEF OutInv, CopiesCount, OneCopyOneClip
  <1>2. QED
    BY <1>1, OutInvariance, PTL

=============================================================================
