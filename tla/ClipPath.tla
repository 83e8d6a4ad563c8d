------------------------------ MODULE ClipPath ------------------------------
(***************************************************************************)
(* What becomes of one content on its way into the hub: tailclip put and   *)
(* sendToHub, the Put of internal/hubclient, the two POST handlers of      *)
(* internal/hub/handler.go.  Pure operators, without state.                *)
(***************************************************************************)
EXTENDS ClipContent

CONSTANTS
    MaxContentSize,  \* 10 MiB
    Framing          \* what a JSON body has besides the content

ASSUME SizesAssumption == MaxContentSize \in Nat \ {0} /\ Framing \in Nat \ {0}

\* Requests to POST /api/clip, with the content as a string or as data in base64, and
\* to POST /api/clip/blob.
Base64(size) == 4 * ((size + 2) \div 3)

Json(ct, asData) ==
    [route |-> "json", ct |-> ct, data |-> asData,
     size |-> (IF asData THEN Base64(ct.size) ELSE ct.size + ct.escapes) + Framing]

Blob(ct) == [route |-> "blob", ct |-> ct, data |-> TRUE, size |-> ct.size]

GivenAs(ct, mime) == [ct EXCEPT !.mime = mime]

\* Client.Put: data that is not empty goes as a blob, anything else as JSON; without a
\* type it is given one.
Put(ct, asData) ==
    LET hasData == asData /\ ct.size > 0
        default == IF hasData THEN OctetStream ELSE PlainText
        typed == IF ct.mime = NoType THEN GivenAs(ct, default) ELSE ct
    IN IF hasData THEN Blob(typed) ELSE Json(typed, asData)

\* sendToHub of the agent, and tailclip put --file, with --mime or without.
PutByType(ct) == Put(ct, ~ IsText(ct))

\* tailclip put of what is typed or piped in: sent as a string, whatever --mime says.
PutText(ct) == Put(ct, FALSE)

\* readLimitedBody, for either route.
TooLarge(req) == req.size > MaxContentSize

\* What the handler takes for the type: the blob's is normalised, that in the JSON is
\* taken as it is written.
HubType(req) ==
    CASE req.route = "blob" -> NormalizeMimeType(req.ct.mime)
      [] req.route = "json" /\ req.ct.mime = NoType -> PlainText
      [] req.route = "json" /\ req.ct.mime # NoType -> req.ct.mime

Typed(req) == GivenAs(req.ct, HubType(req))

\* Is the content in the other field of the JSON than the type calls for?
WrongField(req) == req.route = "json" /\ (IsText(Typed(req)) <=> req.data)


\* The refusals with 400: no content for text, no data for anything else.
LacksContent(req) == req.ct.size = 0 \/ WrongField(req)

Accepts(req) == ~ TooLarge(req) /\ ~ LacksContent(req)

\* What h.Put is given.  A JSON string has what is not UTF-8 replaced; whether the body
\* of a blob is text is for its normalised type to say.
StoredAs(req) ==
    IF WrongField(req) THEN [Typed(req) EXCEPT !.size = 0]
    ELSE IF req.route = "json" /\ ~ req.data THEN [Typed(req) EXCEPT !.utf8 = TRUE]
    ELSE Typed(req)

=============================================================================
