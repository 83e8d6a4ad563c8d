---------------------------- MODULE ClipContent ----------------------------
(***************************************************************************)
(* A content and its MIME type (internal/clipboard/clipboard.go,           *)
(* internal/protocol/api.go), as the privacy policy and the way into the   *)
(* hub tell them apart: a record of its identity (id), its MIME type, its  *)
(* size, by how much JSON escapes lengthen it, is it well-formed UTF-8, is *)
(* it white space, what it looks like.                                     *)
(***************************************************************************)
EXTENDS Integers

CONSTANTS
    MimeTypes,       \* MIME types as clients write them
    Textual,         \* those with the prefix text/
    Parse            \* what mime.ParseMediaType makes of them

NoType == ""
PlainText == "text/plain"
OctetStream == "application/octet-stream"
Malformed == "malformed"     \* not a type: ParseMediaType fails

ASSUME MimeAssumption ==
    /\ Textual \subseteq MimeTypes
    /\ PlainText \in Textual /\ {NoType, OctetStream} \subseteq MimeTypes \ Textual
    /\ Parse \in [MimeTypes -> (MimeTypes \ {NoType}) \cup {Malformed}]

\* IsText compares the type as it is written.
IsText(ct) == ct.mime \in Textual

\* normalizeMimeType of the hub: the type without its parameters, in lower case.
NormalizeMimeType(mime) ==
    IF mime = NoType \/ Parse[mime] = Malformed THEN OctetStream ELSE Parse[mime]

=============================================================================
