----------------------------- MODULE MCOutbound -----------------------------
(***************************************************************************)
(* The instance of Outbound for TLC.                                       *)
(***************************************************************************)
EXTENDS Outbound

\* Names as they come, and what normalize makes of them.
MCNorm == [r \in Raw |-> CASE r = "KeePassXC" -> "keepassxc" [] r = " " -> Blank [] OTHER -> r]

\* A command line and a bundle hold the name of their program.
MCWithin ==
    {"keepass"} \X {"keepassxc", "org.keepassxc", "/usr/bin/keepassxc"} \cup
    {"keepassxc"} \X {"org.keepassxc", "/usr/bin/keepassxc"}

MCApps ==
    {[app |-> "term", bundle |-> Blank, process |-> "term"],
     [app |-> "KeePassXC", bundle |-> "org.keepassxc", process |-> "/usr/bin/keepassxc"]}

MCPolicies ==
    {NewConfig({"KeePassXC", " "}, {"keepassxc"}, {"otp"}, FALSE),
     NewConfig({}, {}, {"otp", "password-manager"}, TRUE)}

\* A type in capitals, and one that is none.
MCTextual == {"text/plain", "text/"}

MCMimeTypes == MCTextual \cup {"", "Text/plain", "image/png", "application/octet-stream"}

MCParse ==
    [mime \in MCMimeTypes |->
        CASE mime \in {"", "text/"} -> Malformed
          [] mime = "Text/plain" -> "text/plain"
          [] OTHER -> mime]

Text(id, size, escapes, utf8, looks) ==
    [id |-> id, mime |-> "text/plain", size |-> size, escapes |-> escapes, utf8 |-> utf8,
     blank |-> FALSE, looks |-> looks]

\* A one-time code that is not UTF-8, text whose JSON is above the limit, an image of
\* just that size.
MCContents ==
    {Text("code", 2, 0, FALSE, {"otp"}), Text("page", 4, 1, TRUE, {}),
     [id |-> "shot", mime |-> "image/png", size |-> 5, escapes |-> 0, utf8 |-> FALSE,
      blank |-> FALSE, looks |-> {}]}

MCForeign == {c \in MCContents : c.id = "code"}

\* The clipboard is empty at first; a restart finds it as it is.
MCBefore == {Empty}

MCReads == [n \in Nodes |-> [c \in Contents |-> c]]

=============================================================================
