---------------------------- MODULE MCConnection ----------------------------
(* Instances of Connection for TLC.                                        *)
EXTENDS Connection, TLC

Ask(line, conn, target) ==
    [line |-> line, conn |-> conn, target |-> target, body |-> FALSE, blank |-> TRUE]

Body(line, target, blank) ==
    [line |-> line, conn |-> "keepAlive", target |-> target, body |-> TRUE, blank |-> blank]

\* One kind of request per way through the loop.
Asks == {Ask("GET", "keepAlive", "file"),
         Ask("GET", "none", "missing"),
         Ask("GET", "close", "long"),
         Ask("GET", "noSpace", "dots"),
         Ask("GET", "keepAlive", "badExtension"),
         Ask("other", "keepAlive", "file"),
         Ask("malformed", "none", "file")}

\* Bodies that end in a blank line and bodies that do not, with and without
\* the look of a GET.
Bodies == {Body("GET", "file", TRUE), Body("GET", "missing", FALSE),
           Body("malformed", "file", TRUE), Body("other", "file", FALSE)}

GetFile == Ask("GET", "keepAlive", "file")
Post == Ask("other", "keepAlive", "file")

\* Any text, or any body of the first request, between two GETs; a request
\* that is not a GET with any body of one text, and with bodies of two.
SomeScripts ==
    {<<GetFile, k, Ask("GET", "none", "missing")>> : k \in Asks \union Bodies}
    \union {<<Post, b, k>> : b \in Bodies, k \in {GetFile, Body("GET", "file", TRUE)}}
=============================================================================
