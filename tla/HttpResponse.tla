---------------------------- MODULE HttpResponse ----------------------------
(***************************************************************************)
(* The text of the responses (HTTPPacket.cpp 134-197) and the client that  *)
(* reads them from one connection.  A text is a sequence of units: Eol     *)
(* for a CRLF, a record for a status line or a field, and the units of the *)
(* body, which may be line ends too; lengths are counted in units.         *)
(*                                                                         *)
(* Every response ends with two line ends its Content-length does not      *)
(* count.  The program's own Read needs them to find the end; any other    *)
(* client finds them before the next status line.                          *)
(*                                                                         *)
(* A 200 whose write fails, after any part of it, is followed by a 404     *)
(* that may be cut too, and ends the loop (Worker.cpp 54-62).  A 404 for   *)
(* a 200 of which nothing was sent is a 404 like others, and a 400 or 404  *)
(* that is cut a part of the stream.                                       *)
(***************************************************************************)
EXTENDS Naturals, Sequences, SequencesExt, FiniteSetsExt

CONSTANTS BodyUnits,     \* what a file is put together from
          MaxBody,       \* its greatest length
          MaxResponses   \* bound: responses on one connection

ASSUME ResponseAssumption == MaxBody \in Nat /\ MaxResponses \in Nat

VARIABLES
    sent,    \* the responses written in full: a sequence of [code, body, conn]
    stream,  \* their units on the connection
    cut,     \* the 200 whose write failed, as a sequence of one, or none
    rest,    \* the units of it that follow the stream
    error    \* the units of the 404 after them

responseVars == <<sent, stream, cut, rest, error>>

Unit(line, word, number) == [line |-> line, word |-> word, number |-> number]
Eol == Unit("eol", "", 0)
Text(word) == Unit("text", word, 0)
Status(code) == Unit("status", code, 0)
Field(name, word) == Unit(name, word, 0)
ContentLength(number) == Unit("Content-length", "", number)

getKeepAliveString(isKeepAlive) == IF isKeepAlive THEN "keep-alive" ELSE "close"

ResponseHead(code, fields) ==
    <<Status(code), Eol>> \o FlattenSeq([i \in DOMAIN fields |-> <<fields[i], Eol>>]) \o <<Eol>>

\* Mutant: the length counts the line ends after the body.
Create200_CountsTrailer(dataFile, contentType, isKeepAlive) ==
    ResponseHead("200", <<ContentLength(Len(dataFile) + 2),
                          Field("Connection", getKeepAliveString(isKeepAlive)),
                          Field("Content-Type", contentType)>>)
    \o dataFile \o <<Eol, Eol>>

Create200(dataFile, contentType, isKeepAlive) ==
    ResponseHead("200", <<ContentLength(Len(dataFile)),
                          Field("Connection", getKeepAliveString(isKeepAlive)),
                          Field("Content-Type", contentType)>>)
    \o dataFile \o <<Eol, Eol>>

\* The length is a constant of the code; so are the characters it counts.
BadRequest == [i \in 1..11 |-> Text("c")]

Create400(isKeepAlive) ==
    ResponseHead("400", <<Field("Connection", getKeepAliveString(isKeepAlive)),
                          ContentLength(11)>>)
    \o BadRequest \o <<Eol, Eol>>

NotFound == <<Text("html")>>

Create404(isKeepAlive) ==
    ResponseHead("404", <<Field("Content-Type", "text/html"),
                          ContentLength(Len(NotFound)),
                          Field("Connection", getKeepAliveString(isKeepAlive))>>)
    \o NotFound \o <<Eol, Eol>>

-----------------------------------------------------------------------------
(* What ProcessGET writes, until it returns false.                         *)

Meant(code, body, conn) == [code |-> code, body |-> body, conn |-> conn]

ResponseInit ==
    sent = <<>> /\ stream = <<>> /\ cut = <<>> /\ rest = <<>> /\ error = <<>>

\* ProcessGET is called again only after a 200 that was written.
InLoop == cut = <<>> /\ (sent # <<>> => Last(sent).code = "200")

Write(response, text) ==
    /\ InLoop /\ Len(sent) < MaxResponses
    /\ sent' = Append(sent, response) /\ stream' = stream \o text
    /\ UNCHANGED <<cut, rest, error>>

Respond200 == \E file \in BoundedSeq(BodyUnits, MaxBody) :
    Write(Meant("200", file, "keep-alive"), Create200(file, "text/html", TRUE))

Respond400 == Write(Meant("400", BadRequest, "close"), Create400(FALSE))

Respond404 == Write(Meant("404", NotFound, "close"), Create404(FALSE))

\* All of it may be sent when the write fails: after a reset, which lets
\* nothing of the 404 through.
Respond200Fails == \E file \in BoundedSeq(BodyUnits, MaxBody) :
    LET text == Create200(file, "text/html", TRUE)
        error404 == Create404(FALSE)
    IN  /\ InLoop /\ Len(sent) + 1 < MaxResponses
        /\ cut' = <<Meant("200", file, "keep-alive")>>
        /\ \E n \in 1..Len(text), m \in 0..Len(error404) :
             /\ n = Len(text) => m = 0
             /\ rest' = SubSeq(text, 1, n) /\ error' = SubSeq(error404, 1, m)
        /\ UNCHANGED <<sent, stream>>

Respond == Respond200 \/ Respond400 \/ Respond404 \/ Respond200Fails

\* The responses on one connection.
ResponseSpec == ResponseInit /\ [][Respond]_responseVars

-----------------------------------------------------------------------------
(* A client that goes by Content-length and passes over line ends before a *)
(* status line (RFC 9112, 2.2).  A field that is missing says nothing to   *)
(* it: no body, and the connection is kept.                                *)

\* Where the next response begins, its blank line, and a field in between.
Begins(s, from) == {i \in from..Len(s) : s[i] # Eol}
Blanks(s, from) == {i \in (from + 1)..Len(s) : s[i - 1] = Eol /\ s[i] = Eol}

FieldIn(s, first, last, name) ==
    LET at == {i \in first..last : s[i] # Eol /\ s[i].line = name}
    IN  IF at = {} THEN Eol ELSE s[Min(at)]

ClientReads(s) ==
    LET from[p \in 1..(Len(s) + 1)] ==
          LET first == Min(Begins(s, p))
              blank == Min(Blanks(s, first))
              length == FieldIn(s, first, blank, "Content-length").number
              conn == FieldIn(s, first, blank, "Connection").word
              next == blank + length + 1
          IN  IF Begins(s, p) = {} \/ Blanks(s, first) = {} \/ next \notin (p + 1)..(Len(s) + 1)
              THEN <<>>
              ELSE <<Meant(s[first].word, SubSeq(s, blank + 1, blank + length), conn)>>
                   \o IF conn = "close" THEN <<>> ELSE from[next]
    IN  from[1]

(* Whatever files are served, their own line ends and status lines         *)
(* included, such a client has from what it has received a prefix of what  *)
(* the worker meant, and from the whole stream all of it: the uncounted    *)
(* line ends are never taken for a part of a response.  This is so up to   *)
(* the 404 behind a 200 that was cut: its units may be read as the body or *)
(* the head of that 200, but the responses before it stay as they were.    *)
ClientReadsWhatWasMeant ==
    /\ cut = <<>> => ClientReads(stream) = sent
    /\ \A n \in 0..Len(stream \o rest) :
         IsPrefix(ClientReads(SubSeq(stream \o rest, 1, n)), sent \o cut)
    /\ IsPrefix(sent, ClientReads(stream \o rest \o error))

(* The program's own ReadPacket, which knows no lengths, finds the end of  *)
(* every response in full: a blank line stands where it ends               *)
(* (SocketHelper.h 53).                                                    *)
ReadPacketFindsEnd ==
    stream # <<>> =>
        Len(stream) > 1 /\ SubSeq(stream, Len(stream) - 1, Len(stream)) = <<Eol, Eol>>

(* Together: both readers of a stream of responses find their ends.        *)
ResponsesUnderstood == ClientReadsWhatWasMeant /\ ReadPacketFindsEnd
=============================================================================
