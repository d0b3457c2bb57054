----------------------------- MODULE Connection -----------------------------
(***************************************************************************)
(* One connection, from SetTimeout to the end of the worker's inner loop:  *)
(* Worker.cpp 17-120, the Read and Write loops of SocketHelper.h, the      *)
(* parts of HTTPPacket that decide what the loop does, and the client and  *)
(* kernel buffers on the other side.                                       *)
(*                                                                         *)
(* The client sends texts: requests and, after a request, the texts of its *)
(* body, cut at blank lines.  The server knows of no bodies: what is at    *)
(* the beginning of its buffer is read as a request.  A text is two tokens,*)
(* its head (request line and fields, or whatever a body has there) and a  *)
(* blank line, which the last text of a body may lack.  recv returns any   *)
(* prefix of what has arrived, so a text may come in pieces and two texts  *)
(* in one piece.  A response is Units units, so that send may take part of *)
(* it.                                                                     *)
(*                                                                         *)
(* Over TLS Read and Write call SSL_read and SSL_write.  SSL_write takes   *)
(* the whole response or fails; with a record of it pending it refuses     *)
(* every other buffer; for no bytes it does not go to the socket; and it   *)
(* knows no MSG_NOSIGNAL, so that a client that is gone raises SIGPIPE.    *)
(***************************************************************************)
EXTENDS Naturals, Sequences, SequencesExt, FiniteSets, FiniteSetsExt

CONSTANTS Requests,  \* how many texts the client sends
          Scripts,   \* the sequences of texts it may send
          BufSize,   \* tokens that Read's buffer holds (65535 bytes)
          SendBuf,   \* units the kernel keeps for the client
          Units      \* units of a response

\* How Parse reads a text that begins the buffer.  line: "GET", another
\* method, or a line it rejects; conn: the value of Connection, none, or one
\* ExtractField misreads; target: see Reply.  body: it belongs to the body
\* of the request before it; blank: a blank line follows it.
Kinds ==
    {k \in [line : {"GET", "other", "malformed"},
            conn : {"keepAlive", "close", "none", "noSpace"},
            target : {"file", "missing", "long", "dots", "badExtension"},
            body : BOOLEAN, blank : BOOLEAN] : k.blank \/ k.body}

ASSUME ConnectionAssumption ==
    /\ Requests \in Nat \ {0} /\ BufSize \in Nat \ {0}
    /\ SendBuf \in Nat \ {0} /\ Units \in Nat \ {0}
    /\ \A s \in Scripts : s \in [1..Requests -> Kinds] /\ ~s[1].body

VARIABLES
    reqs,       \* the client's texts, in order
    secure,     \* whether the worker's socket is a TLSSocket
    pipelines,  \* whether it sends a request before the last one is answered
    unsent,     \* tokens the client still has to send
    inbox,      \* tokens in the kernel, not yet received
    eof, reset, \* the client has shut its side; has reset the connection
    stopped,    \* stopSource.stop_requested()
    pc,         \* the worker's place
    buffer,     \* Read's buffer up to offset
    isKA,       \* the loop's isKA
    current,    \* the text being answered
    reply,      \* the response being written
    left,       \* its units not yet taken by send
    wire,       \* history: the units taken by send
    received,   \* how many of them the client has received
    late        \* history: responses begun after the stop

client == <<reqs, secure, pipelines, unsent>>
peer == <<eof, reset>>
answer == <<current, reply, left>>
vars == <<client, inbox, peer, stopped, pc, buffer, isKA, answer, wire, received, late>>

Pcs == {"loop", "alive", "read", "parse", "get", "write", "closed", "ended", "killed"}
Replies == {"200", "400", "404"}
Over == pc \in {"closed", "ended", "killed"}

Request(rs, n) ==
    <<[req |-> n, part |-> "head"]>>
    \o IF rs[n].blank THEN <<[req |-> n, part |-> "blank"]>> ELSE <<>>

Stream(rs) == FlattenSeq([n \in 1..Requests |-> Request(rs, n)])

Init ==
    /\ reqs \in Scripts
    /\ secure \in BOOLEAN /\ pipelines \in BOOLEAN
    /\ unsent = Stream(reqs)
    /\ inbox = <<>> /\ eof = FALSE /\ reset = FALSE /\ stopped = FALSE
    /\ pc = "loop" /\ buffer = <<>> /\ isKA = TRUE
    /\ current = 1 /\ reply = "200" /\ left = 0
    /\ wire = <<>> /\ received = 0 /\ late = 0

-----------------------------------------------------------------------------
(* The client and the stop.                                                *)

UnitsOf(n, units) == Cardinality({i \in DOMAIN units : units[i].req = n})

\* It has an answer to the request before n, or to a text of its body.
HasAnswerBefore(n) ==
    \E m \in 1..(n - 1) :
        /\ UnitsOf(m, SubSeq(wire, 1, received)) >= Units
        /\ \A k \in (m + 1)..(n - 1) : reqs[k].body

\* A client that waits sends a request with its body, and then waits.
ClientSends ==
    /\ unsent # <<>> /\ ~eof /\ ~reset
    /\ LET t == Head(unsent)
       IN  \/ pipelines \/ t.req = 1 \/ t.part = "blank" \/ reqs[t.req].body
           \/ HasAnswerBefore(t.req)
    /\ inbox' = Append(inbox, Head(unsent))
    /\ unsent' = Tail(unsent)
    /\ UNCHANGED <<reqs, secure, pipelines, peer, stopped, pc, buffer, isKA, answer, wire, received, late>>

ClientReceives ==
    /\ received < Len(wire) /\ ~reset
    /\ received' = received + 1
    /\ UNCHANGED <<client, inbox, peer, stopped, pc, buffer, isKA, answer, wire, late>>

ClientLeaves ==
    /\ ~Over
    /\ \/ ~eof /\ eof' = TRUE /\ UNCHANGED reset
       \/ ~reset /\ reset' = TRUE /\ UNCHANGED eof
    /\ UNCHANGED <<client, inbox, stopped, pc, buffer, isKA, answer, wire, received, late>>

Stop ==
    /\ ~Over /\ ~stopped
    /\ stopped' = TRUE
    /\ UNCHANGED <<client, inbox, peer, pc, buffer, isKA, answer, wire, received, late>>

-----------------------------------------------------------------------------
(* The loop and Read.                                                      *)

WorkerGoes(from, to) == pc = from /\ pc' = to

\* Mutant: the flag is tested only between connections.
LoopTest_NoStop ==
    /\ WorkerGoes("loop", IF isKA THEN "alive" ELSE "closed")
    /\ UNCHANGED <<client, inbox, peer, stopped, buffer, isKA, answer, wire, received, late>>

\* while (isKA && !st.stop_requested())
LoopTest ==
    /\ WorkerGoes("loop", IF isKA /\ ~stopped THEN "alive" ELSE "closed")
    /\ UNCHANGED <<client, inbox, peer, stopped, buffer, isKA, answer, wire, received, late>>

Readable == inbox # <<>> \/ eof \/ reset

\* select with a timeout: a silent client is as dead as select's error.
IsAlive ==
    /\ WorkerGoes("alive", IF Readable THEN "read" ELSE "closed")
    /\ buffer' = <<>>
    /\ UNCHANGED <<client, inbox, peer, stopped, isKA, answer, wire, received, late>>

IsBlankLine == buffer # <<>> /\ Last(buffer).part = "blank"

\* recv: some of what has arrived, as far as the buffer has room.
Receive ==
    /\ WorkerGoes("read", "read")
    /\ ~IsBlankLine
    /\ \E k \in 1..Len(inbox) :
         /\ Len(buffer) + k <= BufSize
         /\ buffer' = buffer \o SubSeq(inbox, 1, k)
         /\ inbox' = SubSeq(inbox, k + 1, Len(inbox))
    /\ UNCHANGED <<client, peer, stopped, isKA, answer, wire, received, late>>

\* Mutant: one recv is taken for the whole packet.
ReadDone_OnePiece ==
    /\ WorkerGoes("read", "parse")
    /\ buffer # <<>>
    /\ UNCHANGED <<client, inbox, peer, stopped, buffer, isKA, answer, wire, received, late>>

\* The blank line is looked for only where the last piece ended.
ReadDone ==
    /\ WorkerGoes("read", "parse")
    /\ IsBlankLine
    /\ UNCHANGED <<client, inbox, peer, stopped, buffer, isKA, answer, wire, received, late>>

\* Mutant: SetTimeout is not called.
ReadFails_NoTimeout ==
    /\ WorkerGoes("read", "closed")
    /\ ~IsBlankLine
    /\ (inbox = <<>> /\ (eof \/ reset)) \/ Len(buffer) = BufSize
    /\ UNCHANGED <<client, inbox, peer, stopped, buffer, isKA, answer, wire, received, late>>

\* recv returns 0 (end of stream, or no room left) or -1 (timeout, reset).
ReadFails ==
    /\ WorkerGoes("read", "closed")
    /\ ~IsBlankLine
    /\ inbox = <<>> \/ Len(buffer) = BufSize
    /\ UNCHANGED <<client, inbox, peer, stopped, buffer, isKA, answer, wire, received, late>>

-----------------------------------------------------------------------------
(* Parse, IsKeepAlive and ProcessGET.                                      *)

Kind(t) == reqs[t.req]

\* ExtractField takes the first "Connection" of the whole buffer.
Connection ==
    LET fields == {i \in DOMAIN buffer :
                     buffer[i].part = "head" /\ Kind(buffer[i]).conn # "none"}
    IN  IF fields = {} THEN "none" ELSE Kind(buffer[Min(fields)]).conn

\* What begins the buffer, be it left over from a body, is the request line.
IsGETMethod == Kind(buffer[1]).line = "GET"

\* ParseException or out_of_range: the worker's thread ends.
ParseThrows ==
    /\ WorkerGoes("parse", "ended")
    /\ Kind(buffer[1]).line = "malformed" \/ Connection = "noSpace"
    /\ UNCHANGED <<client, inbox, peer, stopped, buffer, isKA, answer, wire, received, late>>

Parse ==
    /\ WorkerGoes("parse", IF IsGETMethod THEN "get" ELSE "loop")
    /\ Kind(buffer[1]).line # "malformed"
    /\ isKA' = (Connection = "keepAlive")
    /\ current' = buffer[1].req
    /\ UNCHANGED <<client, inbox, peer, stopped, buffer, reply, left, wire, received, late>>

Target == reqs[current].target

Reply == CASE Target = "file" -> "200"
           [] Target = "long" -> "400"
           [] OTHER -> "404"

\* GetContentType's files.at(ext) throws before the file is looked for.
GetThrows ==
    /\ WorkerGoes("get", "ended")
    /\ Target = "badExtension"
    /\ UNCHANGED <<client, inbox, peer, stopped, buffer, isKA, answer, wire, received, late>>

ProcessGET ==
    /\ WorkerGoes("get", "write")
    /\ Target # "badExtension"
    /\ reply' = Reply /\ left' = Units
    /\ late' = IF stopped THEN late + 1 ELSE late
    /\ UNCHANGED <<client, inbox, peer, stopped, buffer, isKA, current, wire, received>>

-----------------------------------------------------------------------------
(* Write, and what ProcessGET does with its result.                        *)

Room == SendBuf - (Len(wire) - received)

Unit(i) == [req |-> current, reply |-> reply, unit |-> i]

Send ==
    /\ WorkerGoes("write", "write")
    /\ ~reset
    /\ \E k \in 1..left :
         /\ k <= Room
         /\ wire' = wire \o [i \in 1..k |-> Unit(Units - left + i)]
         /\ left' = left - k
    /\ UNCHANGED <<client, inbox, peer, stopped, buffer, isKA, current, reply, received, late>>

\* send fails: reset, or no room for five seconds; when all is sent, the
\* last call of the loop has nothing to send and fails only after a reset,
\* over TLS never.
SendFails == \/ left > 0 /\ (reset \/ Room <= 0)
             \/ left = 0 /\ reset /\ ~secure

\* Mutants: the result of the 200 is not looked at; the 200 is sent again.
WriteFailed_Ignored ==
    /\ WorkerGoes("write", IF reply = "200" THEN "loop" ELSE "closed")
    /\ SendFails
    /\ UNCHANGED <<client, inbox, peer, stopped, buffer, isKA, answer, wire, received, late>>

WriteFailed_Retry ==
    /\ pc = "write"
    /\ SendFails
    /\ IF reply = "200" THEN left' = Units /\ UNCHANGED pc
                        ELSE pc' = "closed" /\ UNCHANGED left
    /\ UNCHANGED <<client, inbox, peer, stopped, buffer, isKA, current, reply, wire, received, late>>

\* Mutant: as if SSL_write took another buffer.
WriteFailed_AnyBuffer ==
    /\ pc = "write"
    /\ SendFails
    /\ IF reply = "200" THEN /\ reply' = "404" /\ left' = Units
                             /\ UNCHANGED pc
                        ELSE pc' = "closed" /\ UNCHANGED <<reply, left>>
    /\ UNCHANGED <<client, inbox, peer, stopped, buffer, isKA, current, wire, received, late>>

\* A 200 that fails is followed by a 404, which SSL_write refuses; everything
\* but a 200 that was sent ends the loop.
WriteFailed ==
    /\ pc = "write"
    /\ SendFails
    /\ IF reply = "200" /\ ~secure
       THEN reply' = "404" /\ left' = Units /\ UNCHANGED pc
       ELSE pc' = "closed" /\ UNCHANGED <<reply, left>>
    /\ UNCHANGED <<client, inbox, peer, stopped, buffer, isKA, current, wire, received, late>>

\* SIGPIPE: nobody handles or ignores it, the process ends.
Killed ==
    /\ WorkerGoes("write", "killed")
    /\ secure /\ reset /\ left > 0
    /\ UNCHANGED <<client, inbox, peer, stopped, buffer, isKA, answer, wire, received, late>>

WriteDone ==
    /\ WorkerGoes("write", IF reply = "200" THEN "loop" ELSE "closed")
    /\ left = 0 /\ ~SendFails
    /\ UNCHANGED <<client, inbox, peer, stopped, buffer, isKA, answer, wire, received, late>>

-----------------------------------------------------------------------------
WorkerStep ==
    \/ LoopTest \/ IsAlive \/ Receive \/ ReadDone \/ ReadFails
    \/ ParseThrows \/ Parse \/ GetThrows \/ ProcessGET
    \/ Send \/ WriteFailed \/ Killed \/ WriteDone

Next == WorkerStep \/ ClientSends \/ ClientReceives \/ ClientLeaves \/ Stop

(***************************************************************************)
(* Fairness: the worker runs, and each of its calls returns within its     *)
(* timeout (SetTimeout).  The client owes nothing.                         *)
(***************************************************************************)
Spec == Init /\ [][Next]_vars /\ WF_vars(WorkerStep)

-----------------------------------------------------------------------------
(* Properties.                                                             *)

Tokens == [req : 1..Requests, part : {"head", "blank"}]
WireUnits == [req : 1..Requests, reply : Replies, unit : 1..Units]

TypeOK ==
    /\ reqs \in [1..Requests -> Kinds] /\ ~reqs[1].body
    /\ secure \in BOOLEAN /\ pipelines \in BOOLEAN
    /\ unsent \in Seq(Tokens) /\ inbox \in Seq(Tokens) /\ buffer \in Seq(Tokens)
    /\ eof \in BOOLEAN /\ reset \in BOOLEAN /\ stopped \in BOOLEAN
    /\ pc \in Pcs /\ isKA \in BOOLEAN
    /\ current \in 1..Requests /\ reply \in Replies /\ left \in 0..Units
    /\ wire \in Seq(WireUnits) /\ received \in 0..Len(wire) /\ late \in Nat

(* What TestSndRcv asserts (packet==packetGet), for every way the bytes    *)
(* can be cut into pieces: a client that waits for its answers and sends   *)
(* no body has each of its requests read whole, and nothing else with it.  *)
ExactRead ==
    /\ TypeOK
    /\ pc = "parse" /\ ~pipelines /\ (\A n \in 1..Requests : ~reqs[n].body)
         => \E n \in 1..Requests : buffer = Request(reqs, n)

(* What the client sees on the wire: answers in the order of the texts,    *)
(* each from its first unit on and, except for the last, complete; only a  *)
(* 404 may interrupt the 200 of the same text, and then nothing follows.   *)
(* Over TLS a response is never interrupted.                               *)
WireWellFormed ==
    \A i \in DOMAIN wire :
        LET u == wire[i]
            before == wire[i - 1]
        IN  IF u.unit > 1
            THEN i > 1 /\ before = [u EXCEPT !.unit = @ - 1]
            ELSE \/ i = 1
                 \/ before.unit = Units /\ before.reply = "200" /\ before.req < u.req
                 \/ ~secure /\ before.reply = "200" /\ before.unit < Units
                      /\ u.reply = "404" /\ before.req = u.req

Consumed(n) == \A i \in DOMAIN (inbox \o unsent) : (inbox \o unsent)[i].req # n

Answered(n) == \E i \in DOMAIN wire : wire[i] = [req |-> n, reply |-> "200", unit |-> Units]

\* No text of a body follows one that is read as a GET.
GETsHaveNoBody ==
    \A n \in 1..(Requests - 1) : reqs[n].line = "GET" => ~reqs[n + 1].body

(* While the worker waits for the next request of a client that waits for  *)
(* its answers, every GET it has read is answered in full.  (What follows  *)
(* a GET as its body would be taken for the next request line.)            *)
NoSilentDrop ==
    pc = "alive" /\ ~pipelines /\ GETsHaveNoBody =>
        \A n \in 1..Requests :
            reqs[n].line = "GET" /\ ~reqs[n].body /\ Consumed(n) => Answered(n)

(* The stop is seen before the next request: at most the one being read    *)
(* when it came is still answered.                                         *)
AtMostOneLate == late <= 1

-----------------------------------------------------------------------------
(* The connection as an exchange of requests and answers.                  *)

FirstUnits(w) == {i \in DOMAIN w : w[i].unit = 1}

\* Where the i-th answer on the wire begins.
Beginning(w, i) ==
    CHOOSE f \in FirstUnits(w) : Cardinality({g \in FirstUnits(w) : g <= f}) = i

\* The answers on the wire; one is whole when its last unit is there.
AnswersOn(w) ==
    [i \in 1..Cardinality(FirstUnits(w)) |->
        LET u == w[Beginning(w, i)]
        IN  [req |-> u.req, kind |-> u.reply,
             whole |-> [u EXCEPT !.unit = Units] \in ToSet(w)]]

\* What the target calls for; only a GET that does not throw is answered.
RightAnswer(k) ==
    IF k.line # "GET" \/ k.target = "badExtension" THEN {}
    ELSE {CASE k.target = "file" -> "200" [] k.target = "long" -> "400" [] OTHER -> "404"}

Exchange == INSTANCE HttpExchange
    WITH right <- [n \in 1..Requests |-> RightAnswer(reqs[n])],
         answers <- AnswersOn(wire), over <- Over

(* The pieces, buffers and timeouts show only in a 404 for a file that is  *)
(* there, when its 200 could not be sent: else each text is answered once  *)
(* and rightly or not at all, in order, nothing follows an answer that     *)
(* announced the close, and the exchange comes to its end.  A text of a    *)
(* body gets an answer only if it begins like a GET: without such bodies   *)
(* no request has two answers.                                             *)
ExchangeSpec == Exchange!Spec

(* No client can hold a worker for ever with a finite number of requests,  *)
(* whatever it sends, leaves out or does not read.                         *)
ConnectionEnds == <>Over
=============================================================================
