# SmallHttpServer: specifications and proofs

TLA+ models of SmallHttpServer (the C++ sources in `src/`) and of the JSON
library it is built with, checked with TLC on small instances and, for the core,
proved with TLAPS for all instances.

## 1. The system

| Component | State it keeps | Operations | Talks to |
|---|---|---|---|
| `main.cpp` | `threads`, `stopSource` (globals), the locals `server`, `stack` | start-up, accept loop, join, exit; `sig_handler` | everything below |
| `Server` (`Server.cpp`) | `m_epoll`, `m_serverSockets`, `m_tlsContext` | `AddSocket`, `WaitClients`, destructor | kernel (epoll), `ServerSocket`, `Acceptor` |
| `ServerSocket` | a listening descriptor, `m_isSecure` | open, `Accept`, move, close | kernel |
| `Acceptor` (`SocketHelper.cpp`) | none | accept, TLS handshake | `ClientSocket`, `TLSSocket` |
| `ThreadSafeStack` | `m_stack`, `m_mutex`, `cv` | `AddSocket` (main), `GetSocket` (workers), destructor | `std::condition_variable_any`, stop token |
| `Worker` (`Worker.cpp`) | the current `socket`, `isKA` | take a connection, loop over its requests, `ProcessGET` | stack, socket, `HTTPPacket`, files |
| `ClientSocket`, `TLSSocket` | a descriptor (and an `SSL*`) | `SetTimeout`, `IsAlive`, `ReadPacket`, `WritePacket`, `Accept`, `Connect`, destructor | kernel, OpenSSL |
| `Read`, `Write` (`SocketHelper.h`) | `buffer`, `offset` | loops over recv/SSL_read, send/SSL_write | kernel, OpenSSL |
| `HTTPPacket` | none | `Parse`, `ExtractField`, `IsBlankLine`, `Split`, responses, `GetContentType` | none |
| `Options` | the listeners' addresses, ports, directories | command line, `config.json` | files, the JSON library |
| `Logger` | one `fstream` | `log`, `logError`, `WriteLog` | called by every thread, no lock |
| `TLSContext` | `SSL_CTX*` | load certificate and key | OpenSSL |
| `nlohmann/json.hpp` | a value; a lexer's, a parser's, a reader's position | parse with and without callback, dump, CBOR, MessagePack, UBJSON, comparison, iterators, pointers, patches | called by `Options` (`parse`, `operator[]`, `get`) |
| `DaemonHelper`, `Exceptions`, tests | none | | not called; two types; tests |

One thread (main) accepts; twenty workers serve; they share only the stack, the
stop flag and the log. SIGINT runs `request_stop` in a signal handler on the main
thread. The JSON library is sequential; nine tenths of the repository's lines are
its header, of which the server itself uses the part that reads a text.

**Hard behaviours.** The hand-over through the stack (mutex, condition variable,
stop token, timeouts); the shutdown, in which a signal handler, main and the
workers race, and which has two ways out of `main` (the loop's end, and an
exception out of `epoll_wait`, which fails with EINTR whenever a signal handler
runs during it); who owns which descriptor and which SSL object; a stream cut into
arbitrary pieces, partial sends, timeouts and silent peers; exceptions that end a
worker; the log's stream without a lock. In the library: automata with one byte of
lookahead, limits of encodings, stacks of pointers into a value that is being
built, and places found by rules that differ from caller to caller. The list with
lines is in `PROJECT.json` under `hazards`.

**What makes each part correct.** *Stack*: no socket lost or handed out twice; no lost
wakeup; the stop wakes everybody; it behaves like an atomic pool. *main, Server*:
every descriptor has one owner and is closed; after the stop at most one more client
is accepted; the process ends; a client is not left waiting without a reason.
*Listeners, TLS*: a number is closed once, by its owner; no SSL object is used after
it was freed. *Worker, sockets*: after the stop at most one more request is answered;
requests are read whole; responses come in order and are not mixed; a connection ends.
*HTTPPacket*: what is read from a request is what stands in it, and a client can tell
the responses apart. *Options*: each entry becomes its own listener. *Logger*: damage
is confined to lines that were logged at the same time. *JSON*: what is accepted is
JSON, its value is the value by the standard, and what one function writes another one
reads.

## 2. Modules

```
SocketPool  <--refines--  ThreadSafeStack  <--  MCThreadSafeStack
    ^                            ^------  ThreadSafeStackProofs
    | extends
SmallHttpServer  <--  MCSmallHttpServer
    ^------  SmallHttpServerProofs

HttpExchange  <--refines--  Connection  <--  MCConnection   (what "serve" hides)
                                ^------  ConnectionProofs
HttpPacket, HttpResponse   <--  MCHttp                      (both directions of HTTPPacket)
    ^------  TextsAndOptionsProofs

ListenerSockets, TlsSession  <--  ServerResources  <--  MCServerResources
                                        ^------  ServerResourcesProofs
Options  <--  MCOptions
    ^------  TextsAndOptionsProofs
Logger   <--  MCLogger
    ^------  LoggerProofs

SequenceLemmas  <--  every module of proofs

JsonValue, JsonInput <-- JsonLexer <-- JsonUnicode <-- JsonTexts ----+
                                                          ^--------- | JsonTextsProofs
JsonValue <-- JsonPlaces <-- JsonParser ------+---------------------+-- JsonDumps
                                ^-- JsonReading                     |      |
JsonValue, JsonInput <-- JsonSerializer ------+---------------------+      v
JsonElements, JsonPlaces <-- JsonPointer <-- JsonPatch --------------> JsonDocuments
JsonValue, JsonInput <-- JsonBinaryReader <-- JsonBinaryWriter <-- JsonWires
JsonDocuments, JsonReading, JsonWires  <--  MCJson
```

A definition whose name has a suffix after an underscore and the comment "Mutant:"
is not part of a model: it is what a plausible bug would make of the definition
after it, and shows that the property it is listed with depends on that definition.

### SocketPool
What the stack promises: `Add`, `Take`, `Close` and `Destroy` as atomic steps on
`pool` (`m_stack`), `held` (each worker's `socket`), `arriving` (not handed over
yet) and `closed`. A `unique_ptr` that owns nothing is `NullPtr`; main pushes the
null that `WaitClients` returns after a failed accept like any other pointer.

### ThreadSafeStack
`AddSocket`, `GetSocket`, the accept loop, the worker's outer loop and
`sig_handler`, one action per lock, unlock, test or wait. `mutex` is `m_mutex`;
`std::condition_variable_any` is external and modelled as libstdc++ implements it:
an inner mutex (`cvMutex`) taken by `notify_one`, by `notify_all` and by a waiter
between its last look at the stop flag and its sleep; a `stop_callback` that calls
`notify_all`; `request_stop` running the callbacks in the handler. While the
handler runs main does not step. `pc` values follow the lines of `GetSocket`:
`lock` (20), `enter` to `dereg` (21), `decide` (23-33), `pop` (34), `returned`
(Worker.cpp 80-83), `serve` (85-122).

Main leaves its loop when it sees the stop, and joins the workers (`Join`), or
because `epoll_wait` fails (`EpollFails`): then `~ThreadSafeStack` runs while they
are still using it (`Unwind`), where `~condition_variable` waits for whoever is
asleep in it, the deadlock its comment fears; and exit() joins them (`ExitJoin`).
From then on a call on the stack is undefined (`Dangling`): it may come back, or not.

Refinement to `SocketPool`: a socket counts as arriving until `m_stack.push`, and
the slot that `std::move(m_stack.top())` emptied is no longer part of the pool.

### SmallHttpServer
The process as a whole, using `SocketPool`'s operations for the stack. `mainPc`
goes through `bind` (55-60), `create` (63), `enter`/`epoll` (Server.cpp 49, before
and inside `epoll_wait`), `accept`, `handshake`, `push`, `test`, then `join` and
`exited`; or, from `epoll`, `bind` or `create` by an exception, `unwind` (the
destructors of `stack` and `server`) and `exitJoin` (exit() destroying `threads`).
`Unwind` may wait: it is sure to go on after a stop, which `DestructorReturns` of
`ThreadSafeStack` shows, or when no worker is in the stack. SIGINT can come in all of
these places, also twice.
`backlog` is the kernel's accept queue of each listener, `open` the descriptors of
accepted connections, `tls` those wrapped in a `TLSSocket`. `~ClientSocket` closes,
`~TLSSocket` does not: `StillOpen`. A call of `GetSocket` on the destroyed stack
(`GetSocketDangling`) is undefined; it may come back with nothing, never, or as a
crash.
Serving is one step that ends well (`EndServe`), by an exception (`Throw`) or, on a
TLS connection whose client has gone away, by SIGPIPE, which ends the process
(`Sigpipe`; main meets it in `SSL_accept`, `HandshakeSigpipe`); `Connection` is what
happens within it.

### Connection, HttpExchange
One connection in a worker: the `while (isKA && !stop)` loop, `IsAlive`, the `Read`
loop with its buffer, `Parse`, `ProcessGET`, the `Write` loop, and the client, over
a `ClientSocket` or a `TLSSocket` (`secure`). The client sends texts: requests and,
after a request, its body, cut at blank lines. A text is two tokens, a head and a
blank line, which the end of a body may lack; `recv` returns any prefix of what has
arrived. The server knows of no bodies: `IsGETMethod` and `Parse` look at whatever
begins the buffer, `ExtractField` at all of it, so that a body left over from one
request is read as the next, and one that begins with `GET` is answered. A response is
a number of units of which `send` takes any part that fits. `SSL_write` takes all or
fails, refuses another buffer while a record is pending, and raises SIGPIPE
(`Killed`). The kinds of texts cover each way through the code: method, malformed line,
`Connection` value or a line `ExtractField` misreads, and the target (file,
missing, too long, `..`, an extension `GetContentType` does not know).

`HttpExchange` is what a connection promises its client: the answers a text may
get, their order, what may follow one, and that it comes to an end. `Connection`
implements it under the mapping `AnswersOn`, its liveness included.

### HttpPacket, HttpResponse
`ExtractField`, `IsBlankLine`, `Parse`, `Split` and `GetContentType` as operators,
with the positions and the `npos` of `std::string`'s searches, because the code
hands a position on without testing it. The only variable is the text they are
called with; every text over an alphabet is a state. Each function is compared with
a definition that does not search: a line, a request line, a field's own line, a
file's name. `HttpResponse` has the three responses as sequences of units and the
worker that writes a sequence of them, next to a client that reads by
`Content-length`. A 200 of which only a part was sent is followed by what could be
sent of a 404 (`Respond200Fails`), and then nothing follows.

### ListenerSockets, TlsSession, ServerResources
`ListenerSockets`: main's loop over the options, `ServerSocket`'s constructor,
`Server::AddSocket` (register, then `push_back`, which moves every element when the
vector grows), the look-up of an epoll event's descriptor, `~Server`. Descriptors
are the kernel's numbers, the lowest free one first, so that a second close hits
somebody. `TlsSession`: the `SSL_CTX` with OpenSSL's reference count, the two
`TLSSocket`s of each `Acceptor`, handshake, failure, use by a worker, and the
tests' `Connect`. `SSL_new` may fail with a good context too. A call on what was freed
or never made is recorded in `undefined`, and nothing is said of what follows it; so
`Accept` and `Connect` making a null SSL again (TLSSocket.cpp 83, 17), which come after
`SSL_set_fd` on that null, are not modelled. `ServerResources` composes them as
`Server` owns them: the context is made first and destroyed after the body of
`~Server`, while workers still hold sockets made with it unless main joined them
(`Join`, `Throw`). At the end exit() runs `OPENSSL_cleanup` (`Exit`), also before it
joins workers that main did not.

### Options
`getopt`'s loop, `config.json` absent, unreadable, not JSON or a list of entries with
missing and ill-typed values, `LoadConfig` with JSON's conversions, `int` and port
of widths that are parameters, and what main makes of the list: a listener for each
entry, one directory for all. `ServerSocket` opens an AF_INET socket whatever the family
says; `inet_pton` fills the address in the entry's family, and an IPv6 one is longer
than the place for it (`ListenOverruns`).

### Logger
Several threads inserting the pieces of a line into one stream. An insertion copies
to the put position and then moves it, `endl` writes the buffer and resets it; what
happens in between is a data race, modelled by the interleavings and the lost
update of the put position. `localtime`'s struct is shared. The buffer (`area`) has
no bound; what a flush has written stays there until something is put over it.

### The JSON library
A byte or a unit of a wide string is a number, a text a sequence of them.

* `JsonInput`: the adapters, from UTF-16 and UTF-32 to UTF-8, a unit at a time,
  with the index that can pass the end of the string (`past`).
* `JsonLexer`: the lexer's members as a record and `scan` as the function from one
  record to the next: byte order mark, whitespace, literals, the number automaton,
  strings with escapes and the ranges of UTF-8, `unget`, and the conversion with its
  range checks (`UnsignedMax` instead of 2^64-1) and the locale's decimal point. A
  loop is a function of the number of its turns, of which there are never more than
  bytes and the end of the text; a function that fails or is done stays as it is.
* `JsonUnicode`: UTF-8 as Unicode defines it, to compare with. `JsonTexts`: the
  machine that puts texts together, and the lexer's properties.
* `JsonPlaces`: a pointer to a part of a value, as the keys and indices that lead
  there.
* `JsonParser`: the parser as a step per token (`states` and the place in
  `sax_parse_internal`), and the receivers that build a value: with a stack of
  places into it (`ref_stack`), and the one that asks a callback, with
  `keep_stack` and `key_keep_stack`. `JsonReading`: the machine that feeds it
  tokens and answers, RFC 7159's grammar and a plain account of what a callback
  leaves, and the properties.
* `JsonSerializer`, `JsonDumps`: `dump` with its UTF-8 automaton, escapes,
  indentation, `indent_string` that grows, integers; and its return through the
  lexer and the parser.
* `JsonBinaryReader`, `JsonBinaryWriter`, `JsonWires`: the three formats both ways,
  with 64-bit numbers as eight bytes; a machine that puts documents together and one
  that puts bytes together.
* `JsonElements`, `JsonPointer`, `JsonPatch`, `JsonDocuments`: comparison, size,
  iterators as positions, every member that changes a value, constructors from a list
  and a range; the four ways to follow a pointer; `patch`, `diff`, `merge_patch`,
  `flatten`, `unflatten`; and a machine of two values changed by any of these calls.

An object is a function from its keys, in the order of `std::map`. An exception is a
value of its own (`Exception`, `Thrown`, a token `parse_error`); so is a failed
assertion.

## 3. Runs

| Run | Bounds | Shows |
|---|---|---|
| `stack_safety` | 3 workers, 2 sockets, 1 null, any number of timeouts | types, the inductive invariant, `OneOwner`, `NoMissedWakeup`, `StopWakesAll`, `StuckOnlyBySignal` |
| `stack_liveness` | 2 workers, 2 sockets, 1 null | `DestructorReturns`, `StopEndsWorkers`, `EverySocketTaken`, refinement of `SocketPool` |
| `server` | 2 workers, 2 clients, 1 or 2 descriptors, 2 signals, a plain and a TLS listener | `DescriptorOwned`, `CleanExit`, `AtMostOneLate`, `ProcessEnds`, `ClientServed` |
| `server_tls_close` | 1 worker, 1 client | a finding of section 6 |
| `connection` | 3 texts of 11 kinds, up to two of them a body, buffer of 4 tokens, 2 units per response, send buffer of 2, plain and TLS | `ExactRead`, `WireWellFormed`, `NoSilentDrop`, `AtMostOneLate`, `ConnectionEnds`, refinement of `HttpExchange` |
| `http` | texts of up to 8, 9 and 6 pieces of three alphabets; 3 responses with files of up to 2 units | `LinesOfText`, `RequestRead`, `TypeOfFileName`, `ResponsesUnderstood` |
| `server_resources` | 3 listeners, 6 descriptors, 4 `TLSSocket` objects | `NumberOwnedOnce`, `AllClosedAtExit`, `OpensslUseDefined`, `NothingLeft` |
| `options_safety` | 3 command lines; every list of up to 2 of 57 entries; ints of 8 bits, ports of 4 | `StartedAsConfigured` |
| `options_directory` | two complete entries with equal or different directories | a finding of section 6 |
| `logger_safety` | 2 threads, 2 lines, one of the threads ending by an exception | `LinesReachFile` |
| `json` | see below | `TokensOfText`, `StringIsUnicode`, `WideTextAsNarrow`, `DumpParses`, `ValueOfText`, `FilterKeeps`, `BinaryRoundTrip`, `ValuesOrdered`, `PatchesFit` |
| `json_patch_parent` | the same | a finding of section 6 |

*Why the bounds are enough.* With three workers one can sleep, one hold the mutex
and one be between two steps, while main is in `AddSocket`; two sockets are the
first at which last-in-first-out and "top moved, not popped" can be confused. Two
clients and a process whose limit is one or two descriptors reach the failing
`accept` both with descriptors in use and with leaked ones. Two signals reach the
one that is lost before `epoll_wait` and the one that interrupts it. A buffer of
four tokens is filled by two pipelined requests, or without any blank line at its end
by a request and the beginning of its body, with more data waiting; a send buffer
smaller than two responses makes `send` partial and time out. Three texts are a body
between two GETs, and a body of two parts. Eight characters hold two blank lines
with half line ends between; nine pieces hold a request line and a field with its
value, in either order; two units of body hold two line ends, or one and a false
status line. Three listeners make the vector grow from one to two to four, with
elements to move both times; six numbers leave two for clients, and a closed one to
be given again. Four `TLSSocket`s are two connections. With ints of 8 bits and
ports of 4 there are numbers beyond each. Two threads on a stream are enough for
each race; a third adds no new pair of steps.

The `json` run has four machines, of which a behaviour has one (`MCJson`). *Texts* of
six kinds: numbers of up to 6 characters (sign, point, exponent, zero, one, nine,
something else), strings of up to 5 bytes from both ends of every range of the UTF-8
tables, strings of escapes of up to 13 characters (a surrogate pair has 12), sequences
of up to 5 bytes of tokens, UTF-16 strings of up to 4 units and UTF-32 strings of up
to 3 with both ends of each range. Up to the end of a token only: what follows does
not change it. *Tokens*: every text of up to 7 tokens, 9 with a callback, which hold
an object in an array in an object and a key given twice. *Documents*: numbers on both
sides of every limit that is written in the code, lengths on both sides of each limit
of a length below 2^16, structures with two parts, all of them nested once; and up to
4 bytes of CBOR (10 where the long negative integers begin), 5 of MessagePack and
UBJSON, begun with the bytes that are followed by the most. Arrays and objects of 2^16
parts are beyond TLC; their lengths are written by the function that writes those of
strings. *Pairs* of values of up to 5 parts, all that any sequence of calls makes of 7
values, a pointer's escapes and an index-like key among the keys. `UnsignedMax` is 15,
so that a number of two digits overflows; the locale's decimal point is a comma.
`indent_string` begins with 2 characters, not 512: indentations of 3 and 4 make it
grow, and one of 5 is too long for it even then. Strings that are no UTF-8 stand
alone, in an array, and as a key, of up to 2 bytes there.

*Constants that are bounds of the model only*: `MaxNulls` (failed accepts in
`ThreadSafeStack`), `MaxPool` (the length above which a failed accept is not taken
before the stop; the code would spin), `MaxSignals`, `Requests`, `Lines`, `MaxLen`,
`MaxBody`, `MaxResponses`, `Writings`' `max`, `MaxTokens`, `MaxCallbackTokens`,
`MaxParts`, `MaxNested`, `MaxNestedText`, `MaxNodes`. `CHECK_DEADLOCK` is off because
every one of these systems really stops: all threads done and main gone or waiting for
clients that do not come, all lines logged, a text at its bound. `StuckOnlyBySignal`
says what other stops there are in the stack.

*Symmetry* is used in safety runs only, for workers, sockets and `TLSSocket`s that
no definition tells apart.

*Fairness.* `ThreadSafeStack`: main's steps, the handler's and each worker's are
weakly fair, because the scheduler runs every runnable thread. A wait in `cv` may end
by its five seconds or by itself (`WakeUnnotified`) but is not sure to, so that no
property holds only because a timeout makes a lost wakeup good. Serving is
fair only once the stop was requested, because the inner loop tests the flag and
every call in it has a timeout; before, a client can keep a worker as long as it
asks. Arrivals, SIGINT, a failing `epoll_wait` and calls on a destroyed stack are not
fair. `SmallHttpServer`: the same; the TLS handshake is not fair, because main has no
timeout there, and the stack's destructor is fair after a stop or when no worker is in
the stack. `Connection`: the
worker, whose calls all time out after `SetTimeout`; not the client. The other
modules have no liveness property and no fairness: they end when they are at the
end of their input.

## 4. What the properties say about this code

* `NoMissedWakeup`, `StopWakesAll`, `OneOwner`: the stack is right in the places where
  such code often is not: notify after unlock, stop between test and sleep, move
  before pop. `EverySocketTaken` and `StopEndsWorkers` say the same without the help of
  the five seconds' timeout.
* `StuckOnlyBySignal`: the one deadlock is a SIGINT that interrupts main inside
  `notify_one`: `request_stop` then needs the mutex main holds. In every other state
  some thread goes on without a client or a signal, unless main waits for clients or
  for the workers, and these are with their clients or have ended, or a worker is lost
  in the destroyed stack.
* `DestructorReturns`: the deadlock that the comment in `~ThreadSafeStack` fears does
  not happen after a stop, whose callbacks get everybody out of the wait. Without one,
  as after SIGSTOP and SIGCONT, main can wait there for ever, since workers come back to
  the wait every five seconds.
* `StopEndsWorkers`: every worker ends after SIGINT unless the handler deadlocked or the
  worker was inside `GetSocket` when the stack was destroyed: an exception out of
  `epoll_wait`, which every SIGINT there causes, makes that possible.
* `ProcessEnds`: after SIGINT, or after an exception in main, the process ends unless
  (a) the signal came between the loop's test and `epoll_wait` and nobody connects any
  more, (b) a TLS client is silent in its handshake, (c) a worker is lost in the stack
  that the exception out of `epoll_wait` destroyed, (d) nobody requests the stop, as
  when SIGSTOP/SIGCONT alone breaks `epoll_wait` or a thread cannot be created: then
  main waits in the stack's destructor, or exit() in the destructor of `threads`, for
  workers that run on. It counts as an end when a TLS client that goes away makes
  `SSL_write` or `SSL_accept` raise SIGPIPE, which nobody handles: the process is
  killed, with all its other connections, and no property excludes that.
* `ClientServed`: clients wait for ever only behind a silent TLS handshake, without
  descriptors, before a main that waits in the stack's destructor with its listeners
  still open, or when every worker is busy for ever or ended by an exception.
* `NoSilentDrop`, `ExactRead`: hold for a client that waits for its answers and
  whose GETs have no body. A pipelining client loses requests: whatever follows the
  first request in the buffer when a piece ends with a blank line is dropped with
  it. A body is never read as one: what has not arrived with the blank line is taken
  for the beginning of the next request, and answered if it begins like a GET.
* `ExchangeSpec`: every text is answered at most once, rightly and in order, but a text
  of a body counts as one that may be answered; the one
  blemish is a 404 in the place of, or after a part of, a 200 that could not be
  sent. Over TLS a response is never interrupted (`WireWellFormed`).
* `EverySocketTaken` assumes finitely many arrivals: with endless ones the bottom of
  the stack starves.
* `FieldValueOfItsLine`: holds for a field with a space after its name. `ExtractField`
  looks for the name anywhere, also in the path or inside another field's name, and
  without a space it takes a value from the next line. `ThrowsWithoutWord` says exactly
  when it throws: if no word follows a space anywhere behind the first place of the
  name.
* `TypeOfFileName`: a file with an extension has its type wherever it is. For others the
  directory's dot decides: `html` gives no type, `./www` an exception that ends the
  worker.
* `ResponsesUnderstood`: the four characters that every response sends beyond its
  `Content-length` are harmless for a client that skips line ends before a status
  line, as RFC 9112 asks it to; `Read`, which looks for a blank line, needs them. The
  404 behind a 200 that was cut is not harmless: such a client may take its characters
  for the 200's body or head; the responses before the cut one stay as they were read.
* `NumberOwnedOnce`, `AllClosedAtExit`: moves leave nothing behind, and what is not
  closed is the descriptor of a `ServerSocket` whose constructor threw, and epoll's.
* `OpensslUseDefined`: no SSL object is used after it was freed, nor freed twice, also
  when `SSL_new` fails. A missing certificate or key frees the context and keeps its
  pointer: the first connection uses it at once, and the destructor frees it again.
  exit()'s `OPENSSL_cleanup` runs under workers exactly on the way out through an
  exception, on which main does not join them first.
* `StartedAsConfigured`: a `config.json` replaces the command line altogether: each
  entry is a listener of its own address, port and security. A port beyond 16 bits is
  cut. An entry lacking a key, or with one of another type, ends the program. The start
  is undefined for an empty list, which `null` and `{}` are read as too
  (`GetDirectory(0)` of an empty vector), and for an IPv6 address with a family other
  than `ip4`, whose 16 bytes are written over 4 (ServerSocket.cpp 80); for nothing else.
* `LinesReachFile`: lines logged at the same time may be lost, cut, mixed, or carry
  each other's time, but a line that nobody overlapped is whole, and nothing stays
  in the buffer.
* `TokensOfText`, `StringIsUnicode`: the lexer is right on every text it was given.
  `WideTextAsNarrow`: for well-formed texts. A surrogate is taken to begin a pair
  whatever follows; the index may pass the end of the string, but the lexer has
  stopped at the surrogate before it asks for more.
* `ValueOfText`: the parser stops at the first token no JSON text has there, and
  the value is the grammar's, with the last of equal keys.
* `FilterKeeps`: a callback's answers never get out of step with the structures they
  are about. It speaks of the value without the discarded parts that stay in it: the
  documentation says that discarded parts are removed (json.hpp 13394), but a member
  rejected as a value keeps its key with a discarded value, and so does an element
  whose `object_end` was rejected below an array that is the root.
* `DumpParses`: what is dumped parses to the same value, except for floats that are
  not finite (null, as documented); `dump` throws exactly for strings that are no
  UTF-8, keys included, at whatever depth, and with `ensure_ascii` as without; and it
  reads past the end of `indent_string` exactly when the indentation is more than twice
  as long as that string begins and there is something to indent.
* `BinaryRoundTrip`: every document comes back from every format; UBJSON refuses what
  int64 cannot hold; input cut anywhere is refused, and so is a byte more; whatever is
  accepted from elsewhere can be written and read back in the same way.
* `ValuesOrdered`: `<` is an order as long as no unsigned number is beyond int64: next
  to a signed one such a number is converted and counts as negative (16653).
* `PatchesFit`: `diff` and `patch` are inverse, and a merge patch applied again changes
  nothing. Each of the six operations has at every pointer the result of RFC 6902, but
  for these, which the property names one by one: an index of `add` and `remove` may
  begin with a sign, blanks or zeros; `add` makes an object of a null parent, makes the
  parents that are missing when the path's first token is there (json.hpp 18353-18360,
  where RFC 6902, 4.1, has an error), and reaches an assertion at another primitive
  parent (section 6); `remove` of a place in a primitive value does nothing, where the
  documentation has an out_of_range (18280); the root cannot be removed. `unflatten`
  restores a value from its flat form exactly if it has no empty part and no object
  whose first key, as a pointer writes it, is `0`; the documentation at 18225 knows of
  empty parts only.

## 5. Proofs

Each theorem holds for every value of the constants that the named assumption
admits: any number of threads, sockets, clients, requests, listeners, entries and
lines, and texts of any length below `npos`.

| Theorem | Statement | Module, assumption |
|---|---|---|
| `TypeCorrect` | `Spec => []TypeOK` | `ThreadSafeStackProofs`, `StackAssumption` |
| `StackCorrect` | `Spec => []StackInv` | the same |
| `NoMissedWakeupHolds` | `Spec => []NoMissedWakeup` | the same |
| `NoCircularWaitHolds` | `Spec => []NoCircularWait` | the same |
| `StopWakesAllHolds` | `Spec => []StopWakesAll` | the same |
| `OneOwnerHolds` | `Spec => []OneOwner` | the same |
| `Implements` | `Spec => PoolSpec` | the same |
| `DescriptorsOwned` | `Spec => []DescriptorOwned` | `SmallHttpServerProofs`, `PoolAssumption`, `ServerAssumption` |
| `ExitsClean` | `Spec => []CleanExit` | the same |
| `OneLate` | `Spec => []AtMostOneLate` | the same |
| `RequestsReadWhole` | `Spec => []ExactRead` | `ConnectionProofs`, `ConnectionAssumption` |
| `AnswersInOrder` | `Spec => WireWellFormed` | the same |
| `NoGETDropped` | `Spec => []NoSilentDrop` | the same |
| `StopSeen` | `Spec => []AtMostOneLate` | the same |
| `ConnectionIsExchange` | `Spec => Exchange!SafetySpec` | the same |
| `NumbersOwnedOnce` | `Spec => []NumberOwnedOnce` | `ServerResourcesProofs`, `ListenerAssumption` |
| `ListenersClosed` | `Spec => []AllClosedAtExit` | the same |
| `NoUndefinedCall` | `Spec => []OpensslUseDefined` | `ServerResourcesProofs`, `TlsAssumption` |
| `AllFreed` | `Spec => []NothingLeft` | the same |
| `StartsAsConfigured` | `Spec => []StartedAsConfigured` | `TextsAndOptionsProofs`, `OptionsAssumption` |
| `LinesReach` | `Spec => []LinesReachFile` | `LoggerProofs`, `LoggerAssumption` |
| `TypeOfName` | `TextSpec => []TypeOfFileName` | the same module, `NPosAssumption`, `TypesAssumption` |
| `LinesAreText` | `TextSpec => []LinesOfText` | the same module, `NPosAssumption` |
| `RequestsRead` | `TextSpec => []RequestRead` | the same, and `NameAssumption` |
| `ResponsesRead` | `ResponseSpec => []ResponsesUnderstood` | the same module, `ResponseAssumption` |
| `TokensAreText` | `TextSpec => []TokensOfText` | `JsonTextsProofs`, `WritingAssumption` |
| `StringsAreUnicode` | `TextSpec => []StringIsUnicode` | the same |
| `WideTextsRead` | `TextSpec => []WideTextAsNarrow` | the same |

`SequenceLemmas` proves once what several of them need and the library does not
state: induction over a set of numbers, places in `Append`, `Front`, `\o` and
`SubSeq`, `FlattenSeq`, `Reverse`, `Range` and `Last`, and the greatest and the
least number of a set.

### The stack

The inductive invariant is `TypeOK /\ StackInv`; `StackInv` is also checked by
`stack_safety`. `NoMissedWakeup` is not inductive: a worker about to sleep must
have seen an empty stack while holding `m_mutex`, so `WakeupInv` says that workers
between that test and the release of the mutex see an empty stack, which needs
`LockInv` (who owns which mutex at which place). `StopWakesAll` needs
`CallbackInv`: whoever sleeps, or can no longer be kept from sleeping, has a
callback registered or running. `TypeOK` needs `PointerInv`, since a worker closes
what it holds. One lemma per conjunct (`TypeStep`, `LockStep`, `PointerStep`,
`WakeupStep`, `CallbackStep`) has one step per action.

`NoCircularWait` needs no more than that. `SomebodyRuns` says of every place what a
thread waits for there, and `SomebodyGoesOn` who goes on: the owner of the condition
variable's mutex, else the handler, else the owner of `m_mutex`, who at each of its
places waits for nothing else then, else anybody who is inside.

`OneOwner` counts a socket's places (arriving, main's pointer, the stack's slots,
the workers' pointers, closed). It is proved as `OwnedOnce`, exactly one of the
places, socket by socket; every action either touches no place of the socket or
moves it from one place to another (`OwnerStep`). `LockInv` is what excludes a
second worker between `move(top())` and `pop()`, when the slot holds a null.

`Implements` uses `OwnedOnce` too: a socket is "arriving" for the pool until it is
on the stack, so that the push is `Add`; the move of the top is `Take`, because
the emptied slot is not part of `Content`; the end of `socket`'s lifetime is
`Close`. `NobodyPops` says that whoever else holds `m_mutex` sees `Content` whole.
Every other step of locks, waits and wakeups leaves the pool as it was
(`PoolUnchanged`).

### The process
`SmallHttpServerProofs`: the inductive invariant is `TypeOK /\ ServerInv`, any number
of workers, listeners, clients, descriptors and signals. `DescriptorOwned` alone is
not inductive: when a worker closes a connection, that no one else is left with its
descriptor depends on there having been one holder only (`OwnerInv`), and that in
turn on a client that waits in a backlog being in one backlog and nowhere else
(`ArrivalInv`). `CleanExit` needs where a pointer can be at all (`PointerInv`): when
the threads have ended none holds one, and the destroyed stack is empty. `LateInv`
says that main, once it has accepted after the stop, is past its last `epoll_wait`.
One lemma per conjunct, one step per action.

### The connection
`ConnectionProofs`: the inductive invariant is `TypeOK /\ ConnectionInv`. None of
the four properties is inductive, because each depends on what is still on its way:
the worker appends to its buffer whatever `recv` returns.

* `ParseInv`: while the connection is not over, what is in the buffer, in the kernel
  and not yet sent makes one stream of a client (`StreamLike`): tokens in the order of
  the texts, each blank line behind its own head. It may begin with a text of a body but
  never with a blank line. `DropStream` is the lemma behind it: it stays such a stream
  when the worker drops everything up to a blank line, however the pieces were cut.
* `HandledInv`: every response belongs to a text that reads as a GET and whose place lies
  before all that is unhandled; so a text is answered once, and in order.
* `WireInv`: where the wire ends at each place of the loop. It is what makes the 404
  of a failed `WritePacket` the last thing on a connection.
* `WaitingInv`: a client that waits for its answers and sends no body behind a GET has
  the head of one request under way, and each GET is yet to be handled, being
  answered, or answered in full.
* `LateInv`: after one late response the loop's test is the next thing that happens.

`ConnectionIsExchange` maps the units on the wire to answers: the place of an answer
is the number of units before it that begin one (`FirstUnits`). `AnswersInv` says
that these units have numbers without gaps (`Numbered`), that their order is that of
texts (`Sorted`), that an answer's units are all there from the first one
(`Begun`) and that it is the answer its text should get (`RightInv`). Each
`send` then continues the last answer (`SendContinues`), begins one (`SendBegins`,
the abstract `Begin`) or, when it fails, leaves it as it is. The proved part is
`Exchange!SafetySpec`; that every exchange comes to an end is liveness, which
`connection` checks as `ExchangeSpec`.

### The listening sockets and the OpenSSL objects
`ServerResourcesProofs` has both parts. `ListenersInv` says how long the vector is
at each place of main (`PlacesInv`), that the k-th element has the descriptor opened
for option k (`OwnersInv`), which is what tells two owners of a number apart, that an
open listener has an owner unless a constructor threw (`ListenersOwned`), and that
epoll knows those of the vector and the one being added (`EpollKnows`). The critical
step is `push_back` into a full vector: the old elements are destroyed after they
were moved from, and close nothing.

`PointersLive` says that a pointer is set as long as its object lives, that an object
lives only where somebody will free it, and that the context is not destroyed while a
handshake or a test client is still to use it. With `ContextCounted`, that the count
of references is the number of users, `SSL_free` never meets a dead object, and the
count reaches zero with the last one. Each step of the process is a step of each part
or leaves it alone (`StepParts`). After a join no worker holds a socket, which is what
keeps `OPENSSL_cleanup` from them.

### The options
The end of `TextsAndOptionsProofs`: for any `config.json`, any command line and any
widths of `int` and port. `StartedAsConfigured` speaks of the end, so the invariant
`StartInv` says how far the two loops are: `LoadedInv`, the options are those of the
entries before the iterator, each of which had every key; `ListeningInv`, the
listeners are those of the first options, each with its family's address; what is
undefined has its reason from the step that leads there. `ConvertedEntry` shows that
an entry whose five `get` calls succeed lacks nothing.

### The log
`LoggerProofs`: for any number of threads and lines, with a buffer that has no bound.
`LinesReachFile` speaks of lines that nobody overlapped, but overlapping goes on
around them, and nothing can be said about the stream then. What makes the invariant
work is that two facts survive any damage: a part of a line is in the buffer or
in the file only if its call has begun (`PastInv`), and a thread that is alone found
the put position at the buffer's beginning (`NothingKeptBack`). So a line that has
the stream for itself sees its pieces at the buffer's first places (`AloneInv`,
`Undisturbed`), whatever stale text is behind them, and once in the file it stays
(`LoggedInv`).

### The texts of a request
The beginning of `TextsAndOptionsProofs`: what `Split`, `GetContentType`,
`IsBlankLine`, `Parse` and `ExtractField` compute, for every text that the pieces of
an alphabet make, below `npos`. `TextInv`, that `text` is such a text, is all the
invariant there is; the rest is about functions.

* Searches. `find`, `rfind`, `find_first_of` and `find_first_not_of` return the
  least or the greatest place or `npos` (`RFindIs`, `FindEol`, `FindOf`,
  `FindNotOf`, `FindEolIs`), which is where the bound on the length is used.
* `Split` is a recursive function. `SplitIs` proves that it exists and unfolds, by
  induction over how much of the text is left, so that `SplitFacts` can say by the
  same induction that its result is the lines.
* `LinesOfText` compares it with pieces joined by line ends (`Joined`): `Lossless` and
  `HeadEnds` follow from `Placed`, where each of the lines stands in the text.
* `RequestRead`: `RequestLine` finds the three words of the first line by `TwoWords`;
  `FieldValue` needs that the name's first place in the text is the beginning of its
  line: an earlier line does not have it by the property's own hypothesis, and a line
  end is no name by `NameAssumption`. `FieldAt` then follows `ExtractField` step by
  step from that place. `FieldThrows` does so for any text, to see when a search comes
  back with `npos`.
* `TypeOfFileName`: `SlashNamesNoType` is for a name without an extension: what stands
  behind the last dot contains a "/", and by `TypesAssumption` no known type does.

Characters are strings; `Char` adds `"CR"` and `"LF"` to `STRING`, because the
provers do not know of a literal that it is in `STRING`.

### The responses
The second part of `TextsAndOptionsProofs`, for files of any units (line ends, blank
lines, fields and status lines too) and any number of responses.

* `ResponsesUnderstood` compares the stream with what was meant, so the invariant
  `RespondInv` says how the stream is made: it is `Laid`, each response `Stands` right
  behind the one before, and only the last says `close`. A response that stands has
  one blank line after its head (`OneBlank`), both fields the client looks for, its
  own first ones of the name (`FieldStandsAt`), its body, and two line ends. It says
  nothing of the body, so a body may contain what looks like a response.
* `ClientReads` is a recursive function, as `Split` is: `ClientReadsIs` proves that it
  exists and unfolds, since what it reads at a place depends on later places only.
* `ReadsOne`: at the uncounted line ends before a response, or at its beginning, the
  client reads it whole, or nothing when its body has not all been received; from
  there it goes on behind the body, where the next two uncounted line ends are.
  `ReadsAll` puts that together, from the last response to the first.
* `RespondKeeps`: each of the three texts stands (`TextStands`) and keeps standing
  behind those that were laid before (`StandsInside`, `LaidNext`).
* A 200 that was cut (`CutInv`) is the beginning of one that would be laid; and the
  responses before it stay as they were read whatever comes behind (`ReadsThrough`).

### The texts of the JSON library
`JsonTextsProofs`: for texts of any bytes, or 16- or 32-bit units, put together from
any pieces, and of any length; any decimal point and any `UnsignedMax`. `Typed`, that
`text` is a sequence of such units, is the inductive invariant; the rest is about
functions, and so by induction over how far a loop has come (`InductionTo`) or how
much is left (`Downward`). The loops are recursive functions; that each of them
exists and unfolds is proved first (`CodepointTurns`, `RangeTurns`, `StringTurns`,
`LiteralTurns`, `WhitespaceTurns`, `NumberTurns`, `ScannedTurns`, `WideTurns`,
`ScalarsTurns`, `MeaningTurns`, `MeantTurns`).

* `TokensCoverText`. `Kept` is what every function of the lexer keeps: how many
  bytes `get` has taken, what `current` is, what `chars_read` counts when a byte was
  given back, and that `token_string` is the last part of what was read (`Quotes`).
  The property alone is not preserved by `unget`, which would take a byte from an empty
  quotation: so `Quotes` says too that after a `get` there is one. `Leads` says that
  neither the place of reading nor that of the quotation's beginning goes back. Each
  function of the lexer leads on from a lexer that is kept to one that is
  (`CodepointGoes` to `ScanGood`), and `ScannedGood` puts the tokens together.
* The adapters never read past the end: an adapter's index passes it only behind a
  surrogate that was the last unit, and that is then the last byte of the text (`Cut`,
  `WideIsCut`). No function of the lexer goes on behind a surrogate: it fails or has
  not read it (`Ahead`, `Within`). This belongs to the same induction, since each branch
  of each automaton has to reject that byte (`NoSurrogate`, `RangesContinue`,
  `PlainIsNoSurrogate`, `GotoFacts`).
* What the adapters make of a well-formed string: `Utf8IsCharacter` proves that the
  bytes of `Utf8` are the shortest UTF-8 of their code point, by the arithmetic of its
  four lengths (`TwoBytes` to `FourBytes`), `PairOfSurrogates` that a pair is the code
  point by the standard. Nothing is lost where texts meet (`ScalarsOfBoth`), and
  `WideReads` goes from the last unit to the first.
* `NumberIsLongest` compares the automaton with a grammar that speaks of the whole
  text at once. `IsNumberAt` says the grammar by places instead of by parts
  (`NumberPlaces`). `Shaped` says, for each label of `scan_number`, what of the grammar
  has been read there; `ShapedOn` is a step of the automaton, `ShapedSoFar` that what
  has been read can become a number. Conversely `LabelOf` reads off the label at each
  place of a number, and `LabelStep` that `Goto` leads from each to the next: so the
  automaton goes as far as any prefix that can become a number (`IsPath`, `PathGoesOn`,
  `PathEnds`). `NumberScanned` follows the lexer's own record along the path, with the
  buffer and the type (`LabelledAt`), and `ConvertedIs` is the conversion at the end.
* `StringIsUnicode` compares a loop that goes from the first byte on with a meaning
  that is defined from the end. `Stringed` is the invariant of the loop: the string
  has failed and means nothing, is complete and is what it means, or is at a byte
  where the buffer spells code points (`Spells`) and the meaning is those and what the
  rest means (`Join`); `Meaning` of the rest is a value, not a promise, since each
  turn of it looks at later bytes only (`MeantLater`). `Steps` says of one character
  or escape that both take the same bytes and stand for the same code point, or that
  both refuse: `UnicodeSteps` for `\u` and pairs, where the first byte that is no
  digit, or a low surrogate that comes first, ends both (`DigitedOn`, `SecondRead`),
  `EscapeSteps` for the other escapes, `PlainFirst` for ASCII. For longer characters
  `LeadSteps` needs that the code's table of ranges is Unicode's rule: `LeadIs` proves
  from the arithmetic of two, three and four bytes (`TwoLong`, `ThreeLong`,
  `FourLong`) that a character is neither longer than it need be, nor a surrogate, nor
  too large exactly if its bytes are in `Utf8Ranges`.

### Only model-checked
* Liveness, which the provers do not reach: `DestructorReturns`, `StopEndsWorkers`,
  `EverySocketTaken`, `ProcessEnds`, `ClientServed`, `ConnectionEnds`, and the end of
  every exchange in `ExchangeSpec`. And ENABLED: that `SomebodyRuns` says exactly when
  a step is possible, the second part of `StuckOnlyBySignal`.
* The rest of the JSON library: values are trees, and the modules that read, write,
  compare and change them use RECURSIVE operators, which the provers cannot unfold.

## 6. Findings

`server_tls_close`: `~TLSSocket` (TLSSocket.cpp 8-13) never closes the descriptor.
In the tests a `ClientSocket` owns it next to the `TLSSocket` (TLSTests.h 74, 82);
in the server nobody does. Worker.cpp 120 logs "Connection: Close" and the 404 says
"Connection: close", but the connection stays open, and when the descriptors are
used up `accept` fails for plain clients too.

`options_directory`: `config.json` gives each entry a `directory` (lines 7 and 14),
but main gives every worker `GetDirectory(0)`: every listener serves the first
entry's directory (main.cpp 63).

`json_patch_parent`: a patch whose `add` has a path of one token, such as `/0`, on a
document that is a string, a number or a boolean reaches `assert(false)` at
json.hpp 18400, where a comment says that a parent cannot be primitive; with
`NDEBUG` the operation is ignored. With two tokens or more the existence check
before it throws, as it should. The server applies no patches.

## 7. Not modelled

* `DaemonHelper` (not called), the tests (read as statements about the code),
  `ClientSocket::Connect` (tests only).
* SSL_read's record boundaries; the deadlock of `SmallHttpServer`'s stack with the
  handler (it is in `ThreadSafeStack`); garbage that a read of the destroyed stack
  could return; what follows an undefined call in `TlsSession`, making a null SSL again
  among it.
* json.hpp: the digits of floating-point numbers (`dtoa`, 8665-9730, and `strtod`): 64-bit
  arithmetic beyond TLC's integers; so a float is the text it was written as, and NaN
  is left out. The conversions to and from C++ types, the traits and exception classes
  (templates without state); adapters for streams and buffers and `accept`'s receiver;
  error messages; `dump_escaped`'s 512-byte buffer, whose flushes write the same bytes;
  const accessors, iterator arithmetic, allocation and moves.

## 8. Plan

1. Done: all that section 2 lists.
2. Done: the safety properties of every module outside the JSON library, the safety
   part of both refinements, and of the JSON library what the adapters and the lexer do
   with a text, are proved.
3. Left: the parts of the library with recursion over a value, which would have to be
   written as functions over the places in it before they could be proved about.
