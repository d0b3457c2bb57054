-------------------------- MODULE ServerResources --------------------------
(***************************************************************************)
(* What the Server object of main owns: the listening sockets, the epoll   *)
(* descriptor and the TLS context, and the sockets accepted with them,     *)
(* which outlive it in the workers.  Main does one thing at a time: while  *)
(* Acceptor runs a handshake nothing else of main moves.                   *)
(*                                                                         *)
(* Main ends its loop and joins the workers, or leaves it through an       *)
(* exception, as after every SIGINT in epoll_wait.  Then exit() runs       *)
(* OPENSSL_cleanup, which the first use of the library registered, before  *)
(* the destructor of the global `threads` joins the workers (main.cpp 21). *)
(*                                                                         *)
(* A process without a Server is the client of Tests/TLSTests.h.           *)
(***************************************************************************)
EXTENDS ListenerSockets, TlsSession

VARIABLES
    joined,  \* whether main has joined the workers
    cleaned  \* whether OPENSSL_cleanup has run

exitVars == <<joined, cleaned>>
vars == <<listenerVars, tlsVars, exitVars>>

Init == ListenersInit /\ TlsInit /\ joined = FALSE /\ cleaned = FALSE

\* Server's constructor: m_tlsContext before the body.
Server == TLSContext /\ CreateServer

\* If the body throws the members that were made are destroyed.
ServerThrown ==
    /\ pc = "exit" /\ m_epoll = -1 /\ ContextDestroyed
    /\ UNCHANGED listenerVars

\* main.cpp 55-60.
AddListeners ==
    /\ \/ Construct \/ ConstructThrows \/ Register \/ RegisterThrows
       \/ PushBack \/ PushThrows \/ EndOfScope \/ AllAdded
    /\ UNCHANGED tlsVars

\* WaitClients: the handshake of an accepted TLS client comes before all else.
Accept ==
    /\ At("acceptor") = {}
    /\ \/ AcceptClient(FALSE) /\ UNCHANGED tlsVars
       \/ \E kept, tls \in Wrappers : AcceptClient(TRUE) /\ Acceptor(kept, tls)

Handshake ==
    /\ AcceptReturnsNull \/ \E w, v \in Wrappers : AcceptSucceeds(w, v) \/ AcceptFails(w)
    /\ UNCHANGED listenerVars

\* Until it is done a worker reads and writes, also when the Server is gone.
Worker ==
    \/ ClientCloses /\ UNCHANGED tlsVars
    \/ /\ \E w \in At("worker") :
            IF cleaned THEN UseAfterCleanup(w) ELSE Use(w) \/ WorkerDone(w)
       /\ UNCHANGED listenerVars

\* ~Server: its body, then m_tlsContext, then the vector.
Shutdown == DestroyServer /\ ContextDestroyed

\* main.cpp 73-76 and the end of `stack`, which destroys what is left in it:
\* no worker holds a socket any more.
Join ==
    /\ Leave /\ At("acceptor") = {} /\ At("worker") = {}
    /\ joined' = TRUE
    /\ UNCHANGED <<tlsVars, cleaned>>

\* WaitClients throws, or the start of a thread: nobody joins.
Throw ==
    /\ Leave /\ At("acceptor") = {}
    /\ UNCHANGED <<tlsVars, exitVars>>

\* main has returned.
Exit ==
    /\ pc = "exit" /\ ctx = "destroyed" /\ ~cleaned
    /\ cleaned' = TRUE
    /\ UNCHANGED <<listenerVars, tlsVars, joined>>

TestClient ==
    /\ pc = "server"
    /\ \/ TLSContext \/ ConnectReturns \/ ContextDestroyed
       \/ \E w \in Wrappers : Client(w) \/ Connect(w) \/ ClientDone(w)
       \/ \E w \in At("client") : Use(w)
    /\ UNCHANGED listenerVars

\* After an undefined call nothing is said of what follows.
Next ==
    /\ undefined = {}
    /\ \/ /\ \/ Server \/ ServerThrown \/ AddListeners \/ Accept \/ Handshake
             \/ Worker \/ Shutdown \/ TestClient
          /\ UNCHANGED exitVars
       \/ Join \/ Throw \/ Exit

Spec == Init /\ [][Next]_vars

(* OpenSSL is called on nothing that was freed (FreedNeverUsed), and after *)
(* its cleanup only when main left its loop through an exception, without  *)
(* joining the workers.                                                    *)
OpensslUseDefined ==
    /\ FreedNeverUsed
    /\ "used after cleanup" \in undefined => ~joined
=============================================================================
