-------------------------- MODULE ListenerSockets --------------------------
(***************************************************************************)
(* The listening sockets: main.cpp 54-60 makes a ServerSocket for every    *)
(* option and moves it into Server's vector, which moves its elements when *)
(* it grows; WaitClients looks an epoll event's descriptor up in that      *)
(* vector; ~Server takes everything down.  A ServerSocket owns the number  *)
(* in m_socket, and the kernel gives the lowest free number again: one     *)
(* close too many hits another listener or a client.                       *)
(***************************************************************************)
EXTENDS Integers, Sequences, SequencesExt, FiniteSets, FiniteSetsExt, Functions

CONSTANTS Options,  \* how many listeners config.json asks for
          Fds       \* the numbers the kernel has left

ASSUME ListenerAssumption == Options \in Nat /\ Fds \subseteq Nat /\ IsFiniteSet(Fds)

VARIABLES
    isSecure,    \* isSecure[i]: what option i says
    pc,          \* main's place
    i,           \* the option it is at
    files,       \* files[fd]: what the open descriptor fd is
    m_epoll,     \* Server's epoll descriptor
    registered,  \* what epoll_ctl has added to it
    ssocket,     \* main's local ServerSocket
    vec,         \* m_serverSockets
    capacity,    \* of the vector's storage
    lost         \* history: descriptors whose constructor threw

listenerVars == <<isSecure, pc, i, files, m_epoll, registered, ssocket, vec, capacity, lost>>

None == [m_socket |-> -1, m_isSecure |-> FALSE]
Listener(n) == <<"listener", n>>
Open == DOMAIN files
Free == Fds \ Open
Lowest == Min(Free)

\* What socket, accept and epoll_create do with the lowest number.
Opened(what) == [fd \in Open \cup {Lowest} |-> IF fd = Lowest THEN what ELSE files[fd]]

\* What close does: epoll forgets a descriptor that is closed.
Closing(fds) ==
    /\ files' = Restrict(files, Open \ fds)
    /\ registered' = registered \ fds

ListenersInit ==
    /\ isSecure \in [1..Options -> BOOLEAN]
    /\ pc = "server" /\ i = 1
    /\ files = <<>> /\ m_epoll = -1 /\ registered = {}
    /\ ssocket = None /\ vec = <<>> /\ capacity = 0 /\ lost = {}

Goes(from, to) == pc = from /\ pc' = to

\* Server's constructor; without a descriptor it throws, and ~Server does
\* not run.
CreateServer ==
    /\ \/ /\ Free # {} /\ Goes("server", "construct")
          /\ m_epoll' = Lowest /\ files' = Opened(<<"epoll">>)
       \/ Goes("server", "exit") /\ UNCHANGED <<m_epoll, files>>
    /\ UNCHANGED <<isSecure, i, registered, ssocket, vec, capacity, lost>>

-----------------------------------------------------------------------------
(* ServerSocket.                                                           *)

\* socket, inet_pton, bind and listen.
Construct ==
    /\ i <= Options /\ Free # {} /\ Goes("construct", "register")
    /\ ssocket' = [m_socket |-> Lowest, m_isSecure |-> isSecure[i]]
    /\ files' = Opened(Listener(i))
    /\ UNCHANGED <<isSecure, i, m_epoll, registered, vec, capacity, lost>>

\* inet_pton or bind fails (also after a socket that did): NetException out
\* of the constructor, so that no destructor closes the descriptor.
ConstructThrows ==
    /\ i <= Options /\ Goes("construct", "unwind")
    /\ IF Free = {} THEN UNCHANGED <<files, lost>>
       ELSE files' = Opened(Listener(i)) /\ lost' = lost \cup {Lowest}
    /\ UNCHANGED <<isSecure, i, m_epoll, registered, ssocket, vec, capacity>>

\* Mutant: the source of a move keeps its descriptor.
MovedFrom_Kept(s) == s

MovedFrom(s) == None

Owned(sockets) == {s.m_socket : s \in sockets} \ {-1}

-----------------------------------------------------------------------------
(* Server::AddSocket, and the end of the local's lifetime.                 *)

Register ==
    /\ Goes("register", "push")
    /\ registered' = registered \cup {ssocket.m_socket}
    /\ UNCHANGED <<isSecure, i, files, m_epoll, ssocket, vec, capacity, lost>>

\* epoll_ctl fails: the local is destroyed on the way out.
RegisterThrows ==
    /\ Goes("register", "unwind")
    /\ Closing(Owned({ssocket}))
    /\ ssocket' = None
    /\ UNCHANGED <<isSecure, i, m_epoll, vec, capacity, lost>>

\* push_back(std::move(s)): a full vector moves what it has to new storage
\* and destroys the old elements.
PushBack ==
    /\ Goes("push", "scope")
    /\ LET grows == Len(vec) = capacity
           old == IF grows THEN {MovedFrom(vec[k]) : k \in DOMAIN vec} ELSE {}
       IN  /\ capacity' = IF grows THEN Max({1, 2 * capacity}) ELSE capacity
           /\ vec' = Append(vec, ssocket)
           /\ Closing(Owned(old))
    /\ ssocket' = MovedFrom(ssocket)
    /\ UNCHANGED <<isSecure, i, m_epoll, lost>>

\* push_back finds no memory: as after a failed epoll_ctl.
PushThrows ==
    /\ Goes("push", "unwind")
    /\ Len(vec) = capacity
    /\ Closing(Owned({ssocket}))
    /\ ssocket' = None
    /\ UNCHANGED <<isSecure, i, m_epoll, vec, capacity, lost>>

EndOfScope ==
    /\ Goes("scope", "construct")
    /\ Closing(Owned({ssocket}))
    /\ ssocket' = None /\ i' = i + 1
    /\ UNCHANGED <<isSecure, m_epoll, vec, capacity, lost>>

AllAdded ==
    /\ i > Options /\ Goes("construct", "wait")
    /\ UNCHANGED <<isSecure, i, files, m_epoll, registered, ssocket, vec, capacity, lost>>

-----------------------------------------------------------------------------
(* WaitClients: any registered descriptor may be ready.                    *)

\* find_if: the first element that has the event's descriptor.
Found(fd) ==
    LET equal == {k \in DOMAIN vec : vec[k].m_socket = fd}
    IN  IF equal = {} THEN {} ELSE {Min(equal)}

\* Accept on the listener that was found; the client gets a number too.
AcceptClient(secure) ==
    /\ Goes("wait", "wait")
    /\ Free # {}
    /\ \E fd \in registered : \E k \in Found(fd) :
         /\ vec[k].m_isSecure = secure
         /\ files' = Opened(<<"client", fd, vec[k].m_isSecure>>)
    /\ UNCHANGED <<isSecure, i, m_epoll, registered, ssocket, vec, capacity, lost>>

\* ~ClientSocket; ~TLSSocket leaves the descriptor open.
ClientCloses ==
    /\ pc \in {"wait", "exit"}
    /\ \E fd \in Open : files[fd][1] = "client" /\ ~files[fd][3] /\ Closing({fd})
    /\ UNCHANGED <<isSecure, pc, i, m_epoll, ssocket, vec, capacity, lost>>

\* The loop of main ends, or WaitClients throws.
Leave ==
    /\ Goes("wait", "unwind")
    /\ UNCHANGED <<isSecure, i, files, m_epoll, registered, ssocket, vec, capacity, lost>>

\* Mutant: the vector is left to the end of the process.
DestroyServer_Unclosed ==
    /\ Goes("unwind", "exit")
    /\ registered' = registered \ Owned(ToSet(vec))
    /\ vec' = <<>> /\ capacity' = 0
    /\ UNCHANGED <<isSecure, i, files, m_epoll, ssocket, lost>>

\* ~Server: DeleteSocket for each, then the vector's own destructors; the
\* epoll descriptor is not closed.
DestroyServer ==
    /\ Goes("unwind", "exit")
    /\ Closing(Owned(ToSet(vec)))
    /\ vec' = <<>> /\ capacity' = 0
    /\ UNCHANGED <<isSecure, i, m_epoll, ssocket, lost>>

-----------------------------------------------------------------------------
Kinds == {<<"epoll">>} \cup {Listener(n) : n \in 1..Options}
         \cup ({"client"} \X Fds \X BOOLEAN)
Sockets == [m_socket : Fds \cup {-1}, m_isSecure : BOOLEAN]

ListenersTypeOK ==
    /\ isSecure \in [1..Options -> BOOLEAN] /\ i \in 1..(Options + 1)
    /\ Open \subseteq Fds /\ \A fd \in Open : files[fd] \in Kinds
    /\ m_epoll \in Fds \cup {-1} /\ registered \subseteq Open
    /\ ssocket \in Sockets /\ vec \in Seq(Sockets) /\ lost \subseteq Fds
    /\ capacity \in Nat /\ Len(vec) <= capacity

(* Whatever epoll reports, the lookup finds the listener it is about, with *)
(* its own setting of "secure"; else WaitClients would go round for ever   *)
(* or speak TLS on a plain port.                                           *)
LookupFindsListener ==
    pc = "wait" =>
        /\ registered = {fd \in Open : files[fd] \in {Listener(n) : n \in 1..Options}}
        /\ \A fd \in registered :
             \E k \in Found(fd) :
                /\ files[fd] = Listener(k) /\ vec[k].m_isSecure = isSecure[k]

(* No number has two owners, and an owner's number is open and is still    *)
(* the listener it was made for: nobody closed it in between.              *)
NumberOwnedOnce ==
    LET owners == vec \o <<ssocket>>
    IN  /\ ListenersTypeOK /\ LookupFindsListener
        /\ \A k \in DOMAIN owners : owners[k].m_socket # -1 =>
            /\ owners[k].m_socket \in Open
            /\ files[owners[k].m_socket] = Listener(k)
            /\ \A n \in DOMAIN owners : owners[n].m_socket = owners[k].m_socket => n = k

(* On every way out each listener has been closed, except the one whose    *)
(* constructor threw, and the epoll descriptor.                            *)
AllClosedAtExit ==
    pc = "exit" =>
        \A fd \in Open : fd \in lost \/ fd = m_epoll \/ files[fd][1] = "client"
=============================================================================
