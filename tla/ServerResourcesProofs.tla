------------------------ MODULE ServerResourcesProofs ------------------------
(***************************************************************************)
(* What the Server object owns, for any number of listeners, descriptors   *)
(* and connections.  Each part has its own invariant; a step of one leaves *)
(* the other alone, and accepting a TLS client is a step of both.          *)
(***************************************************************************)
EXTENDS ServerResources, SequenceLemmas, FiniteSetTheorems, TLAPS

-----------------------------------------------------------------------------
(* The listening sockets.                                                  *)

\* The steps of the listening sockets.
ListenerStep ==
    \/ CreateServer \/ Construct \/ ConstructThrows \/ Register \/ RegisterThrows
    \/ PushBack \/ PushThrows \/ EndOfScope \/ AllAdded
    \/ (\E secure \in BOOLEAN : AcceptClient(secure))
    \/ ClientCloses \/ Leave \/ DestroyServer

IsListener(fd, n) == fd \in Open /\ files[fd] = Listener(n)
InVec(fd) == \E k \in DOMAIN vec : vec[k].m_socket = fd

Pcs == {"server", "construct", "register", "push", "scope", "wait", "unwind", "exit"}

\* How far the vector is when main is at option i.
PlacesInv ==
    /\ pc \in Pcs
    /\ Len(vec) <= Options
    /\ pc = "server" => i = 1 /\ vec = <<>> /\ m_epoll = -1
    /\ pc \in {"construct", "register", "push"} => Len(vec) = i - 1
    /\ pc \in {"register", "push", "scope"} => i <= Options
    /\ pc = "scope" => Len(vec) = i
    /\ pc = "wait" => Len(vec) = Options
    /\ pc = "exit" => vec = <<>>

\* Every element of the vector and main's local has the descriptor that was
\* opened for its option, which tells any two of them apart.
OwnersInv ==
    /\ \A k \in DOMAIN vec :
         IsListener(vec[k].m_socket, k) /\ vec[k].m_isSecure = isSecure[k]
    /\ IF pc \in {"register", "push"}
       THEN IsListener(ssocket.m_socket, i) /\ ssocket.m_isSecure = isSecure[i]
       ELSE ssocket = None

\* Every listener that is open has its owner, except for those that a
\* constructor lost.
ListenersOwned ==
    /\ lost # {} => pc \in {"unwind", "exit"}
    /\ \A fd \in Open, n \in 1..Options :
         files[fd] = Listener(n) => fd \in lost \/ InVec(fd) \/ fd = ssocket.m_socket

OneEpoll == \A fd \in Open : files[fd] = <<"epoll">> => fd = m_epoll

\* epoll knows those that AddSocket was called with.
EpollKnows ==
    \A fd \in Fds :
        fd \in registered <=> InVec(fd) \/ (pc = "push" /\ fd = ssocket.m_socket)

OpenInv == ListenersOwned /\ OneEpoll /\ EpollKnows

ListenersInv == ListenersTypeOK /\ PlacesInv /\ OwnersInv /\ OpenInv

-----------------------------------------------------------------------------
(* The three kinds of descriptor differ.                                   *)
LEMMA KindsDiffer ==
    /\ \A n : Listener(n)[1] = "listener" /\ Listener(n)[2] = n /\ <<"epoll">> # Listener(n)
    /\ \A n, fd, b : <<"client", fd, b>> # Listener(n) /\ <<"client", fd, b>> # <<"epoll">>
    /\ \A k, n : Listener(k) = Listener(n) => k = n
<1>1. \A n : Listener(n)[1] = "listener" /\ Listener(n)[2] = n
    BY DEF Listener
<1>2. <<"epoll">>[1] = "epoll" /\ \A fd, b : <<"client", fd, b>>[1] = "client"
    OBVIOUS
<1>3. \A k, n : Listener(k) = Listener(n) => k = n
    BY <1>1
<1>4. QED BY <1>1, <1>2, <1>3

(* The kernel gives a number that nobody has.                              *)
LEMMA LowestFree ==
    ASSUME Free # {}
    PROVE  Lowest \in Fds /\ Lowest \notin Open
<1>1. Free \in SUBSET Nat
    BY ListenerAssumption DEF Free
<1>2. \E n \in Free : \A m \in Free : n <= m
    <2>1. PICK n \in Free : \A m \in Free : <<m, n>> \notin OpToRel(<, Nat)
        BY <1>1, NatLessThanWellFounded, WFMin
    <2>2. \A m \in Free : ~(m < n)
        BY <1>1, <2>1 DEF OpToRel
    <2>3. QED BY <1>1, <2>2
<1>3. Lowest \in Free
    BY <1>2 DEF Lowest, Min
<1>4. QED BY <1>3 DEF Free

(* A descriptor is opened: it was free, it is the only new one, and the    *)
(* open ones are as they were.                                             *)
LEMMA OpenedFacts ==
    ASSUME NEW what, Free # {}, files' = Opened(what)
    PROVE  /\ Lowest \in Fds /\ Lowest \notin Open
           /\ Open' = Open \cup {Lowest} /\ files'[Lowest] = what
           /\ \A fd \in Open : files'[fd] = files[fd]
BY LowestFree DEF Open, Opened

(* Closing leaves the descriptors that are not named as they were.         *)
LEMMA ClosingFacts ==
    ASSUME NEW fds, Closing(fds)
    PROVE  /\ Open' = Open \ fds /\ registered' = registered \ fds
           /\ \A fd \in Open \ fds : files'[fd] = files[fd]
BY DEF Closing, Open, Restrict

(* What the parts of the invariant say of the descriptors that are open.   *)
FilesOK ==
    /\ Open \subseteq Fds /\ registered \subseteq Open
    /\ \A fd \in Open : files[fd] \in Kinds

\* ... and of main's own variables.
LocalsOK ==
    /\ isSecure \in [1..Options -> BOOLEAN] /\ i \in 1..(Options + 1)
    /\ m_epoll \in Fds \cup {-1}
    /\ ssocket \in Sockets /\ vec \in Seq(Sockets) /\ lost \subseteq Fds
    /\ capacity \in Nat /\ Len(vec) <= capacity

(* The type invariant in two parts: the kernel's files and main's objects. *)
LEMMA TypeParts == ListenersTypeOK <=> FilesOK /\ LocalsOK
BY DEF ListenersTypeOK, FilesOK, LocalsOK

(* The kernel opens a descriptor: nobody else's changes.                   *)
LEMMA OpenedFiles ==
    ASSUME FilesOK, NEW what \in Kinds, Free # {}, files' = Opened(what),
           registered' = registered
    PROVE  /\ FilesOK' /\ Lowest \in Fds /\ Lowest \notin Open
           /\ Open' = Open \cup {Lowest} /\ files'[Lowest] = what
           /\ \A fd \in Open : files'[fd] = files[fd]
<1>1. /\ Lowest \in Fds /\ Lowest \notin Open
      /\ Open' = Open \cup {Lowest} /\ files'[Lowest] = what
      /\ \A fd \in Open : files'[fd] = files[fd]
    BY OpenedFacts
<1>2. FilesOK'
    BY <1>1 DEF FilesOK, Kinds
<1>3. QED BY <1>1, <1>2

(* Descriptors are closed: the others are as they were.                    *)
LEMMA ClosedFiles ==
    ASSUME FilesOK, NEW fds, Closing(fds)
    PROVE  /\ FilesOK'
           /\ Open' = Open \ fds /\ registered' = registered \ fds
           /\ \A fd \in Open \ fds : files'[fd] = files[fd]
<1>1. /\ Open' = Open \ fds /\ registered' = registered \ fds
      /\ \A fd \in Open \ fds : files'[fd] = files[fd]
    BY ClosingFacts
<1>2. FilesOK'
    BY <1>1 DEF FilesOK, Kinds
<1>3. QED BY <1>1, <1>2

(* The moved-from socket owns no descriptor.                               *)
LEMMA NoneOwned == Owned({None}) = {} /\ None \in Sockets /\ None.m_socket = -1 /\ -1 \notin Fds
BY ListenerAssumption DEF Owned, None, Sockets

(* Every step keeps the invariant.                                         *)
LEMMA ListenerKept ==
    ASSUME ListenersInv, ListenerStep
    PROVE  ListenersInv'
<1>inv. FilesOK /\ LocalsOK /\ PlacesInv /\ OwnersInv
       /\ ListenersOwned /\ OneEpoll /\ EpollKnows
    BY TypeParts DEF ListenersInv, OpenInv
<1>seq. /\ Len(vec) \in Nat /\ DOMAIN vec = 1..Len(vec) /\ DOMAIN <<>> = {} /\ Len(<<>>) = 0
        /\ \A k \in DOMAIN vec : vec[k] \in Sockets
    BY <1>inv, LenProperties, ElementOfSeq, EmptySeq DEF LocalsOK
<1>1. CASE CreateServer
    <2>1. /\ FilesOK' /\ Open \subseteq Open' /\ \A fd \in Open : files'[fd] = files[fd]
          /\ \A fd \in Open' \ Open : fd = m_epoll' /\ files'[fd] = <<"epoll">>
          /\ m_epoll' \in Fds \cup {-1}
        <3>1. CASE Free # {} /\ m_epoll' = Lowest /\ files' = Opened(<<"epoll">>)
            <4>1. <<"epoll">> \in Kinds /\ registered' = registered
                BY <1>1 DEF Kinds, CreateServer
            <4>2. /\ FilesOK' /\ Lowest \in Fds /\ Open' = Open \cup {Lowest}
                  /\ files'[Lowest] = <<"epoll">> /\ \A fd \in Open : files'[fd] = files[fd]
                BY <1>inv, <3>1, <4>1, OpenedFiles
            <4>3. QED BY <3>1, <4>2
        <3>2. CASE UNCHANGED <<m_epoll, files>>
            BY <1>1, <1>inv, <3>2 DEF CreateServer, FilesOK, LocalsOK, Open
        <3>3. QED BY <1>1, <3>1, <3>2 DEF CreateServer
    <2>2. /\ pc = "server" /\ pc' \in {"construct", "exit"}
          /\ UNCHANGED <<isSecure, i, registered, ssocket, vec, capacity, lost>>
        BY <1>1 DEF CreateServer, Goes
    <2>3. LocalsOK'
        BY <2>1, <2>2, <1>inv, <1>seq, ListenerAssumption, NoneOwned
        DEF LocalsOK, PlacesInv
    <2>4. PlacesInv'
        BY <2>1, <2>2, <1>inv, <1>seq, ListenerAssumption
        DEF LocalsOK, PlacesInv, Pcs
    <2>5. OwnersInv'
        BY <2>1, <2>2, <1>inv, <1>seq, ListenerAssumption, NoneOwned
        DEF FilesOK, LocalsOK, OwnersInv, IsListener
    <2>6. ListenersOwned'
        BY <2>1, <2>2, <1>inv, <1>seq, ListenerAssumption, NoneOwned, KindsDiffer
        DEF FilesOK, LocalsOK, OwnersInv, ListenersOwned, IsListener, InVec
    <2>7. OneEpoll'
        BY <2>1, <2>2, <1>inv, <1>seq, ListenerAssumption, KindsDiffer
        DEF FilesOK, PlacesInv, OneEpoll
    <2>8. EpollKnows'
        BY <2>1, <2>2, <1>inv, <1>seq, ListenerAssumption, NoneOwned
        DEF FilesOK, LocalsOK, OwnersInv, EpollKnows, IsListener, InVec
    <2>9. QED BY <2>1, <2>2, <2>3, <2>4, <2>5, <2>6, <2>7, <2>8 DEF ListenersInv, OpenInv, ListenersTypeOK, FilesOK, LocalsOK
<1>2. CASE Construct
    <2>1. /\ FilesOK' /\ Lowest \in Fds /\ Lowest \notin Open
          /\ Open' = Open \cup {Lowest} /\ files'[Lowest] = Listener(i)
          /\ \A fd \in Open : files'[fd] = files[fd]
        <3>1. Listener(i) \in Kinds
            BY <1>2, <1>inv DEF Construct, Kinds, LocalsOK
        <3>2. QED BY <1>2, <1>inv, <3>1, OpenedFiles DEF Construct
    <2>2. ssocket' \in Sockets
        BY <1>2, <2>1, <1>inv DEF Construct, LocalsOK, Sockets
    <2>3. /\ i <= Options /\ pc = "construct" /\ pc' = "register"
          /\ ssocket' = [m_socket |-> Lowest, m_isSecure |-> isSecure[i]]
          /\ UNCHANGED <<isSecure, i, m_epoll, registered, vec, capacity, lost>>
        BY <1>2 DEF Construct, Goes
    <2>4. LocalsOK'
        BY <2>1, <2>2, <2>3, <1>inv, <1>seq, ListenerAssumption, NoneOwned
        DEF LocalsOK, PlacesInv
    <2>5. PlacesInv'
        BY <2>1, <2>2, <2>3, <1>inv, <1>seq, ListenerAssumption
        DEF LocalsOK, PlacesInv, Pcs
    <2>6. OwnersInv'
        BY <2>1, <2>2, <2>3, <1>inv, <1>seq, ListenerAssumption, NoneOwned
        DEF FilesOK, LocalsOK, OwnersInv, IsListener
    <2>7. ListenersOwned'
        BY <2>1, <2>2, <2>3, <1>inv, <1>seq, ListenerAssumption, NoneOwned, SMTT(30)
        DEF FilesOK, LocalsOK, OwnersInv, ListenersOwned, IsListener, InVec
    <2>8. OneEpoll'
        BY <2>1, <2>2, <2>3, <1>inv, <1>seq, ListenerAssumption, KindsDiffer
        DEF FilesOK, PlacesInv, OneEpoll
    <2>9. EpollKnows'
        BY <2>1, <2>2, <2>3, <1>inv, <1>seq, ListenerAssumption, NoneOwned
        DEF FilesOK, LocalsOK, OwnersInv, EpollKnows, IsListener, InVec
    <2>10. QED BY <2>1, <2>2, <2>4, <2>5, <2>6, <2>7, <2>8, <2>9 DEF ListenersInv, OpenInv, ListenersTypeOK, FilesOK, LocalsOK
<1>3. CASE ConstructThrows
    <2>1. /\ FilesOK' /\ Open \subseteq Open' /\ \A fd \in Open : files'[fd] = files[fd]
          /\ \A fd \in Open' \ Open : fd \in lost' /\ files'[fd] = Listener(i)
          /\ lost \subseteq lost' /\ lost' \subseteq Fds
        <3>1. CASE Free # {}
            <4>1. /\ Listener(i) \in Kinds /\ registered' = registered
                  /\ files' = Opened(Listener(i)) /\ lost' = lost \cup {Lowest}
                BY <1>3, <1>inv, <3>1 DEF Kinds, ConstructThrows, LocalsOK
            <4>2. /\ FilesOK' /\ Lowest \in Fds /\ Open' = Open \cup {Lowest}
                  /\ files'[Lowest] = Listener(i) /\ \A fd \in Open : files'[fd] = files[fd]
                BY <1>inv, <3>1, <4>1, OpenedFiles
            <4>3. QED BY <1>inv, <4>1, <4>2 DEF LocalsOK
        <3>2. CASE Free = {}
            BY <1>3, <1>inv, <3>2 DEF ConstructThrows, FilesOK, LocalsOK, Open
        <3>3. QED BY <3>1, <3>2
    <2>2. /\ i <= Options /\ pc = "construct" /\ pc' = "unwind"
          /\ UNCHANGED <<isSecure, i, m_epoll, registered, ssocket, vec, capacity>>
        BY <1>3 DEF ConstructThrows, Goes
    <2>3. LocalsOK'
        BY <2>1, <2>2, <1>inv, <1>seq, ListenerAssumption, NoneOwned
        DEF LocalsOK, PlacesInv
    <2>4. PlacesInv'
        BY <2>1, <2>2, <1>inv, <1>seq, ListenerAssumption
        DEF LocalsOK, PlacesInv, Pcs
    <2>5. OwnersInv'
        BY <2>1, <2>2, <1>inv, <1>seq, ListenerAssumption, NoneOwned
        DEF FilesOK, LocalsOK, OwnersInv, IsListener
    <2>6. ListenersOwned'
        BY <2>1, <2>2, <1>inv, <1>seq, ListenerAssumption, NoneOwned
        DEF FilesOK, LocalsOK, OwnersInv, ListenersOwned, IsListener, InVec
    <2>7. OneEpoll'
        BY <2>1, <2>2, <1>inv, <1>seq, ListenerAssumption, KindsDiffer
        DEF FilesOK, PlacesInv, OneEpoll
    <2>8. EpollKnows'
        BY <2>1, <2>2, <1>inv, <1>seq, ListenerAssumption, NoneOwned
        DEF FilesOK, LocalsOK, OwnersInv, EpollKnows, IsListener, InVec
    <2>9. QED BY <2>1, <2>2, <2>3, <2>4, <2>5, <2>6, <2>7, <2>8 DEF ListenersInv, OpenInv, ListenersTypeOK, FilesOK, LocalsOK
<1>4. CASE Register
    <2>1. FilesOK' /\ UNCHANGED Open /\ ssocket.m_socket \in Open
        BY <1>4, <1>inv DEF Register, FilesOK, Open, OwnersInv, Goes, IsListener
    <2>2. /\ pc = "register" /\ pc' = "push"
          /\ registered' = registered \cup {ssocket.m_socket}
          /\ UNCHANGED <<isSecure, i, files, m_epoll, ssocket, vec, capacity, lost>>
        BY <1>4 DEF Register, Goes
    <2>3. LocalsOK'
        BY <2>1, <2>2, <1>inv, <1>seq, ListenerAssumption, NoneOwned
        DEF LocalsOK, PlacesInv
    <2>4. PlacesInv'
        BY <2>1, <2>2, <1>inv, <1>seq, ListenerAssumption
        DEF LocalsOK, PlacesInv, Pcs
    <2>5. OwnersInv'
        BY <2>1, <2>2, <1>inv, <1>seq, ListenerAssumption, NoneOwned
        DEF FilesOK, LocalsOK, OwnersInv, IsListener
    <2>6. ListenersOwned'
        BY <2>1, <2>2, <1>inv, <1>seq, ListenerAssumption, NoneOwned
        DEF FilesOK, LocalsOK, OwnersInv, ListenersOwned, IsListener, InVec
    <2>7. OneEpoll'
        BY <2>1, <2>2, <1>inv, <1>seq, ListenerAssumption, KindsDiffer
        DEF FilesOK, PlacesInv, OneEpoll
    <2>8. EpollKnows'
        BY <2>1, <2>2, <1>inv, <1>seq, ListenerAssumption, NoneOwned
        DEF FilesOK, LocalsOK, OwnersInv, EpollKnows, IsListener, InVec
    <2>9. QED BY <2>1, <2>2, <2>3, <2>4, <2>5, <2>6, <2>7, <2>8 DEF ListenersInv, OpenInv, ListenersTypeOK, FilesOK, LocalsOK
<1>5. CASE RegisterThrows
    <2>1. /\ FilesOK'
          /\ Open' = Open \ Owned({ssocket}) /\ registered' = registered \ Owned({ssocket})
          /\ \A fd \in Open \ Owned({ssocket}) : files'[fd] = files[fd]
        BY <1>5, <1>inv, ClosedFiles DEF RegisterThrows
    <2>2. Owned({ssocket}) = {ssocket.m_socket}
        BY <1>inv, <1>5, NoneOwned DEF Owned, RegisterThrows, Goes, OwnersInv, FilesOK, IsListener
    <2>3. \A k \in DOMAIN vec : vec[k].m_socket # ssocket.m_socket
        BY <1>inv, <1>seq, <1>5, KindsDiffer DEF RegisterThrows, Goes, PlacesInv, OwnersInv, IsListener
    <2>4. /\ pc = "register" /\ pc' = "unwind" /\ ssocket' = None
          /\ UNCHANGED <<isSecure, i, m_epoll, vec, capacity, lost>>
        BY <1>5 DEF RegisterThrows, Goes
    <2>5. LocalsOK'
        BY <2>1, <2>2, <2>3, <2>4, <1>inv, <1>seq, ListenerAssumption, NoneOwned
        DEF LocalsOK, PlacesInv
    <2>6. PlacesInv'
        BY <2>1, <2>2, <2>3, <2>4, <1>inv, <1>seq, ListenerAssumption
        DEF LocalsOK, PlacesInv, Pcs
    <2>7. OwnersInv'
        BY <2>1, <2>2, <2>3, <2>4, <1>inv, <1>seq, ListenerAssumption, NoneOwned
        DEF FilesOK, LocalsOK, OwnersInv, IsListener
    <2>8. ListenersOwned'
        BY <2>1, <2>2, <2>3, <2>4, <1>inv, <1>seq, ListenerAssumption, NoneOwned, ZenonT(60)
        DEF FilesOK, LocalsOK, OwnersInv, ListenersOwned, IsListener, InVec
    <2>9. OneEpoll'
        BY <2>1, <2>2, <2>3, <2>4, <1>inv, <1>seq, ListenerAssumption, KindsDiffer
        DEF FilesOK, PlacesInv, OneEpoll
    <2>10. EpollKnows'
        BY <2>1, <2>2, <2>3, <2>4, <1>inv, <1>seq, ListenerAssumption, NoneOwned
        DEF FilesOK, LocalsOK, OwnersInv, EpollKnows, IsListener, InVec
    <2>11. QED BY <2>1, <2>2, <2>5, <2>6, <2>7, <2>8, <2>9, <2>10 DEF ListenersInv, OpenInv, ListenersTypeOK, FilesOK, LocalsOK
<1>6. CASE PushBack
    <2>1. /\ FilesOK' /\ UNCHANGED <<Open, registered>>
          /\ \A fd \in Open : files'[fd] = files[fd]
        <3>1. PICK old : Closing(Owned(old)) /\ old \subseteq {None}
            BY <1>6 DEF PushBack, MovedFrom
        <3>2. Owned(old) = {}
            BY <3>1, NoneOwned DEF Owned
        <3>3. QED BY <1>inv, <3>1, <3>2, ClosedFiles
    <2>2. /\ vec' = Append(vec, ssocket) /\ vec' \in Seq(Sockets) /\ Len(vec') = Len(vec) + 1
          /\ DOMAIN vec' = DOMAIN vec \cup {Len(vec) + 1} /\ vec'[Len(vec) + 1] = ssocket
          /\ \A k \in DOMAIN vec : vec'[k] = vec[k]
        BY <1>6, <1>inv, AppendPlaces, AppendProperties DEF PushBack, LocalsOK
    <2>3. capacity' \in Nat /\ Len(vec) + 1 <= capacity'
        <3>1. \A c \in Nat : Max({1, 2 * c}) \in Nat /\ c + 1 <= Max({1, 2 * c})
            BY DEF Max
        <3>2. capacity' = IF Len(vec) = capacity THEN Max({1, 2 * capacity}) ELSE capacity
            BY <1>6 DEF PushBack
        <3>3. capacity \in Nat /\ Len(vec) <= capacity /\ Len(vec) \in Nat
            BY <1>inv, <1>seq DEF LocalsOK
        <3>4. Max({1, 2 * capacity}) \in Nat /\ capacity + 1 <= Max({1, 2 * capacity})
            BY <3>1, <3>3
        <3>5. QED BY <3>2, <3>3, <3>4
    <2>4. Len(vec) + 1 = i /\ i \in Nat
        BY <1>6, <1>inv DEF PushBack, Goes, PlacesInv, LocalsOK
    <2>5. /\ pc = "push" /\ pc' = "scope" /\ ssocket' = None
          /\ UNCHANGED <<isSecure, i, m_epoll, lost>>
        BY <1>6 DEF PushBack, Goes, MovedFrom
    <2>6. LocalsOK'
        BY <2>1, <2>2, <2>3, <2>4, <2>5, <1>inv, <1>seq, ListenerAssumption, NoneOwned
        DEF LocalsOK, PlacesInv
    <2>7. PlacesInv'
        BY <2>1, <2>2, <2>3, <2>4, <2>5, <1>inv, <1>seq, ListenerAssumption
        DEF LocalsOK, PlacesInv, Pcs
    <2>8. OwnersInv'
        <3>1. ASSUME NEW k \in DOMAIN vec'
              PROVE  /\ vec'[k].m_socket \in Open /\ files[vec'[k].m_socket] = Listener(k)
                     /\ vec'[k].m_isSecure = isSecure[k]
            <4>1. CASE k \in DOMAIN vec
                BY <2>2, <4>1, <1>inv DEF OwnersInv, IsListener
            <4>2. CASE k = i
                BY <2>2, <2>4, <2>5, <4>2, <1>inv DEF OwnersInv, IsListener
            <4>3. QED BY <2>2, <2>4, <3>1, <4>1, <4>2
        <3>2. QED BY <2>1, <2>5, <3>1 DEF OwnersInv, IsListener
    <2>9. ListenersOwned'
        BY <2>1, <2>2, <2>3, <2>4, <2>5, <1>inv, <1>seq, ListenerAssumption, NoneOwned
        DEF FilesOK, LocalsOK, OwnersInv, ListenersOwned, IsListener, InVec
    <2>10. OneEpoll'
        BY <2>1, <2>2, <2>3, <2>4, <2>5, <1>inv, <1>seq, ListenerAssumption, KindsDiffer
        DEF FilesOK, PlacesInv, OneEpoll
    <2>11. EpollKnows'
        BY <2>1, <2>2, <2>3, <2>4, <2>5, <1>inv, <1>seq, ListenerAssumption, NoneOwned
        DEF FilesOK, LocalsOK, OwnersInv, EpollKnows, IsListener, InVec
    <2>12. QED BY <2>1, <2>2, <2>6, <2>7, <2>8, <2>9, <2>10, <2>11 DEF ListenersInv, OpenInv, ListenersTypeOK, FilesOK, LocalsOK
<1>7. CASE PushThrows
    <2>1. /\ FilesOK'
          /\ Open' = Open \ Owned({ssocket}) /\ registered' = registered \ Owned({ssocket})
          /\ \A fd \in Open \ Owned({ssocket}) : files'[fd] = files[fd]
        BY <1>7, <1>inv, ClosedFiles DEF PushThrows
    <2>2. Owned({ssocket}) = {ssocket.m_socket}
        BY <1>inv, <1>7, NoneOwned DEF Owned, PushThrows, Goes, OwnersInv, FilesOK, IsListener
    <2>3. \A k \in DOMAIN vec : vec[k].m_socket # ssocket.m_socket
        BY <1>inv, <1>seq, <1>7, KindsDiffer DEF PushThrows, Goes, PlacesInv, OwnersInv, IsListener
    <2>4. /\ pc = "push" /\ pc' = "unwind" /\ ssocket' = None
          /\ UNCHANGED <<isSecure, i, m_epoll, vec, capacity, lost>>
        BY <1>7 DEF PushThrows, Goes
    <2>5. LocalsOK'
        BY <2>1, <2>2, <2>3, <2>4, <1>inv, <1>seq, ListenerAssumption, NoneOwned
        DEF LocalsOK, PlacesInv
    <2>6. PlacesInv'
        BY <2>1, <2>2, <2>3, <2>4, <1>inv, <1>seq, ListenerAssumption
        DEF LocalsOK, PlacesInv, Pcs
    <2>7. OwnersInv'
        BY <2>1, <2>2, <2>3, <2>4, <1>inv, <1>seq, ListenerAssumption, NoneOwned
        DEF FilesOK, LocalsOK, OwnersInv, IsListener
    <2>8. ListenersOwned'
        BY <2>1, <2>2, <2>3, <2>4, <1>inv, <1>seq, ListenerAssumption, NoneOwned, ZenonT(60)
        DEF FilesOK, LocalsOK, OwnersInv, ListenersOwned, IsListener, InVec
    <2>9. OneEpoll'
        BY <2>1, <2>2, <2>3, <2>4, <1>inv, <1>seq, ListenerAssumption, KindsDiffer
        DEF FilesOK, PlacesInv, OneEpoll
    <2>10. EpollKnows'
        BY <2>1, <2>2, <2>3, <2>4, <1>inv, <1>seq, ListenerAssumption, NoneOwned
        DEF FilesOK, LocalsOK, OwnersInv, EpollKnows, IsListener, InVec
    <2>11. QED BY <2>1, <2>2, <2>5, <2>6, <2>7, <2>8, <2>9, <2>10 DEF ListenersInv, OpenInv, ListenersTypeOK, FilesOK, LocalsOK
<1>8. CASE EndOfScope
    <2>1. /\ FilesOK'
          /\ Open' = Open \ Owned({ssocket}) /\ registered' = registered \ Owned({ssocket})
          /\ \A fd \in Open \ Owned({ssocket}) : files'[fd] = files[fd]
        BY <1>8, <1>inv, ClosedFiles DEF EndOfScope
    <2>2. Owned({ssocket}) = {}
        BY <1>inv, <1>8, NoneOwned DEF EndOfScope, Goes, OwnersInv
    <2>3. /\ pc = "scope" /\ pc' = "construct" /\ ssocket' = None /\ i' = i + 1
          /\ UNCHANGED <<isSecure, m_epoll, vec, capacity, lost>>
        BY <1>8 DEF EndOfScope, Goes
    <2>4. LocalsOK'
        BY <2>1, <2>2, <2>3, <1>inv, <1>seq, ListenerAssumption, NoneOwned
        DEF LocalsOK, PlacesInv
    <2>5. PlacesInv'
        BY <2>1, <2>2, <2>3, <1>inv, <1>seq, ListenerAssumption
        DEF LocalsOK, PlacesInv, Pcs
    <2>6. OwnersInv'
        BY <2>1, <2>2, <2>3, <1>inv, <1>seq, ListenerAssumption, NoneOwned
        DEF FilesOK, LocalsOK, OwnersInv, IsListener
    <2>7. ListenersOwned'
        BY <2>1, <2>2, <2>3, <1>inv, <1>seq, ListenerAssumption, NoneOwned, ZenonT(60)
        DEF FilesOK, LocalsOK, OwnersInv, ListenersOwned, IsListener, InVec
    <2>8. OneEpoll'
        BY <2>1, <2>2, <2>3, <1>inv, <1>seq, ListenerAssumption, KindsDiffer
        DEF FilesOK, PlacesInv, OneEpoll
    <2>9. EpollKnows'
        BY <2>1, <2>2, <2>3, <1>inv, <1>seq, ListenerAssumption, NoneOwned
        DEF FilesOK, LocalsOK, OwnersInv, EpollKnows, IsListener, InVec
    <2>10. QED BY <2>1, <2>2, <2>4, <2>5, <2>6, <2>7, <2>8, <2>9 DEF ListenersInv, OpenInv, ListenersTypeOK, FilesOK, LocalsOK
<1>9. CASE AllAdded
    <2>1. FilesOK' /\ UNCHANGED Open
        BY <1>9, <1>inv DEF AllAdded, FilesOK, Open
    <2>2. Len(vec) = Options
        BY <1>9, <1>inv, ListenerAssumption DEF AllAdded, Goes, PlacesInv, LocalsOK
    <2>3. /\ i > Options /\ pc = "construct" /\ pc' = "wait"
          /\ UNCHANGED <<isSecure, i, files, m_epoll, registered, ssocket, vec, capacity, lost>>
        BY <1>9 DEF AllAdded, Goes
    <2>4. LocalsOK'
        BY <2>1, <2>2, <2>3, <1>inv, <1>seq, ListenerAssumption, NoneOwned
        DEF LocalsOK, PlacesInv
    <2>5. PlacesInv'
        BY <2>1, <2>2, <2>3, <1>inv, <1>seq, ListenerAssumption
        DEF LocalsOK, PlacesInv, Pcs
    <2>6. OwnersInv'
        BY <2>1, <2>2, <2>3, <1>inv, <1>seq, ListenerAssumption, NoneOwned
        DEF FilesOK, LocalsOK, OwnersInv, IsListener
    <2>7. ListenersOwned'
        BY <2>1, <2>2, <2>3, <1>inv, <1>seq, ListenerAssumption, NoneOwned
        DEF FilesOK, LocalsOK, OwnersInv, ListenersOwned, IsListener, InVec
    <2>8. OneEpoll'
        BY <2>1, <2>2, <2>3, <1>inv, <1>seq, ListenerAssumption, KindsDiffer
        DEF FilesOK, PlacesInv, OneEpoll
    <2>9. EpollKnows'
        BY <2>1, <2>2, <2>3, <1>inv, <1>seq, ListenerAssumption, NoneOwned
        DEF FilesOK, LocalsOK, OwnersInv, EpollKnows, IsListener, InVec
    <2>10. QED BY <2>1, <2>2, <2>4, <2>5, <2>6, <2>7, <2>8, <2>9 DEF ListenersInv, OpenInv, ListenersTypeOK, FilesOK, LocalsOK
<1>10. ASSUME NEW secure \in BOOLEAN, AcceptClient(secure) PROVE ListenersInv'
    <2>1. /\ FilesOK' /\ Open \subseteq Open' /\ \A fd \in Open : files'[fd] = files[fd]
          /\ \A fd \in Open' \ Open : files'[fd] # <<"epoll">> /\ \A n : files'[fd] # Listener(n)
        <3>1. PICK l \in registered, b \in BOOLEAN : files' = Opened(<<"client", l, b>>)
            <4>1. PICK l \in registered : \E k \in Found(l) :
                    /\ vec[k].m_isSecure = secure
                    /\ files' = Opened(<<"client", l, vec[k].m_isSecure>>)
                BY <1>10 DEF AcceptClient
            <4>2. QED BY <4>1
        <3>2. <<"client", l, b>> \in Kinds /\ registered' = registered /\ Free # {}
            BY <1>10, <1>inv DEF Kinds, AcceptClient, FilesOK
        <3>3. /\ FilesOK' /\ Open' = Open \cup {Lowest} /\ files'[Lowest] = <<"client", l, b>>
              /\ \A fd \in Open : files'[fd] = files[fd]
            BY <1>inv, <3>1, <3>2, OpenedFiles
        <3>4. QED BY <3>3, KindsDiffer
    <2>2. /\ pc = "wait" /\ pc' = "wait"
          /\ UNCHANGED <<isSecure, i, m_epoll, registered, ssocket, vec, capacity, lost>>
        BY <1>10 DEF AcceptClient, Goes
    <2>3. LocalsOK'
        BY <2>1, <2>2, <1>inv, <1>seq, ListenerAssumption, NoneOwned
        DEF LocalsOK, PlacesInv
    <2>4. PlacesInv'
        BY <2>1, <2>2, <1>inv, <1>seq, ListenerAssumption
        DEF LocalsOK, PlacesInv, Pcs
    <2>5. OwnersInv'
        BY <2>1, <2>2, <1>inv, <1>seq, ListenerAssumption, NoneOwned
        DEF FilesOK, LocalsOK, OwnersInv, IsListener
    <2>6. ListenersOwned'
        BY <2>1, <2>2, <1>inv, <1>seq, ListenerAssumption, NoneOwned
        DEF FilesOK, LocalsOK, OwnersInv, ListenersOwned, IsListener, InVec
    <2>7. OneEpoll'
        BY <2>1, <2>2, <1>inv, <1>seq, ListenerAssumption, KindsDiffer
        DEF FilesOK, PlacesInv, OneEpoll
    <2>8. EpollKnows'
        BY <2>1, <2>2, <1>inv, <1>seq, ListenerAssumption, NoneOwned
        DEF FilesOK, LocalsOK, OwnersInv, EpollKnows, IsListener, InVec
    <2>9. QED BY <2>1, <2>2, <2>3, <2>4, <2>5, <2>6, <2>7, <2>8 DEF ListenersInv, OpenInv, ListenersTypeOK, FilesOK, LocalsOK
<1>11. CASE ClientCloses
    <2>1. PICK c \in Open : files[c][1] = "client" /\ Closing({c})
        BY <1>11 DEF ClientCloses
    <2>2. /\ FilesOK' /\ Open' = Open \ {c} /\ registered' = registered \ {c}
          /\ \A fd \in Open \ {c} : files'[fd] = files[fd]
        BY <1>inv, <2>1, ClosedFiles
    <2>3. \A n : ~IsListener(c, n)
        BY <2>1, KindsDiffer DEF IsListener
    <2>4. \A k \in DOMAIN vec : vec[k].m_socket \in Open \ {c}
        BY <2>3, <1>inv DEF OwnersInv, IsListener
    <2>5. /\ pc \in {"wait", "exit"}
          /\ UNCHANGED <<isSecure, pc, i, m_epoll, ssocket, vec, capacity, lost>>
        BY <1>11 DEF ClientCloses, Goes
    <2>6. LocalsOK'
        BY <2>1, <2>2, <2>3, <2>4, <2>5, <1>inv, <1>seq, ListenerAssumption, NoneOwned
        DEF LocalsOK, PlacesInv
    <2>7. PlacesInv'
        BY <2>1, <2>2, <2>3, <2>4, <2>5, <1>inv, <1>seq, ListenerAssumption
        DEF LocalsOK, PlacesInv, Pcs
    <2>8. OwnersInv'
        BY <2>1, <2>2, <2>3, <2>4, <2>5, <1>inv, <1>seq, ListenerAssumption, NoneOwned
        DEF FilesOK, LocalsOK, OwnersInv, IsListener
    <2>9. ListenersOwned'
        BY <2>1, <2>2, <2>3, <2>4, <2>5, <1>inv, <1>seq, ListenerAssumption, NoneOwned
        DEF FilesOK, LocalsOK, OwnersInv, ListenersOwned, IsListener, InVec
    <2>10. OneEpoll'
        BY <2>1, <2>2, <2>3, <2>4, <2>5, <1>inv, <1>seq, ListenerAssumption, KindsDiffer
        DEF FilesOK, PlacesInv, OneEpoll
    <2>11. EpollKnows'
        BY <2>1, <2>2, <2>3, <2>4, <2>5, <1>inv, <1>seq, ListenerAssumption, NoneOwned
        DEF FilesOK, LocalsOK, OwnersInv, EpollKnows, IsListener, InVec
    <2>12. QED BY <2>1, <2>2, <2>6, <2>7, <2>8, <2>9, <2>10, <2>11 DEF ListenersInv, OpenInv, ListenersTypeOK, FilesOK, LocalsOK
<1>12. CASE Leave
    <2>1. FilesOK' /\ UNCHANGED Open
        BY <1>12, <1>inv DEF Leave, FilesOK, Open
    <2>2. /\ pc = "wait" /\ pc' = "unwind"
          /\ UNCHANGED <<isSecure, i, files, m_epoll, registered, ssocket, vec, capacity, lost>>
        BY <1>12 DEF Leave, Goes
    <2>3. LocalsOK'
        BY <2>1, <2>2, <1>inv, <1>seq, ListenerAssumption, NoneOwned
        DEF LocalsOK, PlacesInv
    <2>4. PlacesInv'
        BY <2>1, <2>2, <1>inv, <1>seq, ListenerAssumption
        DEF LocalsOK, PlacesInv, Pcs
    <2>5. OwnersInv'
        BY <2>1, <2>2, <1>inv, <1>seq, ListenerAssumption, NoneOwned
        DEF FilesOK, LocalsOK, OwnersInv, IsListener
    <2>6. ListenersOwned'
        BY <2>1, <2>2, <1>inv, <1>seq, ListenerAssumption, NoneOwned
        DEF FilesOK, LocalsOK, OwnersInv, ListenersOwned, IsListener, InVec
    <2>7. OneEpoll'
        BY <2>1, <2>2, <1>inv, <1>seq, ListenerAssumption, KindsDiffer
        DEF FilesOK, PlacesInv, OneEpoll
    <2>8. EpollKnows'
        BY <2>1, <2>2, <1>inv, <1>seq, ListenerAssumption, NoneOwned
        DEF FilesOK, LocalsOK, OwnersInv, EpollKnows, IsListener, InVec
    <2>9. QED BY <2>1, <2>2, <2>3, <2>4, <2>5, <2>6, <2>7, <2>8 DEF ListenersInv, OpenInv, ListenersTypeOK, FilesOK, LocalsOK
<1>13. CASE DestroyServer
    <2>1. /\ FilesOK'
          /\ Open' = Open \ Owned(ToSet(vec)) /\ registered' = registered \ Owned(ToSet(vec))
          /\ \A fd \in Open \ Owned(ToSet(vec)) : files'[fd] = files[fd]
        BY <1>13, <1>inv, ClosedFiles DEF DestroyServer
    <2>2. \A fd : fd \in Owned(ToSet(vec)) <=> InVec(fd) /\ fd # -1
        BY DEF Owned, ToSet, InVec
    <2>3. /\ pc = "unwind" /\ pc' = "exit" /\ vec' = <<>> /\ capacity' = 0
          /\ UNCHANGED <<isSecure, i, m_epoll, ssocket, lost>>
        BY <1>13 DEF DestroyServer, Goes
    <2>4. LocalsOK'
        BY <2>1, <2>2, <2>3, <1>inv, <1>seq, ListenerAssumption, NoneOwned
        DEF LocalsOK, PlacesInv
    <2>5. PlacesInv'
        BY <2>1, <2>2, <2>3, <1>inv, <1>seq, ListenerAssumption
        DEF LocalsOK, PlacesInv, Pcs
    <2>6. OwnersInv'
        BY <2>1, <2>2, <2>3, <1>inv, <1>seq, ListenerAssumption, NoneOwned
        DEF FilesOK, LocalsOK, OwnersInv, IsListener
    <2>7. ListenersOwned'
        BY <2>1, <2>2, <2>3, <1>inv, <1>seq, ListenerAssumption, NoneOwned
        DEF FilesOK, LocalsOK, OwnersInv, ListenersOwned, IsListener, InVec
    <2>8. OneEpoll'
        BY <2>1, <2>2, <2>3, <1>inv, <1>seq, ListenerAssumption, KindsDiffer
        DEF FilesOK, PlacesInv, OneEpoll
    <2>9. EpollKnows'
        BY <2>1, <2>2, <2>3, <1>inv, <1>seq, ListenerAssumption, NoneOwned
        DEF FilesOK, LocalsOK, OwnersInv, EpollKnows, IsListener, InVec
    <2>10. QED BY <2>1, <2>2, <2>4, <2>5, <2>6, <2>7, <2>8, <2>9 DEF ListenersInv, OpenInv, ListenersTypeOK, FilesOK, LocalsOK
<1>14. QED
    BY <1>1, <1>2, <1>3, <1>4, <1>5, <1>6, <1>7, <1>8, <1>9, <1>10, <1>11, <1>12, <1>13
    DEF ListenerStep

(* An owner's number leads epoll's event back to it, and to nobody else.   *)
LEMMA Lookup ==
    ASSUME ListenersInv, NEW n \in DOMAIN vec
    PROVE  /\ vec[n].m_socket \in Fds /\ IsListener(vec[n].m_socket, n)
           /\ \A k \in DOMAIN vec : vec[k].m_socket = vec[n].m_socket => k = n
           /\ Found(vec[n].m_socket) = {n}
<1>1. /\ \A k \in DOMAIN vec : IsListener(vec[k].m_socket, k)
      /\ Open \subseteq Fds
    BY DEF ListenersInv, OwnersInv, ListenersTypeOK
<1>2. \A k \in DOMAIN vec : vec[k].m_socket = vec[n].m_socket => k = n
    BY <1>1, KindsDiffer DEF IsListener
<1>3. {k \in DOMAIN vec : vec[k].m_socket = vec[n].m_socket} = {n}
    BY <1>2
<1>4. n \in Nat
    BY LenProperties DEF ListenersInv, ListenersTypeOK
<1>5. Min({n}) = n
    BY <1>4 DEF Min
<1>6. Found(vec[n].m_socket) = {n}
    BY <1>3, <1>5 DEF Found
<1>7. QED BY <1>1, <1>2, <1>6 DEF IsListener

(* WaitClients looks an event's number up in the vector and finds the      *)
(* listener that owns it.                                                  *)
LEMMA LookupFinds ==
    ASSUME ListenersInv
    PROVE  LookupFindsListener
<1>1. SUFFICES ASSUME pc = "wait"
               PROVE  /\ registered = {fd \in Open : files[fd] \in {Listener(n) : n \in 1..Options}}
                      /\ \A fd \in registered :
                           \E k \in Found(fd) :
                              files[fd] = Listener(k) /\ vec[k].m_isSecure = isSecure[k]
    BY DEF LookupFindsListener
<1>2. /\ registered \subseteq Open /\ Open \subseteq Fds /\ -1 \notin Fds
      /\ ssocket.m_socket = -1 /\ lost = {} /\ DOMAIN vec = 1..Options
    BY <1>1, NoneOwned, LenProperties
    DEF ListenersInv, ListenersTypeOK, OwnersInv, OpenInv, ListenersOwned, PlacesInv
<1>3. \A fd \in registered : \E k \in DOMAIN vec : vec[k].m_socket = fd
    BY <1>1, <1>2 DEF ListenersInv, OpenInv, EpollKnows, InVec
<1>4. ASSUME NEW fd \in Open, NEW n \in 1..Options, files[fd] = Listener(n)
      PROVE  fd \in registered
    BY <1>2, <1>4 DEF ListenersInv, OpenInv, ListenersOwned, EpollKnows
<1>5. ASSUME NEW fd \in registered
      PROVE  \E k \in Found(fd) :
                k \in 1..Options /\ files[fd] = Listener(k) /\ vec[k].m_isSecure = isSecure[k]
    <2>1. PICK k \in DOMAIN vec : vec[k].m_socket = fd
        BY <1>3
    <2>2. k \in Found(fd) /\ files[fd] = Listener(k)
        BY <2>1, Lookup DEF IsListener
    <2>3. vec[k].m_isSecure = isSecure[k]
        BY <2>1 DEF ListenersInv, OwnersInv
    <2>4. QED BY <1>2, <2>1, <2>2, <2>3
<1>6. QED BY <1>2, <1>4, <1>5

(* The invariant is enough: the local is one more owner, at the place that *)
(* the vector will give it.                                                *)
LEMMA OwnersApart ==
    ASSUME ListenersInv
    PROVE  NumberOwnedOnce
<1> DEFINE owners == vec \o <<ssocket>>
<1>1. /\ Len(vec) \in Nat /\ DOMAIN owners = 1..(Len(vec) + 1)
      /\ \A k \in 1..Len(vec) : owners[k] = vec[k]
      /\ owners[Len(vec) + 1] = ssocket
    BY LenProperties, ConcatProperties DEF ListenersInv, ListenersTypeOK
<1>2. DOMAIN vec = 1..Len(vec)
    BY LenProperties DEF ListenersInv, ListenersTypeOK
<1>3. ASSUME NEW k \in DOMAIN owners, owners[k].m_socket # -1
      PROVE  owners[k].m_socket \in Open /\ files[owners[k].m_socket] = Listener(k)
    <2>1. CASE k \in DOMAIN vec
        BY <1>1, <1>2, <2>1 DEF ListenersInv, OwnersInv, IsListener
    <2>2. CASE k = Len(vec) + 1
        <3>1. ssocket.m_socket # -1 /\ owners[k] = ssocket
            BY <1>1, <1>3, <2>2
        <3>2. pc \in {"register", "push"} /\ IsListener(ssocket.m_socket, i)
            BY <3>1, NoneOwned DEF ListenersInv, OwnersInv
        <3>3. k = i
            BY <2>2, <3>2 DEF ListenersInv, PlacesInv, ListenersTypeOK
        <3>4. QED BY <3>1, <3>2, <3>3 DEF IsListener
    <2>3. QED BY <1>1, <1>2, <1>3, <2>1, <2>2
<1>4. ASSUME NEW k \in DOMAIN owners, owners[k].m_socket # -1,
             NEW n \in DOMAIN owners, owners[n].m_socket = owners[k].m_socket
      PROVE  n = k
    <2>1. files[owners[k].m_socket] = Listener(k) /\ files[owners[n].m_socket] = Listener(n)
        BY <1>3, <1>4
    <2>2. QED BY <1>4, <2>1, KindsDiffer
<1>5. ListenersTypeOK /\ LookupFindsListener
    BY LookupFinds DEF ListenersInv
<1>6. QED BY <1>3, <1>4, <1>5 DEF NumberOwnedOnce

(* The invariant is enough at the exit: what is left open belongs to no    *)
(* listener that was made.                                                 *)
LEMMA ClosedAtExit ==
    ASSUME ListenersInv
    PROVE  AllClosedAtExit
<1>1. SUFFICES ASSUME pc = "exit", NEW fd \in Open
               PROVE  fd \in lost \/ fd = m_epoll \/ files[fd][1] = "client"
    BY DEF AllClosedAtExit
<1>2. files[fd] \in Kinds /\ fd \in Fds /\ vec = <<>> /\ ssocket.m_socket = -1 /\ -1 \notin Fds
    BY <1>1, NoneOwned DEF ListenersInv, ListenersTypeOK, PlacesInv, OwnersInv
<1>3. CASE files[fd] = <<"epoll">>
    BY <1>3 DEF ListenersInv, OpenInv, OneEpoll
<1>4. ASSUME NEW n \in 1..Options, files[fd] = Listener(n) PROVE fd \in lost
    BY <1>2, <1>4 DEF ListenersInv, OpenInv, ListenersOwned, InVec
<1>5. CASE files[fd] \in {"client"} \X Fds \X BOOLEAN
    BY <1>5
<1>6. QED BY <1>2, <1>3, <1>4, <1>5 DEF Kinds

(* Before main has made anything.                                          *)
LEMMA ListenersStart ==
    ASSUME ListenersInit
    PROVE  ListenersInv
<1>1. Open = {} /\ <<>> \in Seq(Sockets) /\ Len(<<>>) = 0 /\ DOMAIN <<>> = {}
    BY EmptySeq DEF ListenersInit, Open
<1>2. FilesOK /\ LocalsOK /\ PlacesInv /\ OwnersInv
    BY <1>1, ListenerAssumption, NoneOwned
    DEF ListenersInit, FilesOK, LocalsOK, PlacesInv, Pcs, OwnersInv
<1>3. OpenInv
    BY <1>1, ListenerAssumption, NoneOwned
    DEF ListenersInit, OpenInv, ListenersOwned, OneEpoll, EpollKnows, InVec
<1>4. QED BY <1>2, <1>3, TypeParts DEF ListenersInv

(* A step of the other part leaves the listeners as they are.              *)
LEMMA ListenersStutter ==
    ASSUME ListenersInv, UNCHANGED listenerVars
    PROVE  ListenersInv'
BY DEF listenerVars, ListenersInv, ListenersTypeOK, PlacesInv, OwnersInv, OpenInv,
       ListenersOwned, OneEpoll, EpollKnows, InVec, IsListener, Open

-----------------------------------------------------------------------------
(* The OpenSSL objects.                                                    *)

\* The steps of the OpenSSL objects.
TlsStep ==
    \/ TLSContext \/ ContextDestroyed \/ AcceptReturnsNull \/ ConnectReturns
    \/ \E w, v \in Wrappers : Acceptor(w, v) \/ AcceptSucceeds(w, v)
    \/ \E w \in Wrappers : AcceptFails(w) \/ Use(w) \/ WorkerDone(w) \/ UseAfterCleanup(w)
    \/ \E w \in Wrappers : Client(w) \/ Connect(w) \/ ClientDone(w)

\* A pointer is set exactly as long as its object lives, an object lives
\* only where somebody will free it, and who is still to be connected keeps
\* the context from being destroyed.
PointersLive ==
    /\ \A w \in Wrappers : m_ssl[w] <=> w \in Live
    /\ \A w \in Live : place[w] \in {"acceptor", "worker", "client"}
    /\ At("worker") \subseteq Live /\ (undefined = {} => At("client") \subseteq Live)
    /\ ctx \in {"unborn", "null", "dangling"} => Live = {}
    /\ ctx = "unborn" => At("unborn") = Wrappers
    /\ ctx = "destroyed" => At("acceptor") \cup At("client") = {}
    /\ certs = 1 => At("client") # {}

TlsInv == TlsTypeOK /\ ContextCounted /\ FreedNeverUsed /\ PointersLive

-----------------------------------------------------------------------------
(* Any set of TLSSocket objects is finite, as are those that live.         *)
LEMMA LiveFinite ==
    ASSUME NEW S \in SUBSET Wrappers
    PROVE  IsFiniteSet(S) /\ Cardinality(S) \in Nat
BY TlsAssumption, FS_Subset, FS_CardinalityType

(* Nobody uses a context that was freed, as long as nothing is made of it. *)
LEMMA StillDefined ==
    ASSUME TlsInv, undefined = {}, undefined' = {},
           ctx' # "dangling" \/ (ctx' = ctx /\ At("unborn") \subseteq At("unborn")')
    PROVE  FreedNeverUsed'
<1>1. At("unborn")' \subseteq Wrappers
    BY DEF At
<1>2. ctx = "dangling" => At("unborn") = Wrappers
    BY DEF TlsInv, FreedNeverUsed
<1>3. QED BY <1>1, <1>2 DEF FreedNeverUsed

(* SSL_new takes a reference for each object it makes.                     *)
LEMMA CreateStep ==
    ASSUME TlsInv, undefined = {}, NEW ws \in SUBSET Wrappers,
           NEW where \in {"acceptor", "client"}, CreateSSL(ws, where)
    PROVE  TlsInv'
<1> USE DEF TlsInv, TlsTypeOK, PointersLive, CreateSSL, At, Put, Record
<1>1. PICK made \in SUBSET ws :
        /\ ctx # "set" => made = {}
        /\ m_ssl' = [w \in Wrappers |-> m_ssl[w] \/ w \in made]
        /\ ssl' = [w \in Wrappers |-> IF w \in made THEN "live" ELSE ssl[w]]
        /\ ctxRefs' = ctxRefs + Cardinality(made)
        /\ Record(IF made = ws THEN {}
                  ELSE {IF ctx = "dangling" THEN "freed context used" ELSE "null SSL used"})
    OBVIOUS
<1>2. /\ ctx' = ctx /\ certs' = certs /\ made \in SUBSET Wrappers
      /\ ctx \in {"null", "dangling", "set"}
      /\ \A w \in ws : place[w] = "unborn" /\ place'[w] = where
      /\ \A w \in Wrappers \ ws : place'[w] = place[w]
      /\ place' \in [Wrappers -> {"unborn", "acceptor", "worker", "client", "destroyed"}]
    BY <1>1
<1>3. Live' = Live \cup made /\ Live \cap made = {}
    <2>1. Live' = Live \cup made
        BY <1>1, <1>2 DEF Live
    <2>2. \A w \in made : place[w] = "unborn"
        BY <1>2
    <2>3. QED BY <2>1, <2>2
<1>4. Cardinality(Live \cup made) = Cardinality(Live) + Cardinality(made)
    <2>1. Live \in SUBSET Wrappers
        BY DEF Live
    <2>2. IsFiniteSet(Live) /\ IsFiniteSet(made)
        BY <1>2, <2>1, LiveFinite
    <2>3. Cardinality(Live \cup made)
            = Cardinality(Live) + Cardinality(made) - Cardinality(Live \cap made)
        BY <2>2, FS_Union
    <2>4. /\ Cardinality(Live \cap made) = 0
          /\ Cardinality(Live) \in Nat /\ Cardinality(made) \in Nat
        BY <1>2, <1>3, <2>1, LiveFinite, FS_EmptySet
    <2> HIDE DEF TlsInv, TlsTypeOK, PointersLive, CreateSSL
    <2>5. QED BY <2>3, <2>4
<1>5. ContextCounted' /\ ctxRefs' \in Nat
    <2> DEFINE n == Cardinality(Live)
               m == Cardinality(made)
               c == IF ctx = "set" THEN 1 ELSE 0
    <2>1. n \in Nat /\ m \in Nat /\ c \in Nat
        <3>1. Live \in SUBSET Wrappers
            BY DEF Live
        <3>2. QED BY <1>2, <3>1, LiveFinite
    <2>2. ctxRefs = n + c /\ ctxRefs' = ctxRefs + m /\ Cardinality(Live') = n + m
        BY <1>1, <1>3, <1>4 DEF ContextCounted
    <2>3. ctx' = ctx
        BY <1>2
    <2> HIDE DEF TlsInv, TlsTypeOK, PointersLive, CreateSSL, n, m
    <2>4. ctxRefs' = Cardinality(Live') + c /\ ctxRefs' \in Nat
        BY <2>1, <2>2
    <2>5. QED BY <2>3, <2>4 DEF ContextCounted
<1>6. /\ m_ssl' \in [Wrappers -> BOOLEAN] /\ ssl' \in [Wrappers -> {"none", "live", "freed"}]
      /\ \A w \in Wrappers : m_ssl'[w] <=> m_ssl[w] \/ w \in made
    BY <1>1
<1>7. TlsTypeOK'
    <2>1. ctx' \in {"unborn", "null", "dangling", "set", "destroyed"} /\ certs' \in 0..1
        BY <1>2
    <2> HIDE DEF TlsInv, TlsTypeOK, PointersLive, CreateSSL, At, Put, Record
    <2>2. QED BY <1>2, <1>5, <1>6, <2>1 DEF TlsTypeOK
<1>8. /\ made = ws => undefined' = {}
      /\ made # ws => undefined' = {IF ctx = "dangling" THEN "freed context used"
                                   ELSE "null SSL used"}
    BY <1>1
<1>9. FreedNeverUsed'
    <2>1. CASE made = ws
        <3>1. undefined' = {}
            BY <1>8, <2>1
        <3>2. ctx = "dangling" => ws = {}
            BY <1>1, <2>1
        <3>3. ctx = "dangling" => At("unborn")' = Wrappers
            BY <1>2, <3>2 DEF FreedNeverUsed
        <3>4. QED BY <1>2, <3>1, <3>3 DEF FreedNeverUsed
    <2>2. CASE made # ws
        <3>1. CASE ctx = "dangling"
            <4>1. undefined' = {"freed context used"} /\ ctx' = "dangling"
                BY <1>2, <1>8, <2>2, <3>1
            <4>2. QED BY <4>1 DEF FreedNeverUsed
        <3>2. CASE ctx # "dangling"
            <4>1. undefined' = {"null SSL used"} /\ ctx' # "dangling"
                BY <1>2, <1>8, <2>2, <3>2
            <4>2. QED BY <4>1 DEF FreedNeverUsed
        <3>3. QED BY <3>1, <3>2
    <2>3. QED BY <2>1, <2>2
<1>10. PointersLive'
    <2>1. \A w \in Wrappers : m_ssl'[w] <=> w \in Live'
        BY <1>3, <1>6
    <2>2. \A w \in Live' : place'[w] \in {"acceptor", "worker", "client"}
        BY <1>2, <1>3 DEF Live
    <2>3. At("worker")' \subseteq Live'
        BY <1>2, <1>3
    <2>4. undefined' = {} => At("client")' \subseteq Live'
        <3>1. SUFFICES ASSUME undefined' = {} PROVE At("client")' \subseteq Live'
            OBVIOUS
        <3>2. made = ws
            BY <1>8, <3>1
        <3>3. QED BY <1>2, <1>3, <3>2
    <2>5. ctx' \in {"unborn", "null", "dangling"} => Live' = {}
        BY <1>1, <1>2, <1>3
    <2>6. certs' = 1 => At("client")' # {}
        <3>1. \A w \in At("client") : w \in Wrappers \ ws
            BY <1>2
        <3>2. \A w \in At("client") : place'[w] = "client"
            BY <1>2, <3>1
        <3>3. At("client") \subseteq At("client")'
            BY <3>2
        <3>4. QED BY <1>2, <3>3
    <2>7. QED BY <1>2, <2>1, <2>2, <2>3, <2>4, <2>5, <2>6
<1>11. QED BY <1>5, <1>7, <1>9, <1>10

(* SSL_free gives the reference of a live object back, and with a pointer  *)
(* that is set only then: nothing is freed twice.                          *)
LEMMA FreeStep ==
    ASSUME TlsInv, undefined = {}, NEW ws \in SUBSET Wrappers, FreeSSL(ws)
    PROVE  /\ undefined' = {} /\ Live' = Live \ ws
           /\ ContextCounted' /\ ctxRefs' \in Nat /\ ctx' = ctx /\ certs' = certs
           /\ m_ssl' \in [Wrappers -> BOOLEAN] /\ ssl' \in [Wrappers -> {"none", "live", "freed"}]
           /\ \A w \in Wrappers : m_ssl'[w] <=> w \in Live'
<1> USE DEF TlsInv, TlsTypeOK, PointersLive, FreeSSL, Freed
<1>1. Freed(ws) = ws \cap Live /\ Freed(ws) \cap Live = Live \cap ws
    BY DEF Live
<1>2. Live' = Live \ ws
    BY <1>1 DEF Live
<1>3. undefined' = {}
    BY <1>1 DEF Record
<1>4. Cardinality(Live \ ws) = Cardinality(Live) - Cardinality(Live \cap ws)
    <2>1. Live \in SUBSET Wrappers
        BY DEF Live
    <2>2. QED BY <2>1, LiveFinite, FS_Difference
<1>5. ContextCounted' /\ ctxRefs' \in Nat
    <2>1. ctxRefs' = ctxRefs - Cardinality(Live \cap ws) /\ ctx' = ctx
        BY <1>1
    <2>2. /\ Live \in SUBSET Wrappers /\ Cardinality(Live) \in Nat
          /\ Cardinality(Live \cap ws) \in Nat /\ Cardinality(Live \ ws) \in Nat
        BY LiveFinite DEF Live
    <2>3. ctxRefs = Cardinality(Live) + (IF ctx = "set" THEN 1 ELSE 0)
        BY DEF ContextCounted
    <2> HIDE DEF TlsInv, TlsTypeOK, PointersLive, FreeSSL, Freed
    <2>4. ctxRefs' = Cardinality(Live \ ws) + (IF ctx' = "set" THEN 1 ELSE 0)
        BY <1>4, <2>1, <2>2, <2>3
    <2>5. QED BY <1>2, <2>2, <2>4 DEF ContextCounted
<1>6. \A w \in Wrappers : m_ssl'[w] <=> w \in Live'
    BY <1>2
<1>7. QED BY <1>2, <1>3, <1>5, <1>6

(* ~TLSSocket, of any objects at any place.                                *)
LEMMA DestroyStep ==
    ASSUME TlsInv, undefined = {}, NEW ws \in SUBSET Wrappers, Destroy(ws),
           certs = 1 => At("client") \ ws # {}, ws \cap At("unborn") = {}
    PROVE  TlsInv'
<1>1. FreeSSL(ws)
    BY DEF Destroy
<1>2. /\ undefined' = {} /\ Live' = Live \ ws
      /\ ContextCounted' /\ ctxRefs' \in Nat /\ ctx' = ctx /\ certs' = certs
      /\ m_ssl' \in [Wrappers -> BOOLEAN] /\ ssl' \in [Wrappers -> {"none", "live", "freed"}]
      /\ \A w \in Wrappers : m_ssl'[w] <=> w \in Live'
    BY <1>1, FreeStep
<1>3. place' = [w \in Wrappers |-> IF w \in ws THEN "destroyed" ELSE place[w]]
    BY DEF Destroy, Put
<1>4. TlsTypeOK' /\ FreedNeverUsed'
    <2>1. TlsTypeOK'
        BY <1>2, <1>3 DEF TlsInv, TlsTypeOK
    <2>2. At("unborn") \subseteq At("unborn")'
        BY <1>3 DEF At
    <2>3. QED BY <1>2, <2>1, <2>2, StillDefined
<1>5. PointersLive'
    <2>1. \A w \in ws : place'[w] = "destroyed"
        BY <1>3
    <2>2. \A w \in Wrappers \ ws : place'[w] = place[w]
        BY <1>3
    <2>3. certs = 1 => At("client")' # {}
        BY <2>2 DEF At
    <2>4. \A w \in Live' : place'[w] \in {"acceptor", "worker", "client"}
        BY <1>2, <2>2 DEF TlsInv, PointersLive, Live
    <2>5. At("worker")' \cup At("client")' \subseteq Live'
        <3>1. At("worker") \cup At("client") \subseteq Live
            BY DEF TlsInv, PointersLive
        <3>2. \A where \in {"worker", "client"} : At(where)' = At(where) \ ws
            BY <2>1, <2>2 DEF At
        <3>3. QED BY <1>2, <3>1, <3>2
    <2>9. ctx = "unborn" => At("unborn")' = Wrappers
        <3>1. At("unborn")' = At("unborn") \ ws
            BY <2>1, <2>2 DEF At
        <3>2. QED BY <3>1 DEF TlsInv, PointersLive
    <2>6. ctx = "destroyed" => At("acceptor")' \cup At("client")' = {}
        BY <2>1, <2>2 DEF TlsInv, PointersLive, At
    <2>7. ctx \in {"unborn", "null", "dangling"} => Live' = {}
        BY <1>2 DEF TlsInv, PointersLive
    <2>8. QED BY <1>2, <2>3, <2>4, <2>5, <2>6, <2>7, <2>9 DEF PointersLive
<1>6. QED BY <1>2, <1>4, <1>5 DEF TlsInv

(* A step that leaves the objects and their places alone.                  *)
LEMMA ObjectsKept ==
    ASSUME TlsInv, undefined = {},
           UNCHANGED <<ctx, ctxRefs, place, m_ssl, ssl, undefined>>,
           certs' \in 0..1, certs' = 1 => At("client") # {}
    PROVE  TlsInv'
<1>1. Live' = Live /\ \A where : At(where)' = At(where)
    BY DEF Live, At
<1>2. TlsTypeOK' /\ FreedNeverUsed'
    BY <1>1, StillDefined DEF TlsInv, TlsTypeOK
<1>3. ContextCounted'
    BY <1>1 DEF TlsInv, ContextCounted
<1>4. PointersLive'
    BY <1>1 DEF TlsInv, PointersLive
<1>5. QED BY <1>2, <1>3, <1>4 DEF TlsInv

(* Every step of the OpenSSL objects keeps the invariant.                  *)
LEMMA TlsKept ==
    ASSUME TlsInv, undefined = {}, TlsStep
    PROVE  TlsInv'
<1>card. Cardinality({}) = 0
    BY FS_EmptySet
<1>1. CASE TLSContext
    <2>1. Live = {} /\ Live' = {} /\ UNCHANGED <<place, m_ssl, ssl, certs, undefined>>
        BY <1>1 DEF TLSContext, TlsInv, PointersLive, Live
    <2>2. TlsTypeOK' /\ FreedNeverUsed'
        <3>1. At("unborn")' = Wrappers /\ undefined' = {}
            BY <1>1, <2>1 DEF TLSContext, TlsInv, PointersLive, At
        <3>2. TlsTypeOK'
            BY <1>1 DEF TLSContext, TlsInv, TlsTypeOK
        <3>3. QED BY <3>1, <3>2 DEF FreedNeverUsed
    <2>3. ContextCounted'
        BY <1>1, <1>card, <2>1 DEF TLSContext, ContextCounted
    <2>4. PointersLive'
        BY <1>1, <2>1 DEF TLSContext, TlsInv, PointersLive, At
    <2>5. QED BY <2>2, <2>3, <2>4 DEF TlsInv
<1>2. CASE ContextDestroyed
    <2>1. UNCHANGED <<Live, place, m_ssl, ssl, certs>>
        BY <1>2 DEF ContextDestroyed, Live
    <2>2. CASE ctx = "dangling"
        <3>1. UNCHANGED <<ctx, ctxRefs>>
            BY <1>2, <2>2 DEF ContextDestroyed
        <3>2. TlsTypeOK' /\ FreedNeverUsed'
            <4>1. undefined' = {"context freed twice"} /\ At("unborn")' = At("unborn")
                BY <1>2, <2>1, <2>2 DEF ContextDestroyed, Record, At
            <4>2. TlsTypeOK'
                BY <2>1, <2>2, <3>1 DEF TlsInv, TlsTypeOK
            <4>3. At("unborn") = Wrappers
                BY <2>2 DEF TlsInv, FreedNeverUsed
            <4>4. QED BY <2>2, <3>1, <4>1, <4>2, <4>3 DEF FreedNeverUsed
        <3>3. ContextCounted'
            BY <2>1, <3>1 DEF TlsInv, ContextCounted
        <3>4. undefined' # {}
            BY <1>2, <2>2 DEF ContextDestroyed, Record
        <3>5. PointersLive'
            BY <2>1, <3>1, <3>4 DEF TlsInv, PointersLive, At
        <3>6. QED BY <3>2, <3>3, <3>5 DEF TlsInv
    <2>3. CASE ctx # "dangling"
        <3>1. /\ ctx' = "destroyed" /\ undefined' = {}
              /\ ctxRefs' = IF ctx = "set" THEN ctxRefs - 1 ELSE ctxRefs
            BY <1>2, <2>3 DEF ContextDestroyed
        <3>2. Cardinality(Live) \in Nat
            BY LiveFinite DEF Live
        <3>3. ctxRefs' = Cardinality(Live)
            BY <3>1, <3>2 DEF TlsInv, ContextCounted
        <3>4. ContextCounted'
            BY <2>1, <3>1, <3>2, <3>3 DEF ContextCounted
        <3>5. TlsTypeOK' /\ FreedNeverUsed'
            BY <2>1, <3>1, <3>2, <3>3, StillDefined DEF TlsInv, TlsTypeOK
        <3>6. At("acceptor") \cup At("client") = {}
            BY <1>2 DEF ContextDestroyed
        <3>7. PointersLive'
            BY <2>1, <3>1, <3>6 DEF TlsInv, PointersLive, At
        <3>8. QED BY <3>4, <3>5, <3>7 DEF TlsInv
    <2>4. QED BY <2>2, <2>3
<1>3. CASE AcceptReturnsNull
    <2>1. At("acceptor") \in SUBSET Wrappers /\ At("client") \ At("acceptor") = At("client")
        BY DEF At
    <2>2. Destroy(At("acceptor"))
        BY <1>3 DEF AcceptReturnsNull
    <2>3. At("acceptor") \cap At("unborn") = {}
        BY DEF At
    <2>4. QED BY <2>1, <2>2, <2>3, DestroyStep DEF TlsInv, PointersLive
<1>4. CASE ConnectReturns
    BY <1>4, ObjectsKept DEF ConnectReturns
<1>5. ASSUME NEW w \in Wrappers, NEW v \in Wrappers, Acceptor(w, v) PROVE TlsInv'
    BY <1>5, CreateStep DEF Acceptor
<1>6. ASSUME NEW kept \in Wrappers, NEW tls \in Wrappers, AcceptSucceeds(kept, tls)
      PROVE  TlsInv'
    <2>1. {kept, tls} \subseteq Live /\ kept # tls /\ At("acceptor") = {kept, tls}
        BY <1>6 DEF AcceptSucceeds
    <2>2. /\ undefined' = {} /\ Live' = Live \ {tls}
          /\ ContextCounted' /\ ctxRefs' \in Nat /\ ctx' = ctx /\ certs' = certs
          /\ m_ssl' \in [Wrappers -> BOOLEAN] /\ ssl' \in [Wrappers -> {"none", "live", "freed"}]
          /\ \A w \in Wrappers : m_ssl'[w] <=> w \in Live'
        BY <1>6, FreeStep DEF AcceptSucceeds
    <2>3. place' = [place EXCEPT ![kept] = "worker", ![tls] = "destroyed"]
        BY <1>6 DEF AcceptSucceeds
    <2>4. TlsTypeOK' /\ FreedNeverUsed'
        <3>1. TlsTypeOK'
            BY <2>2, <2>3 DEF TlsInv, TlsTypeOK
        <3>2. ctx # "dangling"
            BY <2>1 DEF TlsInv, PointersLive
        <3>3. QED BY <2>2, <3>1, <3>2, StillDefined
    <2>5. /\ place'[kept] = "worker" /\ place'[tls] = "destroyed"
          /\ \A w \in Wrappers \ {kept, tls} : place'[w] = place[w]
        BY <2>1, <2>3 DEF TlsInv, TlsTypeOK
    <2>6. At("client")' = At("client") /\ ctx # "destroyed"
        BY <2>1, <2>5 DEF TlsInv, PointersLive, At
    <2>7. /\ \A w \in Live' : place'[w] \in {"acceptor", "worker", "client"}
          /\ At("worker")' \cup At("client")' \subseteq Live'
        <3>1. \A w \in Live' : place'[w] \in {"acceptor", "worker", "client"}
            BY <2>1, <2>2, <2>5 DEF TlsInv, PointersLive, Live
        <3>2. At("worker")' = At("worker") \cup {kept} /\ tls \notin At("worker") \cup At("client")
            BY <2>1, <2>5 DEF At
        <3>3. At("worker") \cup At("client") \subseteq Live
            BY DEF TlsInv, PointersLive
        <3>4. QED BY <2>1, <2>2, <2>6, <3>1, <3>2, <3>3
    <2>10. ctx \notin {"unborn", "null", "dangling"} /\ Live # {}
        BY <2>1 DEF TlsInv, PointersLive
    <2>8. PointersLive'
        BY <2>2, <2>6, <2>7, <2>10 DEF TlsInv, PointersLive
    <2>9. QED BY <2>2, <2>4, <2>8 DEF TlsInv
<1>7. ASSUME NEW w \in Wrappers, AcceptFails(w) PROVE TlsInv'
    <2>1. place' = place /\ w \in At("acceptor")
        BY <1>7 DEF AcceptFails
    <2>2. /\ undefined' = {} /\ Live' = Live \ {w}
          /\ ContextCounted' /\ ctxRefs' \in Nat /\ ctx' = ctx /\ certs' = certs
          /\ m_ssl' \in [Wrappers -> BOOLEAN] /\ ssl' \in [Wrappers -> {"none", "live", "freed"}]
          /\ \A v \in Wrappers : m_ssl'[v] <=> v \in Live'
        BY <1>7, FreeStep DEF AcceptFails
    <2>3. TlsTypeOK' /\ FreedNeverUsed'
        BY <2>1, <2>2, StillDefined DEF TlsInv, TlsTypeOK, At
    <2>4. PointersLive'
        BY <2>1, <2>2 DEF TlsInv, PointersLive, At
    <2>5. QED BY <2>2, <2>3, <2>4 DEF TlsInv
<1>8. ASSUME NEW w \in Wrappers, Use(w) PROVE TlsInv'
    <2>1. CASE w \in Live
        <3>1. undefined' = undefined
            BY <1>8, <2>1 DEF Use, Record
        <3>2. UNCHANGED <<ctx, ctxRefs, place, m_ssl, ssl, certs>>
            BY <1>8 DEF Use
        <3>3. certs \in 0..1 /\ (certs = 1 => At("client") # {})
            BY DEF TlsInv, TlsTypeOK, PointersLive
        <3>4. QED BY <3>1, <3>2, <3>3, ObjectsKept
    <2>2. w \in Live
        BY <1>8 DEF Use, TlsInv, PointersLive, At
    <2>3. QED BY <2>1, <2>2
<1>9. ASSUME NEW w \in Wrappers, WorkerDone(w) PROVE TlsInv'
    <2>1. At("client") \ {w} = At("client") /\ Destroy({w}) /\ {w} \cap At("unborn") = {}
        BY <1>9 DEF WorkerDone, At
    <2>2. QED BY <2>1, DestroyStep DEF TlsInv, PointersLive
<1>10. ASSUME NEW w \in Wrappers, Client(w) PROVE TlsInv'
    BY <1>10, CreateStep DEF Client
<1>11. ASSUME NEW w \in Wrappers, Connect(w) PROVE TlsInv'
    <2>1. w \in Live /\ At("client") # {}
        BY <1>11 DEF Connect, At, TlsInv, PointersLive
    <2>2. undefined' = undefined
        BY <1>11, <2>1 DEF Connect, Record
    <2>3. UNCHANGED <<ctx, ctxRefs, place, m_ssl, ssl>> /\ certs' = 1
        BY <1>11 DEF Connect
    <2>4. QED BY <2>1, <2>2, <2>3, ObjectsKept
<1>12. ASSUME NEW w \in Wrappers, ClientDone(w) PROVE TlsInv'
    <2>1. {w} \cap At("unborn") = {} /\ Destroy({w}) /\ certs # 1
        BY <1>12 DEF ClientDone, At
    <2>2. QED BY <2>1, DestroyStep
<1>13. ASSUME NEW w \in Wrappers, UseAfterCleanup(w) PROVE TlsInv'
    <2>1. /\ UNCHANGED <<ctx, ctxRefs, place, m_ssl, ssl, certs>>
          /\ undefined' = {"used after cleanup"}
        BY <1>13 DEF UseAfterCleanup, Record
    <2>2. Live' = Live /\ \A where : At(where)' = At(where)
        BY <2>1 DEF Live, At
    <2>3. At("unborn") # Wrappers
        BY <1>13 DEF UseAfterCleanup, At
    <2>4. ctx # "dangling"
        BY <2>3 DEF TlsInv, FreedNeverUsed
    <2>5. FreedNeverUsed'
        BY <2>1, <2>4 DEF FreedNeverUsed
    <2>6. TlsTypeOK' /\ ContextCounted' /\ PointersLive'
        BY <2>1, <2>2 DEF TlsInv, TlsTypeOK, ContextCounted, PointersLive
    <2>7. QED BY <2>5, <2>6 DEF TlsInv
<1>14. QED
    BY <1>13, <1>1, <1>2, <1>3, <1>4, <1>5, <1>6, <1>7, <1>8, <1>9, <1>10, <1>11, <1>12 DEF TlsStep

(* Before there is a context, and when nothing is done to the objects.     *)
LEMMA TlsStart ==
    ASSUME TlsInit
    PROVE  TlsInv
<1>1. Live = {} /\ Cardinality({}) = 0
    BY FS_EmptySet DEF TlsInit, Live
<1>2. TlsTypeOK /\ FreedNeverUsed
    BY DEF TlsInit, TlsTypeOK, FreedNeverUsed
<1>3. ContextCounted /\ PointersLive
    BY <1>1 DEF TlsInit, ContextCounted, PointersLive, At
<1>4. QED BY <1>2, <1>3 DEF TlsInv

(* A step that does nothing to OpenSSL's objects keeps the invariant.      *)
LEMMA TlsStutter ==
    ASSUME TlsInv, UNCHANGED tlsVars
    PROVE  TlsInv'
BY DEF tlsVars, TlsInv, TlsTypeOK, ContextCounted, FreedNeverUsed, PointersLive, At, Live

(* When the context and every object are gone, so are the references.      *)
LEMMA TlsNothingLeft ==
    ASSUME TlsInv
    PROVE  NothingLeft
<1>1. Live \cap At("destroyed") = {}
    BY DEF TlsInv, PointersLive, At
<1>2. ASSUME ctx = "destroyed", Live = {} PROVE ctxRefs = 0 /\ certs = 0
    <2>1. ctxRefs = 0
        BY <1>2, FS_EmptySet DEF TlsInv, ContextCounted
    <2>2. certs # 1 /\ certs \in 0..1
        BY <1>2 DEF TlsInv, TlsTypeOK, PointersLive
    <2>3. QED BY <2>1, <2>2
<1>3. QED BY <1>1, <1>2 DEF NothingLeft, TlsInv, PointersLive

-----------------------------------------------------------------------------
(* The two together.                                                       *)

(* The process does at most one thing to each part, and nothing at all     *)
(* after an undefined call.                                                *)
LEMMA StepParts ==
    ASSUME Next
    PROVE  /\ undefined = {}
           /\ TlsStep \/ UNCHANGED tlsVars
           /\ ListenerStep \/ UNCHANGED listenerVars
<1> DEFINE Step == TlsStep \/ UNCHANGED tlsVars
           Part == ListenerStep \/ UNCHANGED listenerVars
<1>1. undefined = {}
    BY DEF Next
<1>2. CASE Server \/ ServerThrown \/ AddListeners
    BY <1>1, <1>2 DEF Server, ServerThrown, AddListeners, TlsStep, ListenerStep
<1>3. CASE Accept
    BY <1>1, <1>3 DEF Accept, TlsStep, ListenerStep
<1>4. CASE Handshake
    BY <1>1, <1>4 DEF Handshake, TlsStep
<1>5. CASE Worker
    <2>1. CASE ClientCloses /\ UNCHANGED tlsVars
        BY <1>1, <2>1 DEF ListenerStep
    <2>2. ASSUME NEW w \in At("worker"), UNCHANGED listenerVars,
                 IF cleaned THEN UseAfterCleanup(w) ELSE Use(w) \/ WorkerDone(w)
          PROVE  Step /\ Part
        <3>1. w \in Wrappers /\ (UseAfterCleanup(w) \/ Use(w) \/ WorkerDone(w))
            BY <2>2, Zenon DEF At
        <3>2. TlsStep
            BY <3>1 DEF TlsStep
        <3>3. QED BY <2>2, <3>2
    <2> HIDE DEF Step, Part
    <2>3. (ClientCloses /\ UNCHANGED tlsVars)
          \/ \E w \in At("worker") :
               /\ IF cleaned THEN UseAfterCleanup(w) ELSE Use(w) \/ WorkerDone(w)
               /\ UNCHANGED listenerVars
        BY <1>5, Zenon DEF Worker
    <2>4. CASE ClientCloses /\ UNCHANGED tlsVars
        BY <2>1, <2>4 DEF Step, Part
    <2>5. CASE \E w \in At("worker") :
                 /\ IF cleaned THEN UseAfterCleanup(w) ELSE Use(w) \/ WorkerDone(w)
                 /\ UNCHANGED listenerVars
        <3>1. Step /\ Part
            BY <2>2, <2>5, Zenon
        <3>2. QED BY <1>1, <3>1 DEF Step, Part
    <2>6. QED BY <2>3, <2>4, <2>5
<1>6. CASE Shutdown \/ Join \/ Throw \/ Exit
    BY <1>1, <1>6 DEF Shutdown, Join, Throw, Exit, TlsStep, ListenerStep
<1>7. CASE TestClient
    BY <1>1, <1>7 DEF TestClient, TlsStep, At
<1>8. QED BY <1>1, <1>2, <1>3, <1>4, <1>5, <1>6, <1>7, Zenon DEF Next

(* Both invariants hold in every state of the process.                     *)
LEMMA ResourcesInvariant == Spec => [](ListenersInv /\ TlsInv)
<1>1. Init => ListenersInv /\ TlsInv
    BY ListenersStart, TlsStart DEF Init
<1>2. (ListenersInv /\ TlsInv) /\ [Next]_vars => (ListenersInv /\ TlsInv)'
    <2>1. ASSUME ListenersInv, TlsInv, Next PROVE ListenersInv' /\ TlsInv'
        BY <2>1, StepParts, ListenerKept, ListenersStutter, TlsKept, TlsStutter
    <2>2. ASSUME ListenersInv, TlsInv, UNCHANGED vars PROVE ListenersInv' /\ TlsInv'
        BY <2>2, ListenersStutter, TlsStutter DEF vars
    <2>3. QED BY <2>1, <2>2
<1>3. QED BY <1>1, <1>2, PTL DEF Spec

(* ServerSocket's moves and the growth of the vector: for any number of    *)
(* listeners no number has two owners, and WaitClients finds the listener  *)
(* an event is about.                                                      *)
THEOREM NumbersOwnedOnce == Spec => []NumberOwnedOnce
BY ResourcesInvariant, OwnersApart, PTL

(* ~Server: on every way out each listener is closed, except for the one   *)
(* whose constructor threw.                                                *)
THEOREM ListenersClosed == Spec => []AllClosedAtExit
BY ResourcesInvariant, ClosedAtExit, PTL

\* When main has joined the workers no socket is left in their hands, nor
\* will there be one.
JoinInv ==
    /\ joined => pc \in {"unwind", "exit"} /\ At("worker") = {} /\ At("acceptor") = {}
    /\ "used after cleanup" \in undefined => ~joined

(* Nothing else is recorded as a call after the cleanup.                   *)
LEMMA OtherRecords ==
    ASSUME undefined = {}, TlsStep, "used after cleanup" \in undefined'
    PROVE  \E w \in Wrappers : UseAfterCleanup(w)
<1>1. SUFFICES ASSUME \A w \in Wrappers : ~UseAfterCleanup(w) PROVE FALSE
    OBVIOUS
<1>2. ASSUME NEW ws, FreeSSL(ws) PROVE FALSE
    BY <1>2 DEF FreeSSL, Record
<1>3. ASSUME NEW ws, NEW where, CreateSSL(ws, where) PROVE FALSE
    <2>1. PICK made \in SUBSET ws :
            Record(IF made = ws THEN {}
                   ELSE {IF ctx = "dangling" THEN "freed context used" ELSE "null SSL used"})
        BY <1>3 DEF CreateSSL
    <2>2. CASE made = ws
        BY <2>1, <2>2 DEF Record
    <2>3. CASE made # ws
        BY <2>1, <2>3 DEF Record
    <2>4. QED BY <2>2, <2>3
<1>4. ~TLSContext /\ ~ContextDestroyed /\ ~ConnectReturns
    <2>1. ASSUME TLSContext PROVE FALSE
        BY <2>1 DEF TLSContext
    <2>2. ASSUME ContextDestroyed PROVE FALSE
        <3>1. CASE ctx = "dangling"
            <4>1. Record({"context freed twice"})
                BY <2>2, <3>1, Zenon DEF ContextDestroyed
            <4>2. QED BY <4>1 DEF Record
        <3>2. CASE ctx # "dangling"
            <4>1. UNCHANGED undefined
                BY <2>2, <3>2, Zenon DEF ContextDestroyed
            <4>2. QED BY <4>1
        <3>3. QED BY <3>1, <3>2
    <2>3. ASSUME ConnectReturns PROVE FALSE
        BY <2>3 DEF ConnectReturns
    <2>4. QED BY <2>1, <2>2, <2>3
<1>5. ~AcceptReturnsNull
    BY <1>2 DEF AcceptReturnsNull, Destroy
<1>6. ASSUME NEW w \in Wrappers, NEW v \in Wrappers
      PROVE  ~Acceptor(w, v) /\ ~AcceptSucceeds(w, v) /\ ~AcceptFails(w)
    BY <1>2, <1>3 DEF Acceptor, AcceptSucceeds, AcceptFails
<1>7. ASSUME NEW w \in Wrappers
      PROVE  ~WorkerDone(w) /\ ~Client(w) /\ ~ClientDone(w)
    BY <1>2, <1>3 DEF WorkerDone, Client, ClientDone, Destroy
<1>8. ASSUME NEW w \in Wrappers PROVE ~Use(w) /\ ~Connect(w)
    <2>1. ASSUME Record({"freed SSL used" : v \in {w} \ Live}) PROVE FALSE
        BY <2>1 DEF Record
    <2>2. QED BY <2>1, Zenon DEF Use, Connect
<1>9. QED BY <1>1, <1>4, <1>5, <1>6, <1>7, <1>8, Zenon DEF TlsStep

(* Only a worker calls OpenSSL after its cleanup.                          *)
LEMMA CleanupStep ==
    ASSUME Next, "used after cleanup" \in undefined'
    PROVE  At("worker") # {} /\ UNCHANGED joined
<1>1. undefined = {} /\ TlsStep
    <2>1. undefined = {} /\ (TlsStep \/ UNCHANGED tlsVars)
        BY StepParts
    <2>2. QED BY <2>1 DEF tlsVars
<1>2. PICK w \in Wrappers : UseAfterCleanup(w)
    BY <1>1, OtherRecords
<1>3. At("worker") # {}
    BY <1>2 DEF UseAfterCleanup
<1>4. ~Join /\ ~Throw /\ ~Exit
    BY <1>1 DEF Join, Throw, Exit, tlsVars
<1>5. UNCHANGED exitVars
    BY <1>4, Zenon DEF Next
<1>6. QED BY <1>3, <1>5 DEF exitVars

(* Main goes on to its end, and nothing is accepted meanwhile.             *)
LEMMA JoinedStays ==
    ASSUME TlsInv, Next, joined, JoinInv
    PROVE  pc' \in {"unwind", "exit"} /\ At("worker")' = {} /\ At("acceptor")' = {}
<1>1. pc \in {"unwind", "exit"} /\ At("worker") = {} /\ At("acceptor") = {}
    BY DEF JoinInv
<1>2. CASE ServerThrown \/ Shutdown
    BY <1>1, <1>2
    DEF ServerThrown, Shutdown, DestroyServer, Goes, ContextDestroyed, listenerVars, At
<1>3. CASE Worker
    BY <1>1, <1>3 DEF Worker, ClientCloses, tlsVars, At
<1>4. CASE Exit
    BY <1>1, <1>4 DEF Exit, listenerVars, tlsVars, At
<1>5. ~Server /\ ~TestClient /\ ~AddListeners /\ ~Join /\ ~Throw
    BY <1>1 DEF Server, CreateServer, Goes, TestClient, AddListeners, Construct, ConstructThrows,
                Register, RegisterThrows, PushBack, PushThrows, EndOfScope, AllAdded, Join, Throw,
                Leave
<1>6. ~Accept
    BY <1>1 DEF Accept, AcceptClient, Goes
<1>7. ~Handshake
    BY <1>1 DEF Handshake, AcceptReturnsNull, AcceptSucceeds, AcceptFails
<1>8. QED BY <1>2, <1>3, <1>4, <1>5, <1>6, <1>7, Zenon DEF Next

(* No worker is left behind by main's join.                                *)
LEMMA JoinKept ==
    ASSUME TlsInv, Next, JoinInv
    PROVE  JoinInv'
<1>1. "used after cleanup" \in undefined' => ~joined'
    <2>1. SUFFICES ASSUME "used after cleanup" \in undefined' PROVE ~joined'
        OBVIOUS
    <2>2. At("worker") # {} /\ joined' = joined
        BY <2>1, CleanupStep
    <2>3. QED BY <2>2, Zenon DEF JoinInv
<1>2. ASSUME joined'
      PROVE  pc' \in {"unwind", "exit"} /\ At("worker")' = {} /\ At("acceptor")' = {}
    <2>1. CASE joined
        BY <2>1, JoinedStays
    <2>2. CASE ~joined
        <3>1. Join
            BY <1>2, <2>2, Zenon DEF Next, Throw, Exit, exitVars
        <3>2. QED BY <3>1 DEF Join, Leave, Goes, tlsVars, At
    <2>3. QED BY <2>1, <2>2
<1>3. QED BY <1>1, <1>2 DEF JoinInv

(* TLSSocket.cpp, TLSContext.cpp and the end of main: OpenSSL is called on *)
(* nothing that was freed, except for a context without its certificate,   *)
(* whichever SSL_new or handshake fails and however long the workers       *)
(* outlive the server; and after its cleanup only when main was left       *)
(* through an exception.                                                   *)
THEOREM NoUndefinedCall == Spec => []OpensslUseDefined
<1>1. Init => JoinInv
    BY DEF Init, TlsInit, JoinInv
<1>2. TlsInv /\ JoinInv /\ [Next]_vars => JoinInv'
    <2>1. ASSUME TlsInv, JoinInv, Next PROVE JoinInv'
        BY <2>1, JoinKept
    <2>2. ASSUME JoinInv, UNCHANGED vars PROVE JoinInv'
        BY <2>2 DEF vars, listenerVars, tlsVars, exitVars, JoinInv, At
    <2>3. QED BY <2>1, <2>2
<1>3. TlsInv /\ JoinInv => OpensslUseDefined
    BY DEF TlsInv, JoinInv, OpensslUseDefined
<1>4. QED BY <1>1, <1>2, <1>3, ResourcesInvariant, PTL DEF Spec

(* Acceptor, ~TLSSocket and ~TLSContext: no SSL object and no context is   *)
(* left when the server and every socket are gone.                         *)
THEOREM AllFreed == Spec => []NothingLeft
BY ResourcesInvariant, TlsNothingLeft, PTL
=============================================================================
