--------------------------- MODULE SmallHttpServer ---------------------------
(***************************************************************************)
(* The whole process: main.cpp (start-up, accept loop, the two ways out),  *)
(* Server::WaitClients and Acceptor, the pool of workers, the descriptors  *)
(* of the connections, and what comes from outside: clients, SIGINT and    *)
(* SIGSTOP/SIGCONT.  The stack is the atomic pool of SocketPool, which     *)
(* ThreadSafeStack implements; serving a connection is one step here.      *)
(*                                                                         *)
(* main leaves through an exception when epoll_wait fails, and it always   *)
(* fails with EINTR when a signal handler runs while it waits (signal(7)): *)
(* the stack and the server are then destroyed while workers still run,    *)
(* and the global vector of jthreads joins them from exit().  The stack's  *)
(* destructor waits for the workers asleep in it (ThreadSafeStack shows    *)
(* that it gets past them after a stop); without a stop it may never.      *)
(***************************************************************************)
EXTENDS SocketPool, Naturals, FiniteSets, FiniteSetsExt

CONSTANTS Listeners,     \* the sockets of config.json main listens on
          TlsListeners,  \* those whose option "secure" is set
          MaxFds,        \* the most descriptors left for connections
          MaxPool,       \* bound: nulls are not pushed above this length
          MaxSignals     \* bound: how many signals arrive

ASSUME ServerAssumption ==
    /\ Listeners # {} /\ TlsListeners \subseteq Listeners
    /\ IsFiniteSet(Sockets)
    /\ MaxFds \in Nat \ {0} /\ MaxPool \in Nat /\ MaxSignals \in Nat

VARIABLES
    mainPc,   \* main's place
    mainArg,  \* the unique_ptr that WaitClients makes and main pushes
    ready,    \* the listener WaitClients found ready
    stopped,  \* stopSource.stop_requested()
    signals,  \* signals so far
    pc,       \* each worker's place; held and pool are SocketPool's
    bound,    \* listeners that are open
    backlog,  \* backlog[l]: connections the kernel keeps for accept
    fresh,    \* clients that have not connected yet
    open,     \* accepted connections whose descriptor is open
    tls,      \* accepted connections wrapped in a TLSSocket
    late,     \* history: connections accepted after the stop
    limit     \* descriptors left for connections (RLIMIT_NOFILE)

main == <<mainPc, mainArg, ready>>
clients == <<backlog, fresh>>
fds == <<open, tls, late, limit>>
vars == <<poolVars, main, stopped, signals, pc, bound, clients, fds>>

MainPcs == {"bind", "create", "enter", "epoll", "accept", "handshake", "push",
            "test", "join", "unwind", "exitJoin", "exited", "killed"}
WorkerPcs == {"unborn", "get", "got", "serve", "ended"}

Init ==
    /\ PoolInit
    /\ mainPc = "bind" /\ mainArg = NullPtr /\ ready \in Listeners
    /\ stopped = FALSE /\ signals = 0
    /\ pc = [w \in Workers |-> "unborn"]
    /\ bound = {} /\ backlog = [l \in Listeners |-> {}] /\ fresh = Sockets
    /\ open = {} /\ tls = {} /\ late = {} /\ limit \in 1..MaxFds

AllEnded == \A w \in Workers : pc[w] \in {"unborn", "ended"}
StackGone == mainPc \in {"exitJoin", "exited", "killed"}
Waiting(l) == backlog[l] # {}

\* A unique_ptr is destroyed: ~ClientSocket closes the descriptor,
\* ~TLSSocket frees the SSL object only.
StillOpen(destroyed) == open \ (destroyed \ tls)

-----------------------------------------------------------------------------
(* main.cpp 42-65: listen on every address, start the workers.             *)

MainGoes(from, to) == mainPc = from /\ mainPc' = to

Bind ==
    /\ mainPc = "bind"
    /\ \/ /\ \E l \in Listeners \ bound : bound' = bound \cup {l}
          /\ UNCHANGED mainPc
       \/ bound = Listeners /\ mainPc' = "create" /\ UNCHANGED bound
    /\ UNCHANGED <<poolVars, mainArg, ready, stopped, signals, pc, clients, fds>>

\* socket, inet_pton, bind or epoll_ctl fail: NetException.
BindFails ==
    /\ MainGoes("bind", "unwind")
    /\ bound # Listeners
    /\ UNCHANGED <<poolVars, mainArg, ready, stopped, signals, pc, bound, clients, fds>>

CreateThread ==
    /\ mainPc = "create"
    /\ \/ \E w \in Workers : /\ pc[w] = "unborn"
                             /\ pc' = [pc EXCEPT ![w] = "get"]
                             /\ UNCHANGED mainPc
       \/ /\ \A w \in Workers : pc[w] # "unborn"
          /\ mainPc' = "enter"
          /\ UNCHANGED pc
    /\ UNCHANGED <<poolVars, mainArg, ready, stopped, signals, bound, clients, fds>>

\* std::thread's constructor throws system_error when there is no thread.
CreateFails ==
    /\ MainGoes("create", "unwind")
    /\ \E w \in Workers : pc[w] = "unborn"
    /\ UNCHANGED <<poolVars, mainArg, ready, stopped, signals, pc, bound, clients, fds>>

-----------------------------------------------------------------------------
(* WaitClients and Acceptor: one connection per call.                      *)

\* From here on main sleeps in the kernel: a signal that came before this
\* step does not wake it.
EnterEpoll ==
    /\ MainGoes("enter", "epoll")
    /\ UNCHANGED <<poolVars, mainArg, ready, stopped, signals, pc, bound, clients, fds>>


\* Mutant: only the first listener is looked up.
EpollReturns_FirstListener ==
    /\ MainGoes("epoll", "accept")
    /\ LET l == CHOOSE first \in Listeners : TRUE
       IN  l \in bound /\ Waiting(l) /\ ready' = l
    /\ UNCHANGED <<poolVars, mainArg, stopped, signals, pc, bound, clients, fds>>

EpollReturns ==
    /\ MainGoes("epoll", "accept")
    /\ \E l \in bound : Waiting(l) /\ ready' = l
    /\ UNCHANGED <<poolVars, mainArg, stopped, signals, pc, bound, clients, fds>>


\* Mutant: a ~TLSSocket that closes, run for the unused TLSSocket of line 23.
Accept_ClosedTwice ==
    /\ MainGoes("accept", IF ready \in TlsListeners THEN "handshake" ELSE "push")
    /\ Cardinality(open) < limit
    /\ \E s \in backlog[ready] :
         /\ backlog' = [backlog EXCEPT ![ready] = @ \ {s}]
         /\ mainArg' = s
         /\ open' = IF ready \in TlsListeners THEN open ELSE open \cup {s}
         /\ UNCHANGED <<tls, late, limit>>
    /\ UNCHANGED <<poolVars, ready, stopped, signals, pc, bound, fresh>>

Accept ==
    /\ MainGoes("accept", IF ready \in TlsListeners THEN "handshake" ELSE "push")
    /\ Cardinality(open) < limit
    /\ \E s \in backlog[ready] :
         /\ backlog' = [backlog EXCEPT ![ready] = @ \ {s}]
         /\ mainArg' = s
         /\ open' = open \cup {s}
         /\ tls' = IF ready \in TlsListeners THEN tls \cup {s} ELSE tls
         /\ late' = IF stopped THEN late \cup {s} ELSE late
    /\ UNCHANGED <<poolVars, ready, stopped, signals, pc, bound, fresh, limit>>


\* accept returns EMFILE: a null, and the client stays in the backlog.
AcceptFails ==
    /\ MainGoes("accept", "push")
    /\ Cardinality(open) >= limit
    /\ stopped \/ Len(pool) < MaxPool
    /\ UNCHANGED <<poolVars, mainArg, ready, stopped, signals, pc, bound, clients, fds>>

\* The process dies, and the kernel takes back what it had.
Die ==
    /\ mainPc' = "killed" /\ mainArg' = NullPtr
    /\ pc' = [v \in Workers |-> "ended"]
    /\ closed' = closed \cup ((ToSet(pool) \cup {held[v] : v \in Workers}) \ {NullPtr})
    /\ pool' = <<>> /\ held' = [v \in Workers |-> NullPtr]
    /\ open' = {} /\ bound' = {} /\ backlog' = [l \in Listeners |-> {}]
    /\ UNCHANGED <<arriving, ready, stopped, signals, fresh, tls, late, limit>>

\* SSL_accept writes with write(2): SIGPIPE if the client has reset.
HandshakeSigpipe == mainPc = "handshake" /\ Die

\* SSL_accept blocks main until the client answers; after a failure the
\* TLSSocket is destroyed and a null returned.
Handshake ==
    /\ MainGoes("handshake", "push")
    /\ mainArg' \in {mainArg, NullPtr}
    /\ open' = IF mainArg' = NullPtr THEN StillOpen({mainArg}) ELSE open
    /\ UNCHANGED <<poolVars, ready, stopped, signals, pc, bound, clients, tls, late, limit>>

Push ==
    /\ MainGoes("push", "test")
    /\ Add(mainArg)
    /\ mainArg' = NullPtr
    /\ UNCHANGED <<ready, stopped, signals, pc, bound, clients, fds>>


\* Mutant: the loop does not look at the flag.
LoopTest_Forever ==
    /\ MainGoes("test", "enter")
    /\ UNCHANGED <<poolVars, mainArg, ready, stopped, signals, pc, bound, clients, fds>>

LoopTest ==
    /\ MainGoes("test", IF stopped THEN "join" ELSE "enter")
    /\ UNCHANGED <<poolVars, mainArg, ready, stopped, signals, pc, bound, clients, fds>>

-----------------------------------------------------------------------------
(* The two ways out.                                                       *)

\* ~ThreadSafeStack, then ~Server: the sockets in the stack are destroyed,
\* the listeners closed and their backlogs reset.
DestroyLocals ==
    /\ IF pool = <<>> THEN UNCHANGED poolVars ELSE Destroy
    /\ open' = StillOpen(ToSet(pool))
    /\ bound' = {}
    /\ backlog' = [l \in Listeners |-> {}]
    /\ UNCHANGED <<mainArg, ready, stopped, signals, pc, fresh, tls, late, limit>>


\* Mutant: main does not join the threads.
Join_NoWait ==
    /\ MainGoes("join", "exited")
    /\ DestroyLocals

Join ==
    /\ MainGoes("join", "exited")
    /\ AllEnded
    /\ DestroyLocals

\* ~condition_variable lets main go at a moment when no worker sleeps in it:
\* at any time, then, but only surely when workers do not keep coming back.
Unwind ==
    /\ MainGoes("unwind", "exitJoin")
    /\ DestroyLocals

\* exit() destroys the global vector of jthreads, which joins them.
ExitJoin ==
    /\ MainGoes("exitJoin", "exited")
    /\ AllEnded
    /\ UNCHANGED <<poolVars, mainArg, ready, stopped, signals, pc, bound, clients, fds>>

-----------------------------------------------------------------------------
(* Signals.  epoll_wait fails with EINTR unless a connection is ready too. *)

Interrupted == \/ mainPc = "epoll" /\ mainPc' = "unwind"
               \/ /\ mainPc = "epoll" => \E l \in bound : Waiting(l)
                  /\ UNCHANGED mainPc

\* SIGINT.  exit() destroys stopSource before it joins the threads: a late
\* request_stop may still reach the workers or do nothing.
Sigint ==
    /\ signals < MaxSignals
    /\ mainPc \notin {"exited", "killed"}
    /\ signals' = signals + 1
    /\ \/ stopped' = TRUE
       \/ mainPc = "exitJoin" /\ UNCHANGED stopped
    /\ Interrupted
    /\ UNCHANGED <<poolVars, mainArg, ready, pc, bound, clients, fds>>

\* SIGSTOP then SIGCONT: no handler runs, but epoll_wait still fails.
StopAndContinue ==
    /\ signals < MaxSignals
    /\ mainPc = "epoll"
    /\ signals' = signals + 1
    /\ Interrupted
    /\ UNCHANGED <<poolVars, mainArg, ready, stopped, pc, bound, clients, fds>>

Connect ==
    /\ \E s \in fresh, l \in bound :
         /\ fresh' = fresh \ {s}
         /\ backlog' = [backlog EXCEPT ![l] = @ \cup {s}]
    /\ UNCHANGED <<poolVars, main, stopped, signals, pc, bound, fds>>

-----------------------------------------------------------------------------
(* Worker.cpp 68-135.                                                      *)

WorkerGoes(w, from, to) == pc[w] = from /\ pc' = [pc EXCEPT ![w] = to]


GetSocket(w) ==
    /\ WorkerGoes(w, "get", "got")
    /\ ~StackGone
    /\ \/ ~stopped /\ Take(w)
       \/ (stopped \/ pool = <<>>) /\ UNCHANGED poolVars
    /\ UNCHANGED <<main, stopped, signals, bound, clients, fds>>

\* The stack is destroyed, the call on it undefined: it may come back with
\* nothing, or crash, or never come back (it is not fair).
GetSocketDangling(w) ==
    /\ mainPc = "exitJoin"
    /\ \/ /\ WorkerGoes(w, "get", "got")
          /\ UNCHANGED <<poolVars, main, stopped, signals, bound, clients, fds>>
       \/ pc[w] = "get" /\ Die

\* socket goes out of scope.
Release(w) ==
    /\ IF held[w] = NullPtr THEN UNCHANGED poolVars ELSE Close(w)
    /\ open' = StillOpen({held[w]})
    /\ UNCHANGED <<main, stopped, signals, bound, clients, tls, late, limit>>


\* Mutant: the flag is not tested after GetSocket.
Got_NoStopTest(w) ==
    /\ WorkerGoes(w, "got", IF held[w] = NullPtr THEN "get" ELSE "serve")
    /\ UNCHANGED <<poolVars, main, stopped, signals, bound, clients, fds>>

Got(w) ==
    \/ stopped /\ WorkerGoes(w, "got", "ended") /\ Release(w)
    \/ /\ ~stopped
       /\ WorkerGoes(w, "got", IF held[w] = NullPtr THEN "get" ELSE "serve")
       /\ UNCHANGED <<poolVars, main, stopped, signals, bound, clients, fds>>

\* The connection is over, or the flag was seen between two requests.
EndServe(w) ==
    /\ WorkerGoes(w, "serve", IF stopped THEN "ended" ELSE "get")
    /\ Release(w)

\* An exception out of Parse, IsKeepAlive or ProcessGET ends the thread.
Throw(w) ==
    /\ WorkerGoes(w, "serve", "ended")
    /\ Release(w)

\* SSL_write to a client that has reset: SIGPIPE has its default action.
Sigpipe(w) == pc[w] = "serve" /\ held[w] \in tls /\ Die

-----------------------------------------------------------------------------
MainStep ==
    \/ Bind \/ CreateThread \/ EnterEpoll \/ EpollReturns \/ Accept \/ AcceptFails
    \/ Push \/ LoopTest \/ Join \/ ExitJoin

Failure == BindFails \/ CreateFails

Environment == Handshake \/ HandshakeSigpipe \/ Sigint \/ StopAndContinue \/ Connect

Next ==
    \/ MainStep \/ Unwind \/ Failure \/ Environment
    \/ \E w \in Workers :
         GetSocket(w) \/ GetSocketDangling(w) \/ Got(w) \/ EndServe(w) \/ Throw(w)
         \/ Sigpipe(w)

(***************************************************************************)
(* Fairness: main and the workers run when they can.  A connection is only *)
(* sure to end after the stop; clients, signals and a call on a destroyed  *)
(* stack owe nothing.  The stack's destructor is sure to return after a    *)
(* stop (DestructorReturns in ThreadSafeStack) or when nobody is in it.    *)
(***************************************************************************)
StackLeft == stopped \/ \A w \in Workers : pc[w] # "get"

Fairness ==
    /\ WF_vars(MainStep)
    /\ WF_vars(StackLeft /\ Unwind)
    /\ \A w \in Workers : WF_vars(GetSocket(w) \/ Got(w))
    /\ \A w \in Workers : WF_vars(stopped /\ EndServe(w))

Spec == Init /\ [][Next]_vars /\ Fairness

-----------------------------------------------------------------------------
(* Properties.                                                             *)

TypeOK ==
    /\ mainPc \in MainPcs
    /\ mainArg \in Sockets \cup {NullPtr}
    /\ ready \in Listeners
    /\ stopped \in BOOLEAN /\ signals \in 0..MaxSignals
    /\ pc \in [Workers -> WorkerPcs]
    /\ bound \subseteq Listeners
    /\ backlog \in [Listeners -> SUBSET Sockets]
    /\ fresh \subseteq Sockets /\ arriving \subseteq Sockets
    /\ pool \in Seq(Sockets \cup {NullPtr})
    /\ held \in [Workers -> Sockets \cup {NullPtr}]
    /\ closed \subseteq Sockets
    /\ open \subseteq Sockets /\ tls \subseteq Sockets /\ late \subseteq Sockets
    /\ limit \in 1..MaxFds

InBacklog(s) == \E l \in Listeners : s \in backlog[l]
InPool(s) == \E i \in DOMAIN pool : pool[i] = s

\* Who owns the unique_ptr of connection s.
Holders(s) ==
    {"main" : m \in {mainArg} \cap {s}}
    \cup {<<"pool", i>> : i \in {j \in DOMAIN pool : pool[j] = s}}
    \cup {<<"worker", w>> : w \in {v \in Workers : held[v] = s}}

(* Nobody holds a connection whose descriptor is closed or that somebody   *)
(* else holds, and a plain connection keeps its descriptor only as long as *)
(* it has a holder, on every path: failed accepts, the stop, an exception  *)
(* in a worker, and main leaving through an exception.                     *)
DescriptorOwned ==
    TypeOK /\ \A s \in Sockets :
        /\ Cardinality(Holders(s)) <= 1
        /\ Holders(s) # {} => s \in open
        /\ s \in open \ tls => Holders(s) # {}

(* When the process is about to end every worker has ended, the stack is   *)
(* empty, and the only descriptors left open are those of TLS connections. *)
CleanExit ==
    mainPc = "exited" => AllEnded /\ pool = <<>> /\ open \subseteq tls

(* After the stop main accepts at most one more connection.                *)
AtMostOneLate == Cardinality(late) <= 1

(* After SIGINT, or when main leaves through an exception, the process     *)
(* ends, by itself or by SIGPIPE or a crash, unless: the signal came just  *)
(* before epoll_wait and no client ever connects again; a TLS client is    *)
(* silent in its handshake; a worker is lost in the destroyed stack; or    *)
(* nobody requests the stop and main waits for workers that run on.        *)
ProcessEnds ==
    <>(stopped \/ mainPc = "unwind") =>
        \/ <>(mainPc \in {"exited", "killed"})
        \/ <>[](mainPc = "epoll" /\ \A l \in Listeners : ~Waiting(l))
        \/ <>[](mainPc = "handshake")
        \/ <>[](StackGone /\ \E w \in Workers : pc[w] = "get")
        \/ <>[](~stopped /\ mainPc \in {"unwind", "exitJoin"} /\ ~AllEnded)

(* A client waits in a backlog for ever only behind a silent TLS handshake,*)
(* or when no descriptor is left, or when an exception without a stop has  *)
(* main wait in the stack's destructor, with the listeners still open.     *)
ClientAccepted ==
    \A s \in Sockets :
        <>[]InBacklog(s) =>
            \/ <>[](mainPc = "handshake")
            \/ <>[](Cardinality(open) >= limit)
            \/ <>[](mainPc = "unwind" /\ ~stopped)

(* An accepted connection stays in the stack for ever only when each       *)
(* worker is busy for ever or was ended by an exception.                   *)
ClientTaken ==
    \A s \in Sockets :
        <>[]InPool(s) => <>[](\A w \in Workers : pc[w] \in {"serve", "ended"})

(* Together: where a client can be left waiting, and why.                  *)
ClientServed == ClientAccepted /\ ClientTaken

(* What Worker.cpp 120 logs and the 404 response says, "Connection: close":*)
(* a connection the server is done with is closed.                         *)
ClosedIsClosed == closed \cap open = {}
=============================================================================
