------------------------ MODULE SmallHttpServerProofs ------------------------
(***************************************************************************)
(* Proofs about the whole process, SmallHttpServer, for any number of      *)
(* workers, listeners, clients and descriptors and any number of signals.  *)
(***************************************************************************)
EXTENDS SmallHttpServer, SequenceLemmas, FiniteSetTheorems, TLAPS

-----------------------------------------------------------------------------
(* The inductive invariant.                                                *)

\* Who may have a pointer that is not null, and where nobody has one.
PointerInv ==
    /\ mainArg # NullPtr => mainPc \in {"handshake", "push"}
    /\ \A w \in Workers : held[w] # NullPtr => pc[w] \in {"got", "serve"}
    /\ StackGone => pool = <<>>
    /\ mainPc \in {"exited", "killed"} => AllEnded

WithWorker(s) == \E w \in Workers : held[w] = s
Arriving(s) == s \in fresh \/ InBacklog(s)

\* A client that was not accepted is in one place, and nobody holds it.
ArrivalInv ==
    \A s \in Sockets :
        /\ ~(s \in fresh /\ InBacklog(s))
        /\ \A k, l \in Listeners : s \in backlog[k] /\ s \in backlog[l] => k = l
        /\ Arriving(s) => mainArg # s /\ ~InPool(s) /\ ~WithWorker(s)

\* A connection has one holder, who finds its descriptor open, and only a
\* TLS connection is left open without one.
OwnerInv ==
    \A s \in Sockets :
        /\ mainArg = s => s \in open /\ ~InPool(s) /\ ~WithWorker(s)
        /\ InPool(s) => s \in open /\ ~WithWorker(s)
        /\ WithWorker(s) => s \in open
        /\ \A i, j \in DOMAIN pool : pool[i] = s /\ pool[j] = s => i = j
        /\ \A v, w \in Workers : held[v] = s /\ held[w] = s => v = w
        /\ s \in open \ tls => mainArg = s \/ InPool(s) \/ WithWorker(s)

\* main has accepted after the stop: it will not wait in epoll again.
LateInv ==
    /\ late # {} => stopped /\ mainPc \in {"handshake", "push", "test", "join", "exited", "killed"}
    /\ \A r, s \in late : r = s

ServerInv == PointerInv /\ ArrivalInv /\ OwnerInv /\ LateInv
-----------------------------------------------------------------------------
(* Every step keeps the types: what a worker closes was a socket, and what *)
(* leaves the stack is a pointer.                                          *)
LEMMA TypeStep ==
    ASSUME TypeOK, [Next]_vars
    PROVE  TypeOK'
<1> USE PoolAssumption, ServerAssumption DEF TypeOK, MainPcs, WorkerPcs, StillOpen, poolVars, main, clients, fds, MainGoes, WorkerGoes
<1>seq. /\ \A e \in Sockets \cup {NullPtr} : Append(pool, e) \in Seq(Sockets \cup {NullPtr})
        /\ pool # <<>> => Last(pool) \in Sockets \cup {NullPtr}
        /\ pool # <<>> => Front(pool) \in Seq(Sockets \cup {NullPtr})
        /\ ToSet(pool) \subseteq Sockets \cup {NullPtr}
        /\ <<>> \in Seq(Sockets \cup {NullPtr})
    BY SequenceFacts, EmptySeq
<1>d. ASSUME Die PROVE TypeOK'
    BY <1>d, <1>seq DEF Die
<1>1. CASE MainStep
    <2>1. CASE Bind
        BY <2>1 DEF Bind
    <2>2. CASE CreateThread
        BY <2>2 DEF CreateThread
    <2>3. CASE EnterEpoll
        BY <2>3 DEF EnterEpoll
    <2>4. CASE EpollReturns
        BY <2>4 DEF EpollReturns
    <2>5. CASE Accept
        BY <2>5 DEF Accept
    <2>6. CASE AcceptFails
        BY <2>6 DEF AcceptFails
    <2>7. CASE Push
        BY <2>7, <1>seq DEF Push, Add
    <2>8. CASE LoopTest
        BY <2>8 DEF LoopTest
    <2>9. CASE Join
        BY <2>9, <1>seq DEF Join, DestroyLocals, Destroy
    <2>10. CASE ExitJoin
        BY <2>10 DEF ExitJoin
    <2>11. QED BY <1>1, <2>1, <2>2, <2>3, <2>4, <2>5, <2>6, <2>7, <2>8, <2>9, <2>10 DEF MainStep
<1>u. CASE Unwind
    BY <1>u, <1>seq DEF Unwind, DestroyLocals, Destroy
<1>2. CASE Failure
    <2>1. CASE BindFails
        BY <2>1 DEF BindFails
    <2>2. CASE CreateFails
        BY <2>2 DEF CreateFails
    <2>3. QED BY <1>2, <2>1, <2>2 DEF Failure
<1>3. CASE Environment
    <2>1. CASE Handshake
        BY <2>1 DEF Handshake
    <2>2. CASE Sigint
        <3>1. CASE stopped' = TRUE
            BY <2>2, <3>1 DEF Sigint, Interrupted
        <3>2. CASE stopped' = stopped
            BY <2>2, <3>2 DEF Sigint, Interrupted
        <3>3. QED BY <2>2, <3>1, <3>2, Zenon DEF Sigint
    <2>3. CASE StopAndContinue
        BY <2>3 DEF StopAndContinue, Interrupted
    <2>4. CASE Connect
        BY <2>4 DEF Connect
    <2>5. CASE HandshakeSigpipe
        BY <2>5, <1>d DEF HandshakeSigpipe
    <2>6. QED BY <1>3, <2>1, <2>2, <2>3, <2>4, <2>5 DEF Environment
<1>4. ASSUME NEW w \in Workers, GetSocket(w) PROVE TypeOK'
    BY <1>4, <1>seq DEF GetSocket, Take
<1>5. ASSUME NEW w \in Workers, GetSocketDangling(w) PROVE TypeOK'
    BY <1>5, <1>d DEF GetSocketDangling
<1>6. ASSUME NEW w \in Workers, Got(w) PROVE TypeOK'
    BY <1>6 DEF Got, Release, Close
<1>7. ASSUME NEW w \in Workers, EndServe(w) PROVE TypeOK'
    BY <1>7 DEF EndServe, Release, Close
<1>8. ASSUME NEW w \in Workers, Throw(w) PROVE TypeOK'
    BY <1>8 DEF Throw, Release, Close
<1>9. ASSUME NEW w \in Workers, Sigpipe(w) PROVE TypeOK'
    BY <1>9, <1>d DEF Sigpipe
<1>10. CASE UNCHANGED vars
    BY <1>10 DEF vars
<1>11. QED
    BY <1>1, <1>u, <1>2, <1>3, <1>4, <1>5, <1>6, <1>7, <1>8, <1>9, <1>10 DEF Next

(* What is where in the stack, before and after a push and a take.         *)
LEMMA PoolFacts ==
    ASSUME TypeOK
    PROVE  /\ DOMAIN <<>> = {}
           /\ ToSet(pool) = {pool[i] : i \in DOMAIN pool}
           /\ \E n : /\ n \notin DOMAIN pool
                     /\ DOMAIN Append(pool, mainArg) = DOMAIN pool \cup {n}
                     /\ Append(pool, mainArg)[n] = mainArg
                     /\ \A i \in DOMAIN pool : Append(pool, mainArg)[i] = pool[i]
           /\ pool # <<>> => /\ Len(pool) \in DOMAIN pool
                             /\ Last(pool) = pool[Len(pool)]
                             /\ DOMAIN Front(pool) = DOMAIN pool \ {Len(pool)}
                             /\ \A i \in DOMAIN Front(pool) : Front(pool)[i] = pool[i]
<1>1. pool \in Seq(Sockets \cup {NullPtr}) /\ mainArg \in Sockets \cup {NullPtr}
    BY DEF TypeOK
<1>2. /\ DOMAIN <<>> = {}
      /\ ToSet(pool) = {pool[i] : i \in DOMAIN pool}
      /\ pool # <<>> => /\ Len(pool) \in DOMAIN pool
                        /\ Last(pool) = pool[Len(pool)]
                        /\ DOMAIN Front(pool) = DOMAIN pool \ {Len(pool)}
                        /\ \A i \in DOMAIN Front(pool) : Front(pool)[i] = pool[i]
    BY <1>1, PlaceFacts
<1>3. /\ Len(pool) + 1 \notin DOMAIN pool
      /\ DOMAIN Append(pool, mainArg) = DOMAIN pool \cup {Len(pool) + 1}
      /\ Append(pool, mainArg)[Len(pool) + 1] = mainArg
      /\ \A i \in DOMAIN pool : Append(pool, mainArg)[i] = pool[i]
    BY <1>1, AppendPlaces
<1> HIDE DEF TypeOK
<1>4. QED BY <1>2, <1>3, Zenon

(* Every step leaves no pointer behind: neither with main outside of its   *)
(* two calls, nor with a worker that is not serving, nor in a stack that   *)
(* is destroyed.                                                           *)
LEMMA PointerStep ==
    ASSUME TypeOK, PointerInv, [Next]_vars
    PROVE  PointerInv'
<1> USE PoolAssumption, ServerAssumption DEF TypeOK, MainPcs, WorkerPcs, PointerInv, AllEnded, StackGone, poolVars, main, clients, fds, MainGoes, WorkerGoes
<1>d. ASSUME Die PROVE PointerInv'
    BY <1>d DEF Die
<1>1. CASE MainStep
    <2>1. CASE Bind
        BY <2>1 DEF Bind
    <2>2. CASE CreateThread
        BY <2>2 DEF CreateThread
    <2>3. CASE EnterEpoll
        BY <2>3 DEF EnterEpoll
    <2>4. CASE EpollReturns
        BY <2>4 DEF EpollReturns
    <2>5. CASE Accept
        BY <2>5 DEF Accept
    <2>6. CASE AcceptFails
        BY <2>6 DEF AcceptFails
    <2>7. CASE Push
        BY <2>7 DEF Push, Add
    <2>8. CASE LoopTest
        BY <2>8 DEF LoopTest
    <2>9. CASE Join
        BY <2>9 DEF Join, DestroyLocals, Destroy
    <2>10. CASE ExitJoin
        BY <2>10 DEF ExitJoin
    <2>11. QED BY <1>1, <2>1, <2>2, <2>3, <2>4, <2>5, <2>6, <2>7, <2>8, <2>9, <2>10 DEF MainStep
<1>u. CASE Unwind
    BY <1>u DEF Unwind, DestroyLocals, Destroy
<1>2. CASE Failure
    <2>1. CASE BindFails
        BY <2>1 DEF BindFails
    <2>2. CASE CreateFails
        BY <2>2 DEF CreateFails
    <2>3. QED BY <1>2, <2>1, <2>2 DEF Failure
<1>3. CASE Environment
    <2>1. CASE Handshake
        BY <2>1 DEF Handshake
    <2>2. CASE Sigint
        BY <2>2 DEF Sigint, Interrupted
    <2>3. CASE StopAndContinue
        BY <2>3 DEF StopAndContinue, Interrupted
    <2>4. CASE Connect
        BY <2>4 DEF Connect
    <2>5. CASE HandshakeSigpipe
        BY <2>5, <1>d DEF HandshakeSigpipe
    <2>6. QED BY <1>3, <2>1, <2>2, <2>3, <2>4, <2>5 DEF Environment
<1>4. ASSUME NEW w \in Workers, GetSocket(w) PROVE PointerInv'
    BY <1>4 DEF GetSocket, Take
<1>5. ASSUME NEW w \in Workers, GetSocketDangling(w) PROVE PointerInv'
    BY <1>5, <1>d DEF GetSocketDangling
<1>6. ASSUME NEW w \in Workers, Got(w) PROVE PointerInv'
    BY <1>6 DEF Got, Release, Close
<1>7. ASSUME NEW w \in Workers, EndServe(w) PROVE PointerInv'
    BY <1>7 DEF EndServe, Release, Close
<1>8. ASSUME NEW w \in Workers, Throw(w) PROVE PointerInv'
    BY <1>8 DEF Throw, Release, Close
<1>9. ASSUME NEW w \in Workers, Sigpipe(w) PROVE PointerInv'
    BY <1>9, <1>d DEF Sigpipe
<1>10. CASE UNCHANGED vars
    BY <1>10 DEF vars
<1>11. QED
    BY <1>1, <1>u, <1>2, <1>3, <1>4, <1>5, <1>6, <1>7, <1>8, <1>9, <1>10 DEF Next

(* Every step keeps a client that waits apart from those that are held.    *)
LEMMA ArrivalStep ==
    ASSUME TypeOK, ArrivalInv, [Next]_vars
    PROVE  ArrivalInv'
<1> USE PoolAssumption, ServerAssumption DEF TypeOK, MainPcs, WorkerPcs, ArrivalInv, Arriving, WithWorker, InBacklog, InPool, poolVars, main, clients, fds, MainGoes, WorkerGoes
<1>d. ASSUME Die PROVE ArrivalInv'
    BY <1>d, PoolFacts DEF Die
<1>1. CASE MainStep
    <2>1. CASE Bind
        BY <2>1 DEF Bind
    <2>2. CASE CreateThread
        BY <2>2 DEF CreateThread
    <2>3. CASE EnterEpoll
        BY <2>3 DEF EnterEpoll
    <2>4. CASE EpollReturns
        BY <2>4 DEF EpollReturns
    <2>5. CASE Accept
        BY <2>5 DEF Accept
    <2>6. CASE AcceptFails
        BY <2>6 DEF AcceptFails
    <2>7. CASE Push
        BY <2>7, PoolFacts DEF Push, Add
    <2>8. CASE LoopTest
        BY <2>8 DEF LoopTest
    <2>9. CASE Join
        BY <2>9, PoolFacts DEF Join, DestroyLocals, Destroy
    <2>10. CASE ExitJoin
        BY <2>10 DEF ExitJoin
    <2>11. QED BY <1>1, <2>1, <2>2, <2>3, <2>4, <2>5, <2>6, <2>7, <2>8, <2>9, <2>10 DEF MainStep
<1>u. CASE Unwind
    BY <1>u, PoolFacts DEF Unwind, DestroyLocals, Destroy
<1>2. CASE Failure
    <2>1. CASE BindFails
        BY <2>1 DEF BindFails
    <2>2. CASE CreateFails
        BY <2>2 DEF CreateFails
    <2>3. QED BY <1>2, <2>1, <2>2 DEF Failure
<1>3. CASE Environment
    <2>1. CASE Handshake
        BY <2>1 DEF Handshake
    <2>2. CASE Sigint
        BY <2>2 DEF Sigint, Interrupted
    <2>3. CASE StopAndContinue
        BY <2>3 DEF StopAndContinue, Interrupted
    <2>4. CASE Connect
        BY <2>4 DEF Connect
    <2>5. CASE HandshakeSigpipe
        BY <2>5, <1>d DEF HandshakeSigpipe
    <2>6. QED BY <1>3, <2>1, <2>2, <2>3, <2>4, <2>5 DEF Environment
<1>4. ASSUME NEW w \in Workers, GetSocket(w) PROVE ArrivalInv'
    BY <1>4, PoolFacts DEF GetSocket, Take
<1>5. ASSUME NEW w \in Workers, GetSocketDangling(w) PROVE ArrivalInv'
    BY <1>5, <1>d DEF GetSocketDangling
<1>6. ASSUME NEW w \in Workers, Got(w) PROVE ArrivalInv'
    BY <1>6 DEF Got, Release, Close
<1>7. ASSUME NEW w \in Workers, EndServe(w) PROVE ArrivalInv'
    BY <1>7 DEF EndServe, Release, Close
<1>8. ASSUME NEW w \in Workers, Throw(w) PROVE ArrivalInv'
    BY <1>8 DEF Throw, Release, Close
<1>9. ASSUME NEW w \in Workers, Sigpipe(w) PROVE ArrivalInv'
    BY <1>9, <1>d DEF Sigpipe
<1>10. CASE UNCHANGED vars
    BY <1>10 DEF vars
<1>11. QED
    BY <1>1, <1>u, <1>2, <1>3, <1>4, <1>5, <1>6, <1>7, <1>8, <1>9, <1>10 DEF Next

(* Every step keeps one holder and its descriptor: accept adds both, and   *)
(* who destroys a pointer was alone in holding it.                         *)
LEMMA OwnerStep ==
    ASSUME TypeOK, PointerInv, ArrivalInv, OwnerInv, [Next]_vars
    PROVE  OwnerInv'
<1> USE PoolAssumption, ServerAssumption DEF TypeOK, MainPcs, WorkerPcs, ArrivalInv, Arriving, InBacklog, OwnerInv, WithWorker, InPool, StillOpen, poolVars, main, clients, fds, MainGoes, WorkerGoes
<1>d. ASSUME Die PROVE OwnerInv'
    BY <1>d, PoolFacts DEF Die
<1>1. CASE MainStep
    <2>1. CASE Bind
        BY <2>1 DEF Bind
    <2>2. CASE CreateThread
        BY <2>2 DEF CreateThread
    <2>3. CASE EnterEpoll
        BY <2>3 DEF EnterEpoll
    <2>4. CASE EpollReturns
        BY <2>4 DEF EpollReturns
    <2>5. CASE Accept
        <3>1. PICK s \in Sockets : /\ s \in backlog[ready]
                                   /\ mainArg' = s /\ open' = open \cup {s}
            BY <2>5 DEF Accept
        <3>2. mainArg = NullPtr /\ tls \subseteq tls'
            BY <2>5 DEF Accept, PointerInv
        <3>3. ~InPool(s) /\ ~WithWorker(s)
            BY <3>1
        <3>4. UNCHANGED <<pool, held>>
            BY <2>5 DEF Accept
        <3>5. QED BY <3>1, <3>2, <3>3, <3>4
    <2>6. CASE AcceptFails
        BY <2>6 DEF AcceptFails
    <2>7. CASE Push
        BY <2>7, PoolFacts DEF Push, Add
    <2>8. CASE LoopTest
        BY <2>8 DEF LoopTest
    <2>9. CASE Join
        BY <2>9, PoolFacts DEF Join, DestroyLocals, Destroy
    <2>10. CASE ExitJoin
        BY <2>10 DEF ExitJoin
    <2>11. QED BY <1>1, <2>1, <2>2, <2>3, <2>4, <2>5, <2>6, <2>7, <2>8, <2>9, <2>10 DEF MainStep
<1>u. CASE Unwind
    BY <1>u, PoolFacts DEF Unwind, DestroyLocals, Destroy
<1>2. CASE Failure
    <2>1. CASE BindFails
        BY <2>1 DEF BindFails
    <2>2. CASE CreateFails
        BY <2>2 DEF CreateFails
    <2>3. QED BY <1>2, <2>1, <2>2 DEF Failure
<1>3. CASE Environment
    <2>1. CASE Handshake
        BY <2>1 DEF Handshake
    <2>2. CASE Sigint
        BY <2>2 DEF Sigint, Interrupted
    <2>3. CASE StopAndContinue
        BY <2>3 DEF StopAndContinue, Interrupted
    <2>4. CASE Connect
        BY <2>4 DEF Connect
    <2>5. CASE HandshakeSigpipe
        BY <2>5, <1>d DEF HandshakeSigpipe
    <2>6. QED BY <1>3, <2>1, <2>2, <2>3, <2>4, <2>5 DEF Environment
<1>4. ASSUME NEW w \in Workers, GetSocket(w) PROVE OwnerInv'
    BY <1>4, PoolFacts DEF GetSocket, Take
<1>5. ASSUME NEW w \in Workers, GetSocketDangling(w) PROVE OwnerInv'
    BY <1>5, <1>d DEF GetSocketDangling
<1>6. ASSUME NEW w \in Workers, Got(w) PROVE OwnerInv'
    BY <1>6 DEF Got, Release, Close
<1>7. ASSUME NEW w \in Workers, EndServe(w) PROVE OwnerInv'
    BY <1>7 DEF EndServe, Release, Close
<1>8. ASSUME NEW w \in Workers, Throw(w) PROVE OwnerInv'
    BY <1>8 DEF Throw, Release, Close
<1>9. ASSUME NEW w \in Workers, Sigpipe(w) PROVE OwnerInv'
    BY <1>9, <1>d DEF Sigpipe
<1>10. CASE UNCHANGED vars
    BY <1>10 DEF vars
<1>11. QED
    BY <1>1, <1>u, <1>2, <1>3, <1>4, <1>5, <1>6, <1>7, <1>8, <1>9, <1>10 DEF Next

(* Every step keeps main from a second late accept.                        *)
LEMMA LateStep ==
    ASSUME TypeOK, LateInv, [Next]_vars
    PROVE  LateInv'
<1> USE PoolAssumption, ServerAssumption DEF TypeOK, MainPcs, WorkerPcs, LateInv, StackGone, poolVars, main, clients, fds, MainGoes, WorkerGoes
<1>d. ASSUME Die PROVE LateInv'
    BY <1>d DEF Die
<1>1. CASE MainStep
    <2>1. CASE Bind
        BY <2>1 DEF Bind
    <2>2. CASE CreateThread
        BY <2>2 DEF CreateThread
    <2>3. CASE EnterEpoll
        BY <2>3 DEF EnterEpoll
    <2>4. CASE EpollReturns
        BY <2>4 DEF EpollReturns
    <2>5. CASE Accept
        BY <2>5 DEF Accept
    <2>6. CASE AcceptFails
        BY <2>6 DEF AcceptFails
    <2>7. CASE Push
        BY <2>7 DEF Push, Add
    <2>8. CASE LoopTest
        BY <2>8 DEF LoopTest
    <2>9. CASE Join
        BY <2>9 DEF Join, DestroyLocals, Destroy
    <2>10. CASE ExitJoin
        BY <2>10 DEF ExitJoin
    <2>11. QED BY <1>1, <2>1, <2>2, <2>3, <2>4, <2>5, <2>6, <2>7, <2>8, <2>9, <2>10 DEF MainStep
<1>u. CASE Unwind
    BY <1>u DEF Unwind, DestroyLocals, Destroy
<1>2. CASE Failure
    <2>1. CASE BindFails
        BY <2>1 DEF BindFails
    <2>2. CASE CreateFails
        BY <2>2 DEF CreateFails
    <2>3. QED BY <1>2, <2>1, <2>2 DEF Failure
<1>3. CASE Environment
    <2>1. CASE Handshake
        BY <2>1 DEF Handshake
    <2>2. CASE Sigint
        BY <2>2 DEF Sigint, Interrupted
    <2>3. CASE StopAndContinue
        BY <2>3 DEF StopAndContinue, Interrupted
    <2>4. CASE Connect
        BY <2>4 DEF Connect
    <2>5. CASE HandshakeSigpipe
        BY <2>5, <1>d DEF HandshakeSigpipe
    <2>6. QED BY <1>3, <2>1, <2>2, <2>3, <2>4, <2>5 DEF Environment
<1>4. ASSUME NEW w \in Workers, GetSocket(w) PROVE LateInv'
    BY <1>4 DEF GetSocket, Take
<1>5. ASSUME NEW w \in Workers, GetSocketDangling(w) PROVE LateInv'
    BY <1>5, <1>d DEF GetSocketDangling
<1>6. ASSUME NEW w \in Workers, Got(w) PROVE LateInv'
    BY <1>6 DEF Got, Release, Close
<1>7. ASSUME NEW w \in Workers, EndServe(w) PROVE LateInv'
    BY <1>7 DEF EndServe, Release, Close
<1>8. ASSUME NEW w \in Workers, Throw(w) PROVE LateInv'
    BY <1>8 DEF Throw, Release, Close
<1>9. ASSUME NEW w \in Workers, Sigpipe(w) PROVE LateInv'
    BY <1>9, <1>d DEF Sigpipe
<1>10. CASE UNCHANGED vars
    BY <1>10 DEF vars
<1>11. QED
    BY <1>1, <1>u, <1>2, <1>3, <1>4, <1>5, <1>6, <1>7, <1>8, <1>9, <1>10 DEF Next

-----------------------------------------------------------------------------
(* The invariant and what follows from it.                                 *)

(* The invariant holds in every state of every behaviour.                  *)
LEMMA Invariant == Spec => [](TypeOK /\ ServerInv)
<1>1. Init => TypeOK /\ ServerInv
    <2>1. Init => TypeOK
        <3>1. <<>> \in Seq(Sockets \cup {NullPtr})
            BY EmptySeq
        <3>2. Init => /\ held \in [Workers -> Sockets \cup {NullPtr}]
                      /\ pc \in [Workers -> WorkerPcs]
                      /\ backlog \in [Listeners -> SUBSET Sockets]
            BY DEF Init, PoolInit, WorkerPcs
        <3>3. Init => signals \in 0..MaxSignals
            BY ServerAssumption DEF Init
        <3>4. QED BY <3>1, <3>2, <3>3 DEF Init, PoolInit, TypeOK, MainPcs
    <2>2. Init => PointerInv /\ LateInv
        BY DEF Init, PoolInit, PointerInv, LateInv, StackGone
    <2>3. Init => ArrivalInv /\ OwnerInv
        BY PoolAssumption DEF Init, PoolInit, ArrivalInv, OwnerInv, Arriving, InBacklog, InPool, WithWorker
    <2>4. QED BY <2>1, <2>2, <2>3 DEF ServerInv
<1>2. (TypeOK /\ ServerInv) /\ [Next]_vars => (TypeOK /\ ServerInv)'
    BY TypeStep, PointerStep, ArrivalStep, OwnerStep, LateStep DEF ServerInv
<1>3. QED BY <1>1, <1>2, PTL DEF Spec

(* Whoever holds a connection is its only holder.                          *)
LEMMA OneHolder ==
    ASSUME TypeOK, OwnerInv, NEW s \in Sockets
    PROVE  Holders(s) = {} \/ \E h : Holders(s) = {h}
<1>1. CASE mainArg = s
    <2>1. Holders(s) = {"main"}
        BY <1>1 DEF OwnerInv, Holders, InPool, WithWorker
    <2>2. QED BY <2>1
<1>2. ASSUME NEW i \in DOMAIN pool, pool[i] = s
      PROVE  \E h : Holders(s) = {h}
    <2>1. Holders(s) = {<<"pool", i>>}
        BY <1>2 DEF OwnerInv, Holders, InPool, WithWorker
    <2>2. QED BY <2>1
<1>3. ASSUME NEW w \in Workers, held[w] = s
      PROVE  \E h : Holders(s) = {h}
    <2>1. Holders(s) = {<<"worker", w>>}
        BY <1>3 DEF OwnerInv, Holders, InPool, WithWorker
    <2>2. QED BY <2>1
<1>4. CASE mainArg # s /\ ~InPool(s) /\ ~WithWorker(s)
    BY <1>4 DEF Holders, InPool, WithWorker
<1>5. QED BY <1>1, <1>2, <1>3, <1>4 DEF InPool, WithWorker

(* unique_ptr and ~ClientSocket: whatever fails, is stopped or thrown, a   *)
(* connection has one holder with an open descriptor, and a plain one that *)
(* nobody holds is closed.                                                 *)
THEOREM DescriptorsOwned == Spec => []DescriptorOwned
<1>1. ASSUME TypeOK, OwnerInv PROVE DescriptorOwned
    <2>1. SUFFICES ASSUME NEW s \in Sockets
                   PROVE  /\ Cardinality(Holders(s)) <= 1
                          /\ Holders(s) # {} => s \in open
                          /\ s \in open \ tls => Holders(s) # {}
        BY <1>1 DEF DescriptorOwned
    <2>2. Cardinality(Holders(s)) \in {0, 1}
        BY <1>1, OneHolder, FS_EmptySet, FS_Singleton
    <2>3. Holders(s) # {} <=> mainArg = s \/ InPool(s) \/ WithWorker(s)
        BY DEF Holders, InPool, WithWorker
    <2>4. QED BY <1>1, <2>2, <2>3 DEF OwnerInv
<1>2. QED BY <1>1, Invariant, PTL DEF ServerInv

(* main.cpp 69-81: by either way out, when main ends no worker runs, no    *)
(* connection is left in the stack, and no plain one is left open.         *)
THEOREM ExitsClean == Spec => []CleanExit
<1>1. ASSUME TypeOK, PointerInv, OwnerInv PROVE CleanExit
    <2>1. SUFFICES ASSUME mainPc = "exited"
                   PROVE  AllEnded /\ pool = <<>> /\ open \subseteq tls
        BY DEF CleanExit
    <2>2. AllEnded /\ pool = <<>> /\ mainArg = NullPtr
        BY <1>1, <2>1 DEF PointerInv, StackGone
    <2>3. \A w \in Workers : held[w] = NullPtr
        BY <1>1, <2>2 DEF PointerInv, AllEnded
    <2>4. \A s \in Sockets : mainArg # s /\ ~InPool(s) /\ ~WithWorker(s)
        BY <2>2, <2>3, PoolAssumption DEF InPool, WithWorker
    <2>5. QED BY <1>1, <2>2, <2>4 DEF TypeOK, OwnerInv
<1>2. QED BY <1>1, Invariant, PTL DEF ServerInv

(* main.cpp 69: the loop accepts at most one connection after the stop.    *)
THEOREM OneLate == Spec => []AtMostOneLate
<1>1. ASSUME LateInv PROVE AtMostOneLate
    <2>1. late = {} \/ \E s : late = {s}
        BY <1>1 DEF LateInv
    <2>2. Cardinality(late) \in {0, 1}
        BY <2>1, FS_EmptySet, FS_Singleton
    <2>3. QED BY <2>2 DEF AtMostOneLate
<1>2. QED BY <1>1, Invariant, PTL DEF ServerInv
=============================================================================
