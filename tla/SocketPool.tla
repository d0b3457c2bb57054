----------------------------- MODULE SocketPool -----------------------------
(***************************************************************************)
(* What ThreadSafeStack promises its callers, with every operation atomic. *)
(* The acceptor (main) hands accepted sockets over with Add, each worker   *)
(* obtains one with Take and destroys it with Close.  A unique_ptr is      *)
(* either a socket or NullPtr: WaitClients returns null when accept or the *)
(* TLS handshake fails, and main pushes that null like any other pointer.  *)
(***************************************************************************)
EXTENDS Sequences, SequencesExt

CONSTANTS Workers,   \* the threads main.cpp starts in CreateThreads
          Sockets,   \* the client sockets that may be accepted
          NullPtr    \* a unique_ptr that owns nothing

ASSUME PoolAssumption == NullPtr \notin Sockets

VARIABLES arriving,  \* sockets not yet handed over
          pool,      \* the stack's content, last element on top
          held,      \* held[w]: the pointer worker w got from GetSocket
          closed     \* sockets whose owner has destroyed them

poolVars == <<arriving, pool, held, closed>>

PoolInit ==
    /\ arriving = Sockets
    /\ pool = <<>>
    /\ held = [w \in Workers |-> NullPtr]
    /\ closed = {}

Add(p) ==
    /\ p \in arriving \cup {NullPtr}
    /\ arriving' = arriving \ {p}
    /\ pool' = Append(pool, p)
    /\ UNCHANGED <<held, closed>>

Take(w) ==
    /\ held[w] = NullPtr
    /\ pool # <<>>
    /\ held' = [held EXCEPT ![w] = Last(pool)]
    /\ pool' = Front(pool)
    /\ UNCHANGED <<arriving, closed>>

Close(w) ==
    /\ held[w] # NullPtr
    /\ closed' = closed \cup {held[w]}
    /\ held' = [held EXCEPT ![w] = NullPtr]
    /\ UNCHANGED <<arriving, pool>>

\* ~ThreadSafeStack destroys the sockets nobody took.
Destroy ==
    /\ pool # <<>>
    /\ closed' = closed \cup (ToSet(pool) \ {NullPtr})
    /\ pool' = <<>>
    /\ UNCHANGED <<arriving, held>>

PoolNext ==
    \/ \E p \in Sockets \cup {NullPtr} : Add(p)
    \/ \E w \in Workers : Take(w) \/ Close(w)
    \/ Destroy

PoolSpec == PoolInit /\ [][PoolNext]_poolVars
=============================================================================
