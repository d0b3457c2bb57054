----------------------------- MODULE TlsSession -----------------------------
(***************************************************************************)
(* The OpenSSL objects: the context of TLSContext.cpp and the SSL objects  *)
(* of TLSSocket.cpp, of which Acceptor makes two for every connection.     *)
(* OpenSSL counts references to the context, one for each SSL object; the  *)
(* code keeps plain pointers.  A call on an object that was freed or never *)
(* made is undefined: it is recorded, and nothing is said of what follows. *)
(* Connect and Accept make an SSL object again when m_ssl is null (17-18,  *)
(* 83-84); by then the constructor has passed the null to SSL_set_fd.      *)
(*                                                                         *)
(* TLSSocket::Connect is the other end, as the tests use it.               *)
(***************************************************************************)
EXTENDS Naturals, FiniteSets

CONSTANT Wrappers  \* the TLSSocket objects that can be made

ASSUME TlsAssumption == IsFiniteSet(Wrappers)

VARIABLES
    ctx,       \* m_ctx: "unborn", "null", "dangling", "set", "destroyed"
    ctxRefs,   \* references to the context; it is freed when none is left
    place,     \* where each TLSSocket is
    m_ssl,     \* whether its pointer is set
    ssl,       \* its SSL object: "none", "live" or "freed"
    certs,     \* X509 references that Connect holds
    undefined  \* history: the undefined calls

tlsVars == <<ctx, ctxRefs, place, m_ssl, ssl, certs, undefined>>

TlsInit ==
    /\ ctx = "unborn" /\ ctxRefs = 0
    /\ place = [w \in Wrappers |-> "unborn"]
    /\ m_ssl = [w \in Wrappers |-> FALSE] /\ ssl = [w \in Wrappers |-> "none"]
    /\ certs = 0 /\ undefined = {}

At(where) == {w \in Wrappers : place[w] = where}
Put(ws, where) == place' = [w \in Wrappers |-> IF w \in ws THEN where ELSE place[w]]
Record(calls) == undefined' = undefined \cup calls
Live == {w \in Wrappers : ssl[w] = "live"}

-----------------------------------------------------------------------------
(* TLSContext.                                                             *)

\* SSL_CTX_new fails; or the certificate or the key cannot be read, and the
\* context is freed while the pointer stays; or all is well.
TLSContext ==
    /\ ctx = "unborn"
    /\ \/ ctx' = "null" /\ ctxRefs' = 0
       \/ ctx' = "dangling" /\ ctxRefs' = 0
       \/ ctx' = "set" /\ ctxRefs' = 1
    /\ UNCHANGED <<place, m_ssl, ssl, certs, undefined>>

\* Mutant: the context is torn down with the server.
ContextDestroyed_Forced ==
    /\ ctx \in {"null", "dangling", "set"}
    /\ At("acceptor") \cup At("client") = {}
    /\ ctx' = "destroyed" /\ ctxRefs' = 0
    /\ UNCHANGED <<place, m_ssl, ssl, certs, undefined>>

\* ~TLSContext runs with ~Server, also while workers hold their sockets.
ContextDestroyed ==
    /\ ctx \in {"null", "dangling", "set"}
    /\ At("acceptor") \cup At("client") = {}
    /\ IF ctx = "dangling"
       THEN Record({"context freed twice"}) /\ UNCHANGED <<ctx, ctxRefs>>
       ELSE /\ ctx' = "destroyed"
            /\ ctxRefs' = IF ctx = "set" THEN ctxRefs - 1 ELSE ctxRefs
            /\ UNCHANGED undefined
    /\ UNCHANGED <<place, m_ssl, ssl, certs>>

-----------------------------------------------------------------------------
(* TLSSocket.                                                              *)

\* The constructor: SSL_new, which makes an object of the context or none,
\* then SSL_set_fd on its result.
CreateSSL(ws, where) ==
    /\ ctx \in {"null", "dangling", "set"}
    /\ ws \subseteq At("unborn")
    /\ Put(ws, where)
    /\ \E made \in SUBSET ws :
         /\ ctx # "set" => made = {}
         /\ m_ssl' = [w \in Wrappers |-> m_ssl[w] \/ w \in made]
         /\ ssl' = [w \in Wrappers |-> IF w \in made THEN "live" ELSE ssl[w]]
         /\ ctxRefs' = ctxRefs + Cardinality(made)
         /\ Record(IF made = ws THEN {}
                   ELSE {IF ctx = "dangling" THEN "freed context used" ELSE "null SSL used"})
    /\ UNCHANGED <<ctx, certs>>

\* SSL_free of each of ws whose pointer is set.
Freed(ws) == {w \in ws : m_ssl[w]}

FreeSSL(ws) ==
    /\ ssl' = [w \in Wrappers |-> IF w \in Freed(ws) THEN "freed" ELSE ssl[w]]
    /\ ctxRefs' = ctxRefs - Cardinality(Freed(ws) \cap Live)
    /\ m_ssl' = [w \in Wrappers |-> m_ssl[w] /\ w \notin ws]
    /\ Record({"SSL freed twice" : w \in Freed(ws) \ Live})
    /\ UNCHANGED <<ctx, certs>>

\* ~TLSSocket.
Destroy(ws) == Put(ws, "destroyed") /\ FreeSSL(ws)

\* Acceptor: one TLSSocket on its stack, which nobody uses, and another.
Acceptor(kept, tls) ==
    /\ At("acceptor") = {} /\ kept # tls
    /\ CreateSSL({kept, tls}, "acceptor")

\* SSL_accept succeeds: the unused one is destroyed, the other handed over.
AcceptSucceeds(kept, tls) ==
    /\ At("acceptor") = {kept, tls} /\ kept # tls /\ {kept, tls} \subseteq Live
    /\ place' = [place EXCEPT ![kept] = "worker", ![tls] = "destroyed"]
    /\ FreeSSL({tls})

\* Mutant: Accept frees the object and keeps the pointer.
AcceptFails_PointerKept(w) ==
    /\ w \in At("acceptor") /\ At("acceptor") \subseteq Live
    /\ ssl' = [ssl EXCEPT ![w] = "freed"] /\ ctxRefs' = ctxRefs - 1
    /\ UNCHANGED <<ctx, place, m_ssl, certs, undefined>>

\* SSL_accept fails: shutdown, SSL_free and a null pointer.
AcceptFails(w) ==
    /\ w \in At("acceptor") /\ At("acceptor") \subseteq Live
    /\ FreeSSL({w}) /\ UNCHANGED place

\* ... and a null is returned: the destructors of both.
AcceptReturnsNull ==
    /\ At("acceptor") \ Live # {}
    /\ Destroy(At("acceptor"))

\* ReadPacket and WritePacket.
Use(w) ==
    /\ place[w] \in {"worker", "client"}
    /\ Record({"freed SSL used" : v \in {w} \ Live})
    /\ UNCHANGED <<ctx, ctxRefs, place, m_ssl, ssl, certs>>

WorkerDone(w) == w \in At("worker") /\ Destroy({w})

\* Either of them when OPENSSL_cleanup has run.
UseAfterCleanup(w) ==
    /\ w \in At("worker")
    /\ Record({"used after cleanup"})
    /\ UNCHANGED <<ctx, ctxRefs, place, m_ssl, ssl, certs>>

-----------------------------------------------------------------------------
(* The client of the tests.                                                *)

Client(w) == At("client") = {} /\ CreateSSL({w}, "client")

\* Connect: past the handshake it may hold the server's certificate.
Connect(w) ==
    /\ w \in At("client") /\ certs = 0
    /\ certs' = 1
    /\ Record({"freed SSL used" : v \in {w} \ Live})
    /\ UNCHANGED <<ctx, ctxRefs, place, m_ssl, ssl>>

ConnectReturns ==
    /\ certs = 1
    /\ certs' = 0
    /\ UNCHANGED <<ctx, ctxRefs, place, m_ssl, ssl, undefined>>

ClientDone(w) == w \in At("client") /\ certs = 0 /\ Destroy({w})

-----------------------------------------------------------------------------
TlsTypeOK ==
    /\ ctx \in {"unborn", "null", "dangling", "set", "destroyed"} /\ ctxRefs \in Nat
    /\ place \in [Wrappers -> {"unborn", "acceptor", "worker", "client", "destroyed"}]
    /\ m_ssl \in [Wrappers -> BOOLEAN] /\ ssl \in [Wrappers -> {"none", "live", "freed"}]
    /\ certs \in 0..1

(* No call is made on an SSL object that was freed: not by the second      *)
(* TLSSocket of Acceptor, not after a failed handshake, and not by a       *)
(* worker that still holds its socket when the server is gone.  A freed    *)
(* context is used, or freed twice, only when the certificate or the key   *)
(* is missing; then by the first connection at once.                       *)
FreedNeverUsed ==
    /\ undefined \cap {"freed SSL used", "SSL freed twice"} = {}
    /\ undefined \cap {"freed context used", "context freed twice"} # {} => ctx = "dangling"
    /\ ctx = "dangling" /\ At("unborn") # Wrappers => "freed context used" \in undefined

(* The context lives exactly as long as it has a user: its owner or an SSL *)
(* object, also when ~Server runs before the workers are done.             *)
ContextCounted == ctxRefs = Cardinality(Live) + (IF ctx = "set" THEN 1 ELSE 0)

(* Every SSL object has one owner, no worker gets a null one, and nothing  *)
(* is left when all are gone.                                              *)
NothingLeft ==
    /\ TlsTypeOK /\ ContextCounted
    /\ At("worker") \subseteq Live /\ (undefined = {} => At("client") \subseteq Live)
    /\ Live \cap At("destroyed") = {}
    /\ ctx = "destroyed" /\ Live = {} => ctxRefs = 0 /\ certs = 0
=============================================================================
