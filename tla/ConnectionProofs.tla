--------------------------- MODULE ConnectionProofs ---------------------------
(***************************************************************************)
(* Proofs about one connection, for any number of requests and bodies of   *)
(* any kinds and any sizes of the buffers and of a response.               *)
(***************************************************************************)
EXTENDS Connection, SequenceLemmas, FiniteSetTheorems, TLAPS

-----------------------------------------------------------------------------
(* What the client's stream looks like, whichever part of it is left.      *)

\* The place of a token in the stream, counted with every blank line.
Rank(t) == 2 * t.req + (IF t.part = "head" THEN 0 ELSE 1)
BlankOf(n) == 2 * n + 1

Ordered(s) == \A i, j \in DOMAIN s : i < j => Rank(s[i]) < Rank(s[j])
Chain(s) ==
    \A i \in DOMAIN s : s[i].part = "blank" =>
        i > 1 /\ s[i - 1] = [req |-> s[i].req, part |-> "head"]

StreamLike(s) == s \in Seq(Tokens) /\ Ordered(s) /\ Chain(s)

-----------------------------------------------------------------------------
(* The inductive invariant.                                                *)

\* What the worker has not parsed of what the client sent, or will send.
Reading == pc \in {"read", "parse"}
Outstanding == IF Reading THEN buffer \o inbox ELSE inbox
Unhandled == Outstanding \o unsent

ParseInv ==
    /\ pc = "parse" => IsBlankLine
    /\ ~Over => StreamLike(Unhandled)

\* Every answered request was a GET, and is handled; so is the current one.
HandledInv ==
    /\ \A i \in DOMAIN wire : reqs[wire[i].req].line = "GET"
    /\ pc \in {"get", "write"} => reqs[current].line = "GET"
    /\ ~Over =>
         /\ \A i \in DOMAIN wire, k \in DOMAIN Unhandled :
              BlankOf(wire[i].req) < Rank(Unhandled[k])
         /\ pc \in {"get", "write"} =>
              \A k \in DOMAIN Unhandled : BlankOf(current) < Rank(Unhandled[k])

\* Where the wire ends at each place of the loop.
EndsWhole == wire # <<>> => Last(wire).reply = "200" /\ Last(wire).unit = Units
Interrupted ==
    /\ ~secure /\ reply = "404" /\ wire # <<>>
    /\ Last(wire).req = current /\ Last(wire).reply = "200"
    /\ Last(wire).unit < Units \/ reset
WireInv ==
    /\ pc \in {"loop", "alive", "read", "parse", "get"} => EndsWhole
    /\ pc = "get" => \A i \in DOMAIN wire : wire[i].req < current
    /\ pc = "write" =>
         IF left < Units
         THEN wire # <<>> /\ Last(wire) = Unit(Units - left)
         ELSE Interrupted \/ (EndsWhole /\ \A i \in DOMAIN wire : wire[i].req < current)

LateInv ==
    /\ late <= 1
    /\ late > 0 => stopped /\ pc \in {"loop", "write", "closed", "killed"}

\* The request of a client that waits comes when nothing is under way, and
\* each GET is yet to be handled, being answered or answered.
OneRequest ==
    \A k \in DOMAIN Outstanding :
        Outstanding[k].part = "head" /\ ~reqs[Outstanding[k].req].body => k = 1
Pending(n) == \E i \in DOMAIN Unhandled : Unhandled[i].req = n
NoneDropped ==
    \A n \in 1..Requests : reqs[n].line = "GET" /\ ~reqs[n].body =>
        Pending(n) \/ Answered(n) \/ (pc \in {"get", "write"} /\ current = n)
WaitingInv == ~Over /\ ~pipelines /\ GETsHaveNoBody => OneRequest /\ NoneDropped

ConnectionInv == ParseInv /\ HandledInv /\ WireInv /\ LateInv /\ WaitingInv

-----------------------------------------------------------------------------
(* The client's stream.                                                    *)

(* The places of the two tokens of a text.                                 *)
LEMMA RankFacts ==
    ASSUME NEW t \in Tokens
    PROVE  /\ t.req \in 1..Requests /\ t.part \in {"head", "blank"}
           /\ t = [req |-> t.req, part |-> t.part]
           /\ t.part = "head" => Rank(t) = 2 * t.req
           /\ t.part = "blank" => Rank(t) = 2 * t.req + 1
           /\ Rank(t) \in Nat
BY ConnectionAssumption DEF Tokens, Rank

(* The tokens of one text.                                                 *)
LEMMA RequestFacts ==
    ASSUME NEW rs \in [1..Requests -> Kinds], NEW n \in 1..Requests
    PROVE  /\ StreamLike(Request(rs, n))
           /\ Request(rs, n) # <<>>
           /\ Request(rs, n)[1] = [req |-> n, part |-> "head"]
           /\ \A i \in DOMAIN Request(rs, n) : Request(rs, n)[i].req = n
           /\ ~rs[n].body =>
                Request(rs, n) = <<[req |-> n, part |-> "head"], [req |-> n, part |-> "blank"]>>
<1> DEFINE h == [req |-> n, part |-> "head"]
           b == [req |-> n, part |-> "blank"]
<1>1. h \in Tokens /\ b \in Tokens
    BY DEF Tokens
<1>2. Rank(h) = 2 * n /\ Rank(b) = 2 * n + 1 /\ Rank(h) < Rank(b)
    BY <1>1, RankFacts
<1>3. CASE rs[n].blank
    <2>1. Request(rs, n) = <<h, b>>
        <3>1. Request(rs, n) = <<h>> \o <<b>>
            BY <1>3 DEF Request
        <3>2. QED BY <1>1, <3>1, OneAndOne
    <2>2. /\ <<h, b>> \in Seq(Tokens) /\ DOMAIN <<h, b>> = 1..2
          /\ <<h, b>>[1] = h /\ <<h, b>>[2] = b
        BY <1>1
    <2> DEFINE s == <<h, b>>
    <2> HIDE DEF s
    <2>3. Ordered(s) /\ Chain(s) /\ s # <<>>
        BY <1>2, <2>2 DEF s, Ordered, Chain
    <2>4. QED BY <2>1, <2>2, <2>3 DEF StreamLike, s
<1>4. CASE ~rs[n].blank
    <2>1. Request(rs, n) = <<h>> /\ rs[n].body
        BY <1>4 DEF Request, Kinds
    <2>2. <<h>> \in Seq(Tokens) /\ DOMAIN <<h>> = 1..1 /\ <<h>>[1] = h
        BY <1>1
    <2> DEFINE s == <<h>>
    <2> HIDE DEF s
    <2>3. Ordered(s) /\ Chain(s) /\ s # <<>>
        BY <2>2 DEF s, Ordered, Chain
    <2>4. QED BY <2>1, <2>2, <2>3 DEF StreamLike, s
<1>5. QED BY <1>3, <1>4

(* Two parts of a stream, of which the second begins with a head.          *)
LEMMA JoinStreams ==
    ASSUME NEW a, NEW b, StreamLike(a), StreamLike(b),
           b # <<>> => b[1].part = "head",
           \A i \in DOMAIN a, j \in DOMAIN b : Rank(a[i]) < Rank(b[j])
    PROVE  StreamLike(a \o b)
<1>1. a \in Seq(Tokens) /\ b \in Seq(Tokens)
    BY DEF StreamLike
<1> DEFINE c == a \o b
<1>2. c \in Seq(Tokens)
    BY <1>1, ConcatPlaces
<1>3. /\ Len(a) \in Nat /\ Len(b) \in Nat
      /\ DOMAIN a = 1..Len(a) /\ DOMAIN b = 1..Len(b)
    BY <1>1, ConcatPlaces
<1>4. DOMAIN c = 1..(Len(a) + Len(b))
    BY <1>1, ConcatPlaces
<1>5. /\ \A i \in DOMAIN a : i \in DOMAIN c /\ c[i] = a[i]
      /\ \A i \in DOMAIN b : Len(a) + i \in DOMAIN c /\ c[Len(a) + i] = b[i]
      /\ \A i \in DOMAIN c : i \in DOMAIN a \/ \E j \in DOMAIN b : i = Len(a) + j
    BY <1>1, ConcatPlaces
<1> HIDE DEF c
<1>6. Ordered(a) /\ Chain(a) /\ Ordered(b) /\ Chain(b)
    BY DEF StreamLike
<1>7. Ordered(c)
    <2>1. SUFFICES ASSUME NEW i \in DOMAIN c, NEW j \in DOMAIN c, i < j
                   PROVE  Rank(c[i]) < Rank(c[j])
        BY DEF Ordered
    <2>2. CASE j \in DOMAIN a
        <3>1. i \in DOMAIN a
            BY <1>3, <1>4, <2>1, <2>2
        <3>2. QED BY <1>5, <1>6, <2>1, <2>2, <3>1 DEF Ordered
    <2>3. ASSUME NEW k \in DOMAIN b, j = Len(a) + k PROVE Rank(c[i]) < Rank(c[j])
        <3>1. CASE i \in DOMAIN a
            BY <1>5, <2>3, <3>1
        <3>2. ASSUME NEW l \in DOMAIN b, i = Len(a) + l PROVE Rank(c[i]) < Rank(c[j])
            <4>1. l < k
                BY <1>3, <2>1, <2>3, <3>2
            <4>2. Rank(b[l]) < Rank(b[k])
                BY <1>6, <4>1 DEF Ordered
            <4>3. QED BY <1>5, <2>3, <3>2, <4>2
        <3>3. QED BY <1>5, <3>1, <3>2
    <2>4. QED BY <1>5, <2>2, <2>3
<1>8. Chain(c)
    <2>1. SUFFICES ASSUME NEW i \in DOMAIN c, c[i].part = "blank"
                   PROVE  i > 1 /\ c[i - 1] = [req |-> c[i].req, part |-> "head"]
        BY DEF Chain
    <2>2. CASE i \in DOMAIN a
        <3>1. i > 1 => i - 1 \in DOMAIN a
            BY <1>3, <2>2
        <3>2. QED BY <1>3, <1>5, <1>6, <2>1, <2>2, <3>1 DEF Chain
    <2>3. ASSUME NEW k \in DOMAIN b, i = Len(a) + k, k > 1
          PROVE  i > 1 /\ c[i - 1] = [req |-> c[i].req, part |-> "head"]
        <3>1. k - 1 \in DOMAIN b /\ i - 1 = Len(a) + (k - 1) /\ i > 1
            BY <1>3, <2>3, SMTT(30)
        <3>2. c[i] = b[k] /\ c[i - 1] = b[k - 1]
            BY <1>5, <2>3, <3>1
        <3>3. QED BY <1>3, <1>6, <2>1, <2>3, <3>1, <3>2 DEF Chain
    <2>4. ASSUME NEW k \in DOMAIN b, i = Len(a) + k, ~(k > 1)
          PROVE  c[i].part = "head"
        <3>1. k = 1 /\ b # <<>>
            BY <1>3, <2>4, EmptySeq
        <3>2. QED BY <1>5, <2>4, <3>1
    <2>5. QED BY <1>5, <2>1, <2>2, <2>3, <2>4
<1>9. QED BY <1>2, <1>7, <1>8 DEF StreamLike, c

(* The client begins with every text in order.                             *)
LEMMA StreamFacts ==
    ASSUME NEW rs \in [1..Requests -> Kinds]
    PROVE  /\ StreamLike(Stream(rs))
           /\ \A n \in 1..Requests :
                \E i \in DOMAIN Stream(rs) : Stream(rs)[i] = [req |-> n, part |-> "head"]
<1> DEFINE rows == [n \in 1..Requests |-> Request(rs, n)]
<1>1. Requests \in Nat \ {0} /\ rows \in Seq(Seq(Tokens)) /\ Len(rows) = Requests
    <2>1. \A n \in 1..Requests : Request(rs, n) \in Seq(Tokens)
        BY RequestFacts DEF StreamLike
    <2>2. QED BY <2>1, ConnectionAssumption
<1>2. PICK f : /\ FlattenSeq(rows) = f[Requests]
               /\ \A i \in 1..Requests :
                    f[i] = IF i = 1 THEN rows[i] ELSE f[i - 1] \o rows[i]
    <2>1. Len(rows) \in Nat \ {0}
        BY <1>1
    <2> HIDE DEF rows
    <2>2. QED BY <1>1, <2>1, FlattenIs
<1>3. Stream(rs) = f[Requests]
    BY <1>2 DEF Stream
<1>4. \A n \in 1..Requests : rows[n] = Request(rs, n)
    OBVIOUS
<1> HIDE DEF rows
<1> DEFINE Good(n) ==
             /\ StreamLike(f[n])
             /\ \A i \in DOMAIN f[n] : f[n][i].req <= n
             /\ \A m \in 1..n : \E i \in DOMAIN f[n] : f[n][i] = [req |-> m, part |-> "head"]
           G == {n \in Nat : n \in 1..Requests => Good(n)}
<1>5. 0 \in G
    OBVIOUS
<1>6. ASSUME NEW n \in Nat, n \in G PROVE n + 1 \in G
    <2>1. SUFFICES ASSUME n + 1 \in 1..Requests PROVE Good(n + 1)
        OBVIOUS
    <2> DEFINE r == Request(rs, n + 1)
    <2>2. /\ StreamLike(r) /\ r # <<>>
          /\ r[1] = [req |-> n + 1, part |-> "head"]
          /\ \A i \in DOMAIN r : r[i].req = n + 1
        BY <2>1, RequestFacts
    <2>3. r \in Seq(Tokens) /\ Len(r) \in Nat \ {0} /\ DOMAIN r = 1..Len(r)
        BY <2>2, EmptySeq, LenProperties DEF StreamLike
    <2> HIDE DEF r
    <2>4. CASE n = 0
        <3>1. f[1] = r
            BY <1>2, <1>4, <2>1, <2>4 DEF r
        <3>2. \A m \in 1..1 : m = 1
            OBVIOUS
        <3>3. 1 \in DOMAIN r
            BY <2>3
        <3>4. QED BY <2>2, <2>4, <3>1, <3>2, <3>3
    <2>5. CASE n # 0
        <3>1. n \in 1..Requests /\ Good(n) /\ (n + 1) - 1 = n /\ n + 1 # 1
            BY <1>1, <1>6, <2>1, <2>5
        <3> DEFINE a == f[n]
        <3>2. f[n + 1] = a \o r
            BY <1>2, <1>4, <2>1, <3>1 DEF r
        <3>3. StreamLike(a) /\ \A i \in DOMAIN a : a[i].req <= n
            BY <3>1
        <3>4. a \in Seq(Tokens) /\ Len(a) \in Nat /\ DOMAIN a = 1..Len(a)
            BY <3>3, LenProperties DEF StreamLike
        <3>5. \A m \in 1..n : \E i \in DOMAIN a : a[i] = [req |-> m, part |-> "head"]
            BY <3>1
        <3> HIDE DEF a, Good
        <3>6. \A i \in DOMAIN a, j \in DOMAIN r : Rank(a[i]) < Rank(r[j])
            <4>1. TAKE i \in DOMAIN a, j \in DOMAIN r
            <4>2. a[i] \in Tokens /\ r[j] \in Tokens
                BY <2>3, <3>4, ElementOfSeq
            <4>3. a[i].req <= n /\ r[j].req = n + 1
                BY <2>2, <3>3
            <4>4. a[i].req \in Nat /\ Rank(a[i]) <= 2 * a[i].req + 1 /\ Rank(r[j]) >= 2 * (n + 1)
                BY <4>2, <4>3, RankFacts
            <4>5. QED BY <4>2, <4>3, <4>4, RankFacts
        <3>7. StreamLike(a \o r)
            BY <2>2, <3>3, <3>6, JoinStreams
        <3>8. /\ a \o r \in Seq(Tokens) /\ Len(a \o r) = Len(a) + Len(r)
              /\ \A i \in 1..(Len(a) + Len(r)) :
                   (a \o r)[i] = IF i <= Len(a) THEN a[i] ELSE r[i - Len(a)]
            <4>1. a \in Seq(Tokens) /\ r \in Seq(Tokens)
                BY <2>3, <3>4
            <4>2. QED BY <4>1, ConcatProperties
        <3>9. DOMAIN (a \o r) = 1..(Len(a) + Len(r))
            BY <3>8, LenProperties
        <3>10. \A i \in DOMAIN (a \o r) : (a \o r)[i].req <= n + 1
            <4>1. TAKE i \in DOMAIN (a \o r)
            <4>2. CASE i <= Len(a)
                <5>1. i \in DOMAIN a /\ (a \o r)[i] = a[i]
                    BY <3>4, <3>8, <3>9, <4>2
                <5>2. a[i].req \in Nat /\ a[i].req <= n
                    BY <3>3, <3>4, <5>1, ElementOfSeq, RankFacts
                <5>3. QED BY <5>1, <5>2
            <4>3. CASE ~(i <= Len(a))
                <5>1. i - Len(a) \in DOMAIN r /\ (a \o r)[i] = r[i - Len(a)]
                    BY <2>3, <3>4, <3>8, <3>9, <4>3
                <5>2. QED BY <2>2, <5>1
            <4>4. QED BY <4>2, <4>3
        <3>11. ASSUME NEW m \in 1..(n + 1)
               PROVE  \E i \in DOMAIN (a \o r) : (a \o r)[i] = [req |-> m, part |-> "head"]
            <4>1. CASE m \in 1..n
                <5>1. PICK i \in DOMAIN a : a[i] = [req |-> m, part |-> "head"]
                    BY <3>5, <4>1
                <5>2. i \in DOMAIN (a \o r) /\ (a \o r)[i] = a[i]
                    BY <2>3, <3>4, <3>8, <3>9
                <5>3. QED BY <5>1, <5>2
            <4>2. CASE m = n + 1
                <5>1. Len(a) + 1 \in DOMAIN (a \o r) /\ (a \o r)[Len(a) + 1] = r[1]
                    BY <2>3, <3>4, <3>8, <3>9
                <5>2. QED BY <2>2, <4>2, <5>1
            <4>3. QED BY <4>1, <4>2
        <3>12. QED BY <3>2, <3>7, <3>10, <3>11 DEF Good
    <2>6. QED BY <2>4, <2>5
<1>7. \A n \in Nat : n \in G
    <2> HIDE DEF G
    <2>1. QED BY <1>5, <1>6, Induction
<1>8. Good(Requests)
    BY <1>1, <1>7
<1>9. QED BY <1>3, <1>8

(* What follows a blank line is still a stream, and comes after it.        *)
LEMMA DropStream ==
    ASSUME NEW a \in Seq(Tokens), NEW b \in Seq(Tokens), StreamLike(a \o b),
           a # <<>>, Last(a).part = "blank"
    PROVE  StreamLike(b) /\ \A k \in DOMAIN b : Rank(Last(a)) < Rank(b[k])
<1> DEFINE c == a \o b
<1>1. /\ c \in Seq(Tokens) /\ Len(c) = Len(a) + Len(b)
      /\ \A i \in 1..(Len(a) + Len(b)) : c[i] = IF i <= Len(a) THEN a[i] ELSE b[i - Len(a)]
    BY ConcatProperties
<1>2. /\ Len(a) \in Nat \ {0} /\ Len(b) \in Nat /\ DOMAIN b = 1..Len(b)
      /\ DOMAIN c = 1..(Len(a) + Len(b))
    BY <1>1, EmptySeq, LenProperties
<1>3. Ordered(c) /\ Chain(c)
    BY DEF StreamLike
<1>4. c[Len(a)].part = "blank" /\ c[Len(a)] = Last(a) /\ Len(a) \in DOMAIN c
    BY <1>1, <1>2 DEF Last
<1>5. \A i \in DOMAIN b : Len(a) + i \in DOMAIN c /\ c[Len(a) + i] = b[i]
    <2>1. TAKE i \in DOMAIN b
    <2>2. Len(a) + i \in DOMAIN c /\ ~(Len(a) + i <= Len(a)) /\ (Len(a) + i) - Len(a) = i
        BY <1>2
    <2>3. QED BY <1>1, <1>2, <2>2
<1> HIDE DEF c
<1>6. Ordered(b)
    <2>1. SUFFICES ASSUME NEW i \in DOMAIN b, NEW j \in DOMAIN b, i < j
                   PROVE  Rank(b[i]) < Rank(b[j])
        BY DEF Ordered
    <2>2. Len(a) + i < Len(a) + j
        BY <1>2, <2>1
    <2>3. QED BY <1>3, <1>5, <2>2 DEF Ordered
<1>7. Chain(b)
    <2>1. SUFFICES ASSUME NEW i \in DOMAIN b, b[i].part = "blank"
                   PROVE  i > 1 /\ b[i - 1] = [req |-> b[i].req, part |-> "head"]
        BY DEF Chain
    <2> DEFINE k == (Len(a) + i) - 1
    <2>2. c[k] = [req |-> b[i].req, part |-> "head"]
        BY <1>3, <1>5, <2>1 DEF Chain
    <2>3. CASE i = 1
        <3>1. k = Len(a)
            BY <1>2, <2>3
        <3>2. QED BY <1>4, <2>2, <3>1
    <2>4. CASE i # 1
        <3>1. i - 1 \in DOMAIN b /\ k = Len(a) + (i - 1) /\ i > 1
            BY <1>2, <2>4
        <3>2. QED BY <1>5, <2>2, <3>1
    <2>5. QED BY <2>3, <2>4
<1>8. \A k \in DOMAIN b : Rank(Last(a)) < Rank(b[k])
    <2>1. TAKE k \in DOMAIN b
    <2>2. Len(a) < Len(a) + k
        BY <1>2
    <2>3. QED BY <1>3, <1>4, <1>5, <2>2 DEF Ordered
<1>9. QED BY <1>6, <1>7, <1>8 DEF StreamLike

-----------------------------------------------------------------------------
(* Types.                                                                  *)

(* Every step keeps the types: a worker that parses has something to parse.*)
LEMMA TypeStep ==
    ASSUME TypeOK, ParseInv, Next
    PROVE  TypeOK'
<1>1. Requests \in Nat \ {0} /\ Units \in Nat \ {0}
    BY ConnectionAssumption
<1>2. CASE ClientSends
    <2>1. Append(inbox, Head(unsent)) \in Seq(Tokens) /\ Tail(unsent) \in Seq(Tokens)
        BY <1>2, MoveOne DEF ClientSends, TypeOK
    <2>2. QED BY <1>2, <2>1 DEF TypeOK, ClientSends, peer, answer
<1>3. CASE ClientReceives \/ ClientLeaves \/ Stop
    <2>1. Len(wire) \in Nat
        BY LenProperties DEF TypeOK
    <2>2. CASE ClientReceives
        BY <2>1, <2>2 DEF TypeOK, ClientReceives, client, peer, answer
    <2>3. CASE ClientLeaves \/ Stop
        BY <2>3 DEF TypeOK, ClientLeaves, Stop, client, peer, answer
    <2>4. QED BY <1>3, <2>2, <2>3
<1>4. CASE LoopTest \/ ReadDone \/ ReadFails
    BY <1>4 DEF TypeOK, LoopTest, ReadDone, ReadFails, WorkerGoes, Pcs, client, peer, answer
<1>5. CASE IsAlive
    BY <1>5 DEF TypeOK, IsAlive, WorkerGoes, Pcs, client, peer, answer
<1>6. CASE Receive
    <2>1. PICK k \in 1..Len(inbox) :
            /\ buffer' = buffer \o SubSeq(inbox, 1, k)
            /\ inbox' = SubSeq(inbox, k + 1, Len(inbox))
        BY <1>6 DEF Receive
    <2>2. buffer' \in Seq(Tokens) /\ inbox' \in Seq(Tokens)
        BY <2>1, MoveSome DEF TypeOK
    <2>3. QED BY <1>6, <2>2 DEF TypeOK, Receive, WorkerGoes, Pcs, client, peer, answer
<1>7. CASE ParseThrows \/ GetThrows
    BY <1>7 DEF TypeOK, ParseThrows, GetThrows, WorkerGoes, Pcs, client, peer, answer
<1>8. CASE Parse
    <2>1. buffer # <<>> /\ buffer \in Seq(Tokens)
        BY <1>8 DEF Parse, WorkerGoes, ParseInv, IsBlankLine, TypeOK
    <2>2. buffer[1] \in Tokens
        BY <2>1, MoveOne
    <2>3. current' \in 1..Requests
        BY <1>8, <2>2, RankFacts DEF Parse
    <2>4. QED BY <1>8, <2>3 DEF TypeOK, Parse, WorkerGoes, Pcs, client, peer
<1>9. CASE ProcessGET
    <2>1. left' \in 0..Units /\ reply' \in Replies /\ late' \in Nat
        BY <1>1, <1>9 DEF TypeOK, ProcessGET, Reply, Replies
    <2>2. QED BY <1>9, <2>1 DEF TypeOK, ProcessGET, WorkerGoes, Pcs, client, peer
<1>10. CASE Send
    <2>1. PICK k \in 1..left :
            /\ wire' = wire \o [i \in 1..k |-> Unit(Units - left + i)]
            /\ left' = left - k
        BY <1>10 DEF Send
    <2> DEFINE more == [i \in 1..k |-> Unit(Units - left + i)]
    <2>2. more \in Seq(WireUnits)
        <3>1. \A i \in 1..k : Unit(Units - left + i) \in WireUnits
            BY <1>1, <2>1 DEF TypeOK, Unit, WireUnits
        <3>2. QED BY <1>1, <2>1, <3>1 DEF TypeOK
    <2> HIDE DEF more
    <2>3. wire \in Seq(WireUnits) /\ wire' = wire \o more
        BY <2>1 DEF TypeOK, more
    <2>4. wire' \in Seq(WireUnits) /\ Len(wire') = Len(wire) + Len(more) /\ Len(more) \in Nat
        BY <2>2, <2>3, ConcatProperties, LenProperties
    <2>5. Len(wire) \in Nat
        BY <2>3, LenProperties
    <2>6. received \in 0..Len(wire')
        BY <2>4, <2>5 DEF TypeOK
    <2>7. left' \in 0..Units
        BY <1>1, <2>1 DEF TypeOK
    <2>8. QED BY <1>10, <2>4, <2>6, <2>7 DEF TypeOK, Send, WorkerGoes, Pcs, client, peer
<1>11. CASE WriteFailed
    BY <1>1, <1>11 DEF TypeOK, WriteFailed, Pcs, Replies, client, peer
<1>12. CASE Killed \/ WriteDone
    BY <1>12 DEF TypeOK, Killed, WriteDone, WorkerGoes, Pcs, client, peer, answer
<1>13. QED
    BY <1>2, <1>3, <1>4, <1>5, <1>6, <1>7, <1>8, <1>9, <1>10, <1>11, <1>12
    DEF Next, WorkerStep

-----------------------------------------------------------------------------
(* What a step does to the part of the stream that is not handled yet.     *)

(* Sending, receiving and waiting only move the stream along; a token is   *)
(* under way from when it is sent.                                         *)
LEMMA MovedAlong ==
    ASSUME TypeOK, Next, ~Over', ~Parse
    PROVE  /\ Unhandled' = Unhandled
           /\ \/ Outstanding' = Outstanding
              \/ ClientSends /\ Outstanding' = Append(Outstanding, unsent[1])
<1>1. /\ unsent \in Seq(Tokens) /\ inbox \in Seq(Tokens) /\ buffer \in Seq(Tokens)
      /\ buffer \o inbox \in Seq(Tokens) /\ Outstanding \in Seq(Tokens)
    BY ConcatProperties DEF TypeOK, Outstanding
<1>2. CASE ClientSends
    <2>1. /\ unsent # <<>> /\ inbox' = Append(inbox, unsent[1]) /\ unsent' = Tail(unsent)
          /\ buffer' = buffer /\ pc' = pc
        BY <1>1, <1>2, MoveOne DEF ClientSends
    <2>2. unsent[1] \in Tokens /\ Head(unsent) = unsent[1]
        BY <1>1, <2>1, MoveOne
    <2>3. Outstanding' = Append(Outstanding, unsent[1])
        <3>1. buffer \o Append(inbox, unsent[1]) = Append(buffer \o inbox, unsent[1])
            BY <1>1, <2>2, AppendToSecond
        <3>2. QED BY <2>1, <3>1 DEF Outstanding, Reading
    <2>4. Append(Outstanding, Head(unsent)) \o Tail(unsent) = Outstanding \o unsent
        BY <1>1, <2>1, MoveOne
    <2>5. QED BY <1>2, <2>1, <2>2, <2>3, <2>4 DEF Unhandled
<1>3. CASE Receive
    <2>1. PICK k \in 1..Len(inbox) :
            /\ buffer' = buffer \o SubSeq(inbox, 1, k)
            /\ inbox' = SubSeq(inbox, k + 1, Len(inbox))
        BY <1>3 DEF Receive
    <2>2. pc = "read" /\ pc' = "read" /\ unsent' = unsent
        BY <1>3 DEF Receive, WorkerGoes, client
    <2>3. (buffer \o SubSeq(inbox, 1, k)) \o SubSeq(inbox, k + 1, Len(inbox)) = buffer \o inbox
        <3>1. buffer \in Seq(Tokens)
            BY <1>1
        <3>2. inbox \in Seq(Tokens)
            BY <1>1
        <3> DEFINE a == buffer
                   b == inbox
        <3>3. a \in Seq(Tokens) /\ b \in Seq(Tokens) /\ k \in 1..Len(b)
            BY <3>1, <3>2
        <3> HIDE DEF a, b
        <3>4. (a \o SubSeq(b, 1, k)) \o SubSeq(b, k + 1, Len(b)) = a \o b
            BY <3>3, MoveSome, ZenonT(60)
        <3>5. QED BY <3>4 DEF a, b
    <2>4. QED BY <2>1, <2>2, <2>3 DEF Outstanding, Unhandled, Reading
<1>4. CASE IsAlive
    <2>1. pc = "alive" /\ pc' = "read" /\ buffer' = <<>> /\ inbox' = inbox /\ unsent' = unsent
        BY <1>4 DEF IsAlive, WorkerGoes, client, Over
    <2>2. <<>> \o inbox = inbox
        BY <1>1, ConcatEmptySeq
    <2>3. QED BY <2>1, <2>2 DEF Outstanding, Unhandled, Reading
<1>5. CASE ~(ClientSends \/ Receive \/ IsAlive)
    <2>1. /\ buffer' = buffer /\ inbox' = inbox /\ unsent' = unsent
          /\ Reading' = Reading
        BY <1>5 DEF Next, WorkerStep, ClientReceives, ClientLeaves, Stop, LoopTest, ReadDone,
             ReadFails, ParseThrows, GetThrows, ProcessGET, Send, WriteFailed, Killed, WriteDone,
             WorkerGoes, client, Over, Reading
    <2>2. QED BY <2>1 DEF Outstanding, Unhandled
<1>6. QED BY <1>2, <1>3, <1>4, <1>5

(* Parse takes the buffer out of it, which ends in a blank line.           *)
LEMMA Parsed ==
    ASSUME TypeOK, ParseInv, Parse
    PROVE  /\ buffer \in Seq(Tokens) /\ buffer # <<>> /\ Last(buffer).part = "blank"
           /\ Outstanding' = inbox /\ Outstanding = buffer \o Outstanding'
           /\ Unhandled' \in Seq(Tokens) /\ Unhandled = buffer \o Unhandled'
           /\ StreamLike(Unhandled')
           /\ \A k \in DOMAIN Unhandled' : Rank(Last(buffer)) < Rank(Unhandled'[k])
<1>1. unsent \in Seq(Tokens) /\ inbox \in Seq(Tokens) /\ buffer \in Seq(Tokens)
    BY DEF TypeOK
<1>2. /\ pc = "parse" /\ pc' \in {"get", "loop"}
      /\ inbox' = inbox /\ unsent' = unsent
    BY DEF Parse, WorkerGoes, client
<1>3. buffer # <<>> /\ Last(buffer).part = "blank"
    BY <1>2 DEF ParseInv, IsBlankLine
<1>4. Outstanding' = inbox /\ Outstanding = buffer \o inbox
    BY <1>2 DEF Outstanding, Reading
<1> DEFINE rest == inbox \o unsent
<1>5. Unhandled' = rest /\ Unhandled = (buffer \o inbox) \o unsent
    BY <1>2, <1>4 DEF Unhandled
<1>6. (buffer \o inbox) \o unsent = buffer \o rest
    BY <1>1, ConcatAssociative, SMTT(30)
<1>7. rest \in Seq(Tokens)
    BY <1>1, ConcatProperties
<1>8. StreamLike(buffer \o rest)
    BY <1>2, <1>5, <1>6 DEF ParseInv, Over
<1> HIDE DEF rest
<1>9. StreamLike(rest) /\ \A k \in DOMAIN rest : Rank(Last(buffer)) < Rank(rest[k])
    BY <1>1, <1>3, <1>7, <1>8, DropStream
<1>10. QED BY <1>1, <1>3, <1>4, <1>5, <1>6, <1>7, <1>9

(* Every step leaves a stream to read.                                     *)
LEMMA ParseStep ==
    ASSUME TypeOK, ParseInv, Next
    PROVE  ParseInv'
<1>1. reqs' = reqs /\ (~Over' => ~Over)
    BY DEF Next, WorkerStep, ClientSends, ClientReceives, ClientLeaves, Stop, LoopTest, IsAlive,
           Receive, ReadDone, ReadFails, ParseThrows, Parse, GetThrows, ProcessGET, Send,
           WriteFailed, Killed, WriteDone, WorkerGoes, client, Over
<1>2. pc' = "parse" => IsBlankLine'
    BY DEF Next, WorkerStep, ClientSends, ClientReceives, ClientLeaves, Stop, LoopTest, IsAlive,
           Receive, ReadDone, ReadFails, ParseThrows, Parse, GetThrows, ProcessGET, Send,
           WriteFailed, Killed, WriteDone, WorkerGoes, ParseInv, IsBlankLine
<1>3. ~Over' => StreamLike(Unhandled')
    <2>1. CASE Parse
        BY <2>1, Parsed
    <2>2. CASE ~Parse
        BY <1>1, <2>2, MovedAlong DEF ParseInv
    <2>3. QED BY <2>1, <2>2
<1>4. QED BY <1>1, <1>2, <1>3 DEF ParseInv

-----------------------------------------------------------------------------
(* Answers.                                                                *)

\* Nothing but Send touches the wire.
WireGrows(k) ==
    /\ wire' \in Seq(WireUnits) /\ DOMAIN wire' = 1..(Len(wire) + k)
    /\ \A i \in DOMAIN wire : i \in DOMAIN wire' /\ wire'[i] = wire[i]
    /\ \A i \in 1..k : wire'[Len(wire) + i] = Unit(Units - left + i)
    /\ \A i \in DOMAIN wire' : i \in DOMAIN wire \/ \E l \in 1..k : i = Len(wire) + l

(* A send puts the next units of the response on the wire.                 *)
LEMMA SendFacts ==
    ASSUME TypeOK, Send
    PROVE  \E k \in 1..left :
             /\ WireGrows(k) /\ left' = left - k
             /\ wire' # <<>> /\ Last(wire') = Unit(Units - left')
<1>1. PICK k \in 1..left :
        /\ wire' = wire \o [i \in 1..k |-> Unit(Units - left + i)]
        /\ left' = left - k
    BY DEF Send
<1> DEFINE more == [i \in 1..k |-> Unit(Units - left + i)]
<1>2. Units \in Nat \ {0} /\ k \in Nat \ {0} /\ left \in Nat /\ left <= Units
    BY <1>1, ConnectionAssumption DEF TypeOK
<1>3. more \in Seq(WireUnits) /\ Len(more) = k
    <2>1. \A i \in 1..k : Unit(Units - left + i) \in WireUnits
        BY <1>1, <1>2 DEF TypeOK, Unit, WireUnits
    <2>2. QED BY <1>2, <2>1
<1>4. \A i \in 1..k : more[i] = Unit(Units - left + i)
    OBVIOUS
<1>5. wire' = wire \o more
    BY <1>1
<1> HIDE DEF more
<1>6. /\ wire' \in Seq(WireUnits) /\ Len(wire') = Len(wire) + Len(more)
      /\ \A i \in 1..(Len(wire) + Len(more)) :
           wire'[i] = IF i <= Len(wire) THEN wire[i] ELSE more[i - Len(wire)]
    <2>1. wire \in Seq(WireUnits) /\ more \in Seq(WireUnits)
        BY <1>3 DEF TypeOK
    <2>2. QED BY <1>5, <2>1, ConcatProperties
<1>7. Len(wire) \in Nat /\ DOMAIN wire = 1..Len(wire)
    BY LenProperties DEF TypeOK
<1>8. Len(wire') = Len(wire) + k /\ DOMAIN wire' = 1..(Len(wire) + k)
    BY <1>3, <1>6, LenProperties
<1>9. \A i \in DOMAIN wire : i \in DOMAIN wire' /\ wire'[i] = wire[i]
    BY <1>2, <1>3, <1>6, <1>7, <1>8
<1>10. ASSUME NEW i \in 1..k PROVE wire'[Len(wire) + i] = Unit(Units - left + i)
    <2>1. /\ Len(wire) + i \in 1..(Len(wire) + Len(more)) /\ ~(Len(wire) + i <= Len(wire))
          /\ (Len(wire) + i) - Len(wire) = i
        BY <1>2, <1>3, <1>7
    <2>2. QED BY <1>4, <1>6, <2>1
<1>11. ASSUME NEW i \in DOMAIN wire', i \notin DOMAIN wire
       PROVE  \E l \in 1..k : i = Len(wire) + l
    <2>1. i - Len(wire) \in 1..k /\ i = Len(wire) + (i - Len(wire))
        BY <1>2, <1>7, <1>8, <1>11
    <2>2. QED BY <2>1
<1>12. wire' # <<>> /\ Last(wire') = Unit(Units - left')
    <2>1. Last(wire') = wire'[Len(wire) + k] /\ k \in 1..k
        BY <1>2, <1>8 DEF Last
    <2>2. Units - left + k = Units - left'
        BY <1>1, <1>2
    <2>3. Len(wire') # 0
        BY <1>2, <1>7, <1>8
    <2>4. QED BY <1>10, <2>1, <2>2, <2>3, EmptySeq
<1>13. QED BY <1>1, <1>6, <1>8, <1>9, <1>10, <1>11, <1>12 DEF WireGrows

(* Nothing but a send changes the wire.                                    *)
LEMMA WireKept ==
    ASSUME Next, ~Send
    PROVE  wire' = wire
BY DEF Next, WorkerStep, ClientSends, ClientReceives, ClientLeaves, Stop, LoopTest, IsAlive,
       Receive, ReadDone, ReadFails, ParseThrows, Parse, GetThrows, ProcessGET,
       WriteFailed, Killed, WriteDone

(* The buffer of a GET begins with a head and ends with a blank line, so   *)
(* that what is left comes after the blank line of the GET.                *)
LEMMA GetParsed ==
    ASSUME TypeOK, ParseInv, Parse, pc' = "get"
    PROVE  /\ current' = buffer[1].req /\ buffer[1].part = "head" /\ buffer[1] \in Tokens
           /\ reqs[current'].line = "GET"
           /\ \A k \in DOMAIN Unhandled' : BlankOf(current') < Rank(Unhandled'[k])
           /\ 1 \in DOMAIN Unhandled /\ Unhandled[1] = buffer[1]
<1>1. /\ buffer \in Seq(Tokens) /\ buffer # <<>> /\ Last(buffer).part = "blank"
      /\ Unhandled = buffer \o Unhandled' /\ Unhandled' \in Seq(Tokens)
      /\ StreamLike(Unhandled)
      /\ \A k \in DOMAIN Unhandled' : Rank(Last(buffer)) < Rank(Unhandled'[k])
    BY Parsed DEF Parse, WorkerGoes, ParseInv, Over
<1>2. current' = buffer[1].req /\ reqs[current'].line = "GET"
    BY DEF Parse, WorkerGoes, IsGETMethod, Kind
<1>3. Len(buffer) \in Nat \ {0} /\ buffer[1] \in Tokens /\ Last(buffer) \in Tokens
    <2>1. Len(buffer) \in Nat \ {0}
        BY <1>1, EmptySeq
    <2>2. QED BY <1>1, <2>1, ElementOfSeq DEF Last
<1>4. \A i \in 1..Len(buffer) : i \in DOMAIN Unhandled /\ Unhandled[i] = buffer[i]
    <2>1. buffer \in Seq(Tokens) /\ Unhandled' \in Seq(Tokens)
        BY <1>1
    <2> DEFINE rest == Unhandled'
    <2> HIDE DEF rest
    <2>2. \A i \in 1..Len(buffer) :
            i \in DOMAIN (buffer \o rest) /\ (buffer \o rest)[i] = buffer[i]
        <3>1. rest \in Seq(Tokens)
            BY <2>1 DEF rest
        <3>2. QED BY <2>1, <3>1, ConcatPlaces
    <2>3. Unhandled = buffer \o rest
        BY <1>1 DEF rest
    <2>4. QED BY <2>2, <2>3
<1> DEFINE b1 == buffer[1]
           last == Last(buffer)
<1>5. b1.part = "head"
    <2>1. 1 \in DOMAIN Unhandled /\ Unhandled[1] = b1 /\ ~(1 > 1)
        BY <1>3, <1>4
    <2>2. b1.part # "blank"
        BY <1>1, <2>1 DEF StreamLike, Chain
    <2>3. QED BY <1>3, <2>2, RankFacts
<1>6. Rank(buffer[1]) <= Rank(Last(buffer))
    <2>1. CASE Len(buffer) = 1
        BY <1>3, <2>1, RankFacts DEF Last
    <2>2. CASE Len(buffer) > 1
        <3>1. /\ 1 \in DOMAIN Unhandled /\ Unhandled[1] = buffer[1]
              /\ Len(buffer) \in DOMAIN Unhandled /\ Unhandled[Len(buffer)] = Last(buffer)
            <4>1. 1 \in 1..Len(buffer) /\ Len(buffer) \in 1..Len(buffer)
                BY <1>3
            <4>2. QED BY <1>4, <4>1 DEF Last
        <3>2. Ordered(Unhandled) /\ 1 < Len(buffer)
            BY <1>1, <2>2 DEF StreamLike
        <3>3. Rank(Unhandled[1]) < Rank(Unhandled[Len(buffer)])
            BY <3>1, <3>2 DEF Ordered
        <3>4. Rank(buffer[1]) \in Nat /\ Rank(Last(buffer)) \in Nat
            BY <1>3, RankFacts
        <3>5. QED BY <3>1, <3>3, <3>4
    <2>3. Len(buffer) = 1 \/ Len(buffer) > 1
        <3>1. Len(buffer) \in Nat \ {0}
            BY <1>3
        <3>2. QED BY <3>1
    <2>4. QED BY <2>1, <2>2, <2>3
<1>7. BlankOf(current') <= Rank(Last(buffer))
    <2>1. b1 \in Tokens /\ last \in Tokens /\ last.part = "blank" /\ Rank(b1) <= Rank(last)
        BY <1>1, <1>3, <1>6
    <2> HIDE DEF b1, last
    <2>2. /\ Rank(b1) = 2 * b1.req /\ Rank(last) = 2 * last.req + 1
          /\ b1.req \in 1..Requests /\ last.req \in 1..Requests /\ Requests \in Nat
        BY <1>5, <2>1, RankFacts, ConnectionAssumption
    <2>3. 2 * b1.req + 1 <= Rank(last)
        BY <2>1, <2>2
    <2>4. QED BY <1>2, <2>3 DEF BlankOf, b1, last
<1>8. ASSUME NEW k \in DOMAIN Unhandled' PROVE BlankOf(current') < Rank(Unhandled'[k])
    <2>1. Unhandled'[k] \in Tokens
        BY <1>1, ElementOfSeq, LenProperties
    <2>2. Rank(Unhandled'[k]) \in Nat /\ Rank(Last(buffer)) \in Nat
        BY <1>3, <2>1, RankFacts
    <2>3. BlankOf(current') \in Int
        <3>1. b1.req \in 1..Requests /\ Requests \in Nat
            BY <1>3, RankFacts, ConnectionAssumption
        <3>2. QED BY <1>2, <3>1 DEF BlankOf
    <2>4. QED BY <1>1, <1>7, <2>2, <2>3
<1>9. QED BY <1>2, <1>3, <1>4, <1>5, <1>8

(* What no step changes, and what only Parse does.                         *)
LEMMA KeptFacts ==
    ASSUME Next
    PROVE  /\ reqs' = reqs /\ secure' = secure /\ pipelines' = pipelines
           /\ ~Over' => ~Over
           /\ ~Parse => /\ current' = current
                        /\ pc' \in {"get", "write"} => pc \in {"get", "write"}
BY DEF Next, WorkerStep, ClientSends, ClientReceives, ClientLeaves, Stop, LoopTest, IsAlive,
       Receive, ReadDone, ReadFails, ParseThrows, Parse, GetThrows, ProcessGET, Send,
       WriteFailed, Killed, WriteDone, WorkerGoes, client, answer, Over

(* What is still unhandled after Parse was so before.                      *)
LEMMA StillUnhandled ==
    ASSUME TypeOK, ParseInv, Parse, NEW k \in DOMAIN Unhandled'
    PROVE  Len(buffer) + k \in DOMAIN Unhandled /\ Unhandled[Len(buffer) + k] = Unhandled'[k]
<1> DEFINE rest == Unhandled'
<1>1. buffer \in Seq(Tokens) /\ rest \in Seq(Tokens) /\ Unhandled = buffer \o rest
    BY Parsed
<1>2. k \in DOMAIN rest
    OBVIOUS
<1> HIDE DEF rest
<1>3. Len(buffer) + k \in DOMAIN (buffer \o rest) /\ (buffer \o rest)[Len(buffer) + k] = rest[k]
    <2>1. buffer \in Seq(Tokens) /\ rest \in Seq(Tokens)
        BY <1>1
    <2>2. QED BY <1>2, <2>1, ConcatPlaces
<1>4. QED BY <1>1, <1>3 DEF rest

(* Answers stay behind what is left to handle.                             *)
LEMMA HandledStep ==
    ASSUME TypeOK, ParseInv, HandledInv, Next
    PROVE  HandledInv'
<1> USE DEF BlankOf
<1>1. wire \in Seq(WireUnits) /\ \A i \in DOMAIN wire : wire[i] \in WireUnits
    BY ElementOfSeq, LenProperties DEF TypeOK
<1>2. \A i \in DOMAIN wire : wire[i].req \in 1..Requests
    BY <1>1 DEF WireUnits
<1>3. Requests \in Nat
    BY ConnectionAssumption
<1>4. CASE Parse
    <2>1. wire' = wire /\ reqs' = reqs /\ ~Over /\ pc' \in {"get", "loop"}
        BY <1>4 DEF Parse, WorkerGoes, client, Over
    <2>2. CASE pc' = "get"
        <3>1. /\ reqs[current'].line = "GET" /\ current' \in 1..Requests
              /\ 1 \in DOMAIN Unhandled /\ Rank(Unhandled[1]) = 2 * current'
              /\ \A k \in DOMAIN Unhandled' : BlankOf(current') < Rank(Unhandled'[k])
            BY <1>4, <2>2, GetParsed, RankFacts
        <3>2. ASSUME NEW i \in DOMAIN wire, NEW k \in DOMAIN Unhandled'
              PROVE  BlankOf(wire[i].req) < Rank(Unhandled'[k])
            <4>1. BlankOf(wire[i].req) < Rank(Unhandled[1])
                BY <2>1, <3>1 DEF HandledInv
            <4>2. BlankOf(current') < Rank(Unhandled'[k])
                BY <3>1
            <4>3. Unhandled'[k] \in Tokens
                BY <1>4, Parsed, ElementOfSeq, LenProperties
            <4>4. Rank(Unhandled'[k]) \in Nat
                BY <4>3, RankFacts
            <4>5. QED BY <1>2, <1>3, <3>1, <4>1, <4>2, <4>4
        <3>3. QED BY <2>1, <2>2, <3>1, <3>2 DEF HandledInv
    <2>3. CASE pc' = "loop"
        <3>1. ASSUME NEW i \in DOMAIN wire, NEW k \in DOMAIN Unhandled'
              PROVE  BlankOf(wire[i].req) < Rank(Unhandled'[k])
            BY <1>4, <2>1, StillUnhandled DEF HandledInv
        <3>2. QED BY <2>1, <2>3, <3>1 DEF HandledInv
    <2>4. QED BY <2>1, <2>2, <2>3
<1>5. CASE Send
    <2>1. PICK k \in 1..left : WireGrows(k)
        BY <1>5, SendFacts
    <2>2. /\ pc = "write" /\ pc' = "write" /\ current' = current /\ reqs' = reqs
          /\ Unhandled' = Unhandled /\ ~Over
        <3>1. ~Over' /\ ~Parse
            BY <1>5 DEF Send, Parse, WorkerGoes, Over
        <3>2. QED BY <1>5, <3>1, MovedAlong DEF Send, WorkerGoes, Over, client
    <2>3. ASSUME NEW i \in DOMAIN wire', ~(i \in DOMAIN wire /\ wire'[i] = wire[i])
          PROVE  wire'[i].req = current
        <3>1. PICK l \in 1..k : i = Len(wire) + l
            BY <2>1, <2>3 DEF WireGrows
        <3>2. wire'[Len(wire) + l] = Unit(Units - left + l)
            BY <2>1 DEF WireGrows
        <3>3. QED BY <3>1, <3>2 DEF Unit
    <2>4. QED BY <2>2, <2>3 DEF HandledInv
<1>6. CASE ~Parse /\ ~Send
    <2>1. wire' = wire /\ (~Over' => Unhandled' = Unhandled)
        BY <1>6, WireKept, MovedAlong
    <2>2. QED BY <1>6, <2>1, KeptFacts DEF HandledInv
<1>7. QED BY <1>4, <1>5, <1>6

(* A response begun after the stop is the last of the connection.          *)
LEMMA LateStep ==
    ASSUME TypeOK, LateInv, Next
    PROVE  LateInv'
BY DEF TypeOK, LateInv, Next, WorkerStep, ClientSends, ClientReceives, ClientLeaves, Stop,
       LoopTest, IsAlive, Receive, ReadDone, ReadFails, ParseThrows, Parse, GetThrows,
       ProcessGET, Send, WriteFailed, Killed, WriteDone, WorkerGoes

(* Where the wire ends.                                                    *)
LEMMA WireStep ==
    ASSUME TypeOK, ParseInv, HandledInv, WireInv, Next
    PROVE  WireInv'
<1>1. /\ Requests \in Nat \ {0} /\ Units \in Nat \ {0}
      /\ left \in 0..Units /\ current \in 1..Requests
    BY ConnectionAssumption DEF TypeOK
<1>2. CASE Parse
    <2>1. wire' = wire /\ pc = "parse" /\ pc' \in {"get", "loop"}
        BY <1>2 DEF Parse, WorkerGoes
    <2>2. EndsWhole'
        BY <2>1 DEF WireInv, EndsWhole
    <2>3. ASSUME pc' = "get", NEW i \in DOMAIN wire PROVE wire[i].req < current'
        <3>1. /\ 1 \in DOMAIN Unhandled /\ Rank(Unhandled[1]) = 2 * current'
              /\ current' \in 1..Requests
            BY <1>2, <2>3, GetParsed, RankFacts
        <3>2. BlankOf(wire[i].req) < Rank(Unhandled[1])
            BY <2>1, <3>1 DEF HandledInv, Over
        <3>3. wire[i].req \in 1..Requests
            <4>1. wire \in Seq(WireUnits)
                BY DEF TypeOK
            <4>2. wire[i] \in WireUnits
                BY <4>1, ElementOfSeq, LenProperties
            <4>3. QED BY <4>2 DEF WireUnits
        <3>4. QED BY <1>1, <3>1, <3>2, <3>3 DEF BlankOf
    <2>4. QED BY <2>1, <2>2, <2>3 DEF WireInv
<1>3. CASE ProcessGET
    BY <1>1, <1>3 DEF ProcessGET, WorkerGoes, WireInv, EndsWhole
<1>4. CASE Send
    <2>1. PICK k \in 1..left :
            left' = left - k /\ wire' # <<>> /\ Last(wire') = Unit(Units - left')
        BY <1>4, SendFacts
    <2>2. left' < Units
        BY <1>1, <2>1
    <2>3. Unit(Units - left)' = Unit(Units - left')
        BY <1>4 DEF Send, Unit
    <2>4. QED BY <1>4, <2>1, <2>2, <2>3 DEF Send, WorkerGoes, WireInv
<1>5. CASE WriteFailed
    <2>1. CASE pc' = "closed"
        BY <2>1 DEF WireInv
    <2>2. CASE pc' = "write"
        <3>1. /\ pc = "write" /\ reply = "200" /\ ~secure /\ SendFails
              /\ reply' = "404" /\ left' = Units /\ wire' = wire /\ current' = current
              /\ secure' = secure /\ reset' = reset
            BY <1>5, <2>2 DEF WriteFailed, client, peer
        <3>2. CASE left < Units
            <4>1. wire # <<>> /\ Last(wire) = Unit(Units - left)
                BY <3>1, <3>2 DEF WireInv
            <4>2. Units - left < Units \/ reset
                BY <1>1, <3>1, <3>2 DEF SendFails
            <4>3. Interrupted'
                BY <3>1, <4>1, <4>2 DEF Interrupted, Unit
            <4>4. QED BY <1>1, <2>2, <3>1, <4>3 DEF WireInv
        <3>3. CASE ~(left < Units)
            BY <1>1, <2>2, <3>1, <3>3 DEF WireInv, EndsWhole, Interrupted
        <3>4. QED BY <3>2, <3>3
    <2>3. QED BY <1>5, <2>1, <2>2 DEF WriteFailed
<1>6. CASE WriteDone
    <2>1. wire' = wire /\ pc = "write" /\ left = 0 /\ left < Units
        BY <1>1, <1>6 DEF WriteDone, WorkerGoes
    <2>2. Last(wire) = Unit(Units)
        BY <1>1, <2>1 DEF WireInv
    <2>3. CASE reply = "200"
        BY <1>6, <2>1, <2>2, <2>3 DEF WriteDone, WorkerGoes, WireInv, EndsWhole, Unit
    <2>4. CASE reply # "200"
        BY <1>6, <2>4 DEF WriteDone, WorkerGoes, WireInv
    <2>5. QED BY <2>3, <2>4
<1>7. CASE ~(Parse \/ ProcessGET \/ Send \/ WriteFailed \/ WriteDone)
    <2>1. /\ wire' = wire /\ current' = current /\ reply' = reply /\ left' = left
          /\ secure' = secure /\ (reset => reset')
          /\ pc' \in {"loop", "alive", "read", "parse", "get"} =>
               pc \in {"loop", "alive", "read", "parse", "get"}
          /\ pc' = "get" => pc = "get"
          /\ pc' = "write" => pc = "write"
        BY <1>7 DEF TypeOK, Next, WorkerStep, ClientSends, ClientReceives, ClientLeaves, Stop,
             LoopTest, IsAlive, Receive, ReadDone, ReadFails, ParseThrows, GetThrows, Killed,
             WorkerGoes, client, peer, answer
    <2>2. Unit(Units - left)' = Unit(Units - left)
        BY <2>1 DEF Unit
    <2>3. (Interrupted => Interrupted') /\ (EndsWhole => EndsWhole')
        BY <2>1 DEF Interrupted, EndsWhole
    <2>4. QED BY <2>1, <2>2, <2>3 DEF WireInv
<1>8. QED BY <1>2, <1>3, <1>4, <1>5, <1>6, <1>7

(* What send puts after the wire's last unit is what may follow it.        *)
LEMMA WellFormedStep ==
    ASSUME TypeOK, WireInv, WireWellFormed, Next
    PROVE  WireWellFormed'
<1>1. CASE ~Send
    BY <1>1, WireKept, KeptFacts DEF WireWellFormed
<1>2. CASE Send
    <2>1. PICK k \in 1..left : WireGrows(k)
        BY <1>2, SendFacts
    <2>2. /\ pc = "write" /\ ~reset /\ secure' = secure
          /\ Units \in Nat \ {0} /\ left \in 0..Units
          /\ Len(wire) \in Nat /\ DOMAIN wire = 1..Len(wire)
        BY <1>2, ConnectionAssumption, LenProperties DEF Send, WorkerGoes, client, TypeOK
    <2> DEFINE Follows(i) ==
                 IF wire'[i].unit > 1
                 THEN i > 1 /\ wire'[i - 1] = [wire'[i] EXCEPT !.unit = @ - 1]
                 ELSE \/ i = 1
                      \/ /\ wire'[i - 1].unit = Units /\ wire'[i - 1].reply = "200"
                         /\ wire'[i - 1].req < wire'[i].req
                      \/ /\ ~secure /\ wire'[i - 1].reply = "200" /\ wire'[i - 1].unit < Units
                         /\ wire'[i].reply = "404" /\ wire'[i - 1].req = wire'[i].req
    <2>3. ASSUME NEW i \in DOMAIN wire PROVE Follows(i)
        <3>1. wire'[i] = wire[i] /\ (i > 1 => wire'[i - 1] = wire[i - 1])
            BY <2>1, <2>2 DEF WireGrows
        <3>2. i = 1 \/ i > 1
            BY <2>2
        <3>3. QED BY <3>1, <3>2 DEF WireWellFormed
    <2>4. ASSUME NEW l \in 1..k PROVE Follows(Len(wire) + l)
        <3> DEFINE i == Len(wire) + l
        <3>1. wire'[i] = Unit(Units - left + l)
            BY <2>1 DEF WireGrows
        <3>2. CASE l > 1
            <4>1. l - 1 \in 1..k /\ i - 1 = Len(wire) + (l - 1) /\ i > 1
                BY <2>2, <3>2
            <4>2. wire'[i - 1] = Unit(Units - left + (l - 1))
                BY <2>1, <4>1 DEF WireGrows
            <4>3. /\ Units - left + l > 1
                  /\ Units - left + (l - 1) = (Units - left + l) - 1
                BY <2>2, <3>2
            <4>4. QED BY <3>1, <4>1, <4>2, <4>3 DEF Unit
        <3>3. CASE l = 1
            <4>1. i - 1 = Len(wire) /\ i > 0 /\ (i = 1 <=> Len(wire) = 0)
                BY <2>2, <3>3
            <4>2. wire # <<>> => wire'[i - 1] = Last(wire) /\ i > 1
                <5>1. wire # <<>> => Len(wire) \in DOMAIN wire
                    BY EmptySeq, LenProperties DEF TypeOK
                <5>2. QED BY <2>1, <2>2, <4>1, <5>1 DEF WireGrows, Last
            <4>3. wire = <<>> => i = 1
                BY <4>1
            <4>4. CASE left < Units
                <5>1. wire # <<>> /\ Last(wire) = Unit(Units - left)
                    BY <2>2, <4>4 DEF WireInv
                <5>2. Units - left + 1 > 1 /\ (Units - left + 1) - 1 = Units - left
                    BY <2>2, <4>4
                <5>3. QED BY <3>1, <3>3, <4>2, <5>1, <5>2 DEF Unit
            <4>5. CASE ~(left < Units)
                <5>1. wire'[i] = Unit(1)
                    BY <2>2, <3>1, <3>3, <4>5
                <5>2. Interrupted \/ (EndsWhole /\ \A j \in DOMAIN wire : wire[j].req < current)
                    BY <2>2, <4>5 DEF WireInv
                <5>3. CASE wire = <<>>
                    BY <4>3, <5>1, <5>3 DEF Unit
                <5>4. CASE wire # <<>> /\ Interrupted
                    BY <2>2, <4>2, <5>1, <5>4 DEF Interrupted, Unit
                <5>5. CASE wire # <<>> /\ EndsWhole /\ \A j \in DOMAIN wire : wire[j].req < current
                    <6>1. Len(wire) \in DOMAIN wire
                        BY <2>2, <4>1, <4>2, <5>5
                    <6>2. QED BY <4>2, <5>1, <5>5, <6>1 DEF EndsWhole, Unit, Last
                <5>6. QED BY <5>2, <5>3, <5>4, <5>5
            <4>6. QED BY <4>4, <4>5
        <3>4. QED BY <3>2, <3>3
    <2>5. ASSUME NEW i \in DOMAIN wire' PROVE Follows(i)
        <3>1. i \in DOMAIN wire \/ \E l \in 1..k : i = Len(wire) + l
            BY <2>1 DEF WireGrows
        <3> HIDE DEF Follows
        <3>2. QED BY <2>3, <2>4, <3>1
    <2>6. QED BY <2>2, <2>5 DEF WireWellFormed
<1>3. QED BY <1>1, <1>2

-----------------------------------------------------------------------------
(* A client that waits for its answers.                                    *)

(* A text of which the client has an answer was read as a GET.             *)
LEMMA SentAfterAnswer ==
    ASSUME TypeOK, HandledInv, NEW n \in Nat,
           UnitsOf(n, SubSeq(wire, 1, received)) >= Units
    PROVE  \E i \in DOMAIN wire : wire[i].req = n
<1> DEFINE s == SubSeq(wire, 1, received)
           T == {i \in DOMAIN s : s[i].req = n}
<1>1. T # {}
    <2>1. Cardinality(T) >= Units /\ Units \in Nat \ {0}
        BY ConnectionAssumption DEF UnitsOf
    <2>2. Cardinality({}) = 0
        BY FS_EmptySet
    <2> HIDE DEF T
    <2>3. QED BY <2>1, <2>2
<1>2. /\ wire \in Seq(WireUnits) /\ Len(wire) \in Nat /\ DOMAIN wire = 1..Len(wire)
      /\ received \in 0..Len(wire)
    BY LenProperties DEF TypeOK
<1>3. DOMAIN s = 1..received /\ \A i \in 1..received : s[i] = wire[i]
    BY <1>2
<1> HIDE DEF s
<1>4. QED BY <1>1, <1>2, <1>3

(* When it sends a request nothing is under way.                           *)
LEMMA OneRequestSent ==
    ASSUME TypeOK, ParseInv, HandledInv, ClientSends, ~Over, ~pipelines, GETsHaveNoBody,
           unsent[1].part = "head", ~reqs[unsent[1].req].body
    PROVE  DOMAIN Outstanding = {}
<1>1. SUFFICES ASSUME NEW k \in DOMAIN Outstanding PROVE FALSE
    OBVIOUS
<1> DEFINE t == unsent[1]
           p == Len(Outstanding) + 1
<1>2. Outstanding \in Seq(Tokens) /\ unsent \in Seq(Tokens) /\ unsent # <<>>
    BY ConcatProperties DEF TypeOK, Outstanding, ClientSends
<1>3. /\ \A i \in DOMAIN Outstanding : i \in DOMAIN Unhandled /\ Unhandled[i] = Outstanding[i]
      /\ p \in DOMAIN Unhandled /\ Unhandled[p] = t
      /\ Len(Outstanding) \in Nat /\ DOMAIN Outstanding = 1..Len(Outstanding)
    <2>1. Outstanding \in Seq(Tokens) /\ unsent \in Seq(Tokens)
        BY <1>2
    <2>2. 1 \in DOMAIN unsent
        BY <1>2, EmptySeq, LenProperties
    <2>3. QED BY <2>1, <2>2, ConcatPlaces DEF Unhandled
<1>4. t \in Tokens /\ Head(unsent) = t
    BY <1>2, MoveOne
<1>5. Outstanding[k] \in Tokens
    BY <1>2, <1>3, ElementOfSeq
<1>6. k \in DOMAIN Unhandled /\ Unhandled[k] = Outstanding[k] /\ k < p
    BY <1>3
<1>7. Rank(Outstanding[k]) < Rank(t)
    BY <1>3, <1>6 DEF ParseInv, StreamLike, Ordered
<1>8. /\ Rank(t) = 2 * t.req /\ t.req \in 1..Requests /\ Requests \in Nat
      /\ Outstanding[k].req \in 1..Requests
      /\ Rank(Outstanding[k]) \in Nat /\ Rank(Outstanding[k]) >= 2 * Outstanding[k].req
    BY <1>4, <1>5, RankFacts, ConnectionAssumption
<1>9. t.req # 1
    <2>1. Rank(Outstanding[k]) >= 2
        BY <1>8
    <2> HIDE DEF t
    <2>2. QED BY <1>7, <1>8, <2>1
<1>10. HasAnswerBefore(t.req)
    <2>1. t.part # "blank" /\ ~reqs[t.req].body
        OBVIOUS
    <2>2. QED BY <1>4, <1>9, <2>1 DEF ClientSends
<1>11. PICK m \in 1..(t.req - 1) :
         /\ UnitsOf(m, SubSeq(wire, 1, received)) >= Units
         /\ \A l \in (m + 1)..(t.req - 1) : reqs[l].body
    BY <1>10 DEF HasAnswerBefore
<1>12. m \in Nat /\ m \in 1..Requests
    BY <1>8
<1>13. PICK i \in DOMAIN wire : wire[i].req = m
    BY <1>11, <1>12, SentAfterAnswer
<1>14. reqs[m].line = "GET" /\ BlankOf(m) < Rank(Outstanding[k])
    BY <1>6, <1>13 DEF HandledInv
<1>15. m = t.req - 1
    <2>1. SUFFICES ASSUME m # t.req - 1 PROVE FALSE
        OBVIOUS
    <2>2. m + 1 \in (m + 1)..(t.req - 1) /\ m \in 1..(Requests - 1)
        BY <1>8, <1>12, <2>1
    <2>3. reqs[m + 1].body
        BY <1>11, <2>2
    <2>4. QED BY <1>14, <2>2, <2>3 DEF GETsHaveNoBody
<1> HIDE DEF t
<1>16. QED BY <1>7, <1>8, <1>14, <1>15 DEF BlankOf

(* A client that waits sends no request while something is under way.      *)
LEMMA OneRequestStep ==
    ASSUME TypeOK, ParseInv, HandledInv, OneRequest, Next, ~Over', ~pipelines, GETsHaveNoBody
    PROVE  OneRequest'
<1>1. ~Over /\ reqs' = reqs
    BY KeptFacts
<1>2. /\ Outstanding \in Seq(Tokens) /\ unsent \in Seq(Tokens)
      /\ inbox \in Seq(Tokens) /\ buffer \in Seq(Tokens)
    BY ConcatProperties DEF TypeOK, Outstanding
<1>3. CASE Parse
    <2>1. Outstanding' = inbox /\ Outstanding = buffer \o inbox
        BY <1>3, Parsed
    <2>2. \A i \in DOMAIN inbox :
            /\ Len(buffer) + i \in DOMAIN (buffer \o inbox)
            /\ (buffer \o inbox)[Len(buffer) + i] = inbox[i]
        BY <1>2, ConcatPlaces
    <2>3. SUFFICES ASSUME NEW i \in DOMAIN inbox, inbox[i].part = "head",
                          ~reqs[inbox[i].req].body
                   PROVE  FALSE
        BY <1>1, <2>1 DEF OneRequest
    <2>4. Len(buffer) + i \in DOMAIN Outstanding /\ Outstanding[Len(buffer) + i] = inbox[i]
        BY <2>1, <2>2
    <2>5. Len(buffer) + i = 1
        BY <2>3, <2>4 DEF OneRequest
    <2>6. Len(buffer) \in Nat \ {0} /\ i \in 1..Len(inbox)
        BY <1>2, <1>3, Parsed, EmptySeq, LenProperties
    <2>7. QED BY <2>5, <2>6
<1>4. CASE ~Parse /\ Outstanding' = Outstanding
    BY <1>1, <1>4 DEF OneRequest
<1>5. CASE ClientSends /\ Outstanding' = Append(Outstanding, unsent[1])
    <2>1. unsent[1] \in Tokens
        BY <1>2, <1>5, MoveOne DEF ClientSends
    <2>2. \A i \in DOMAIN Outstanding' :
            \/ i \in DOMAIN Outstanding /\ Outstanding'[i] = Outstanding[i]
            \/ Outstanding'[i] = unsent[1] /\ i = Len(Outstanding) + 1
        <3>1. Outstanding \in Seq(Tokens) /\ Len(Outstanding) \in Nat
              /\ DOMAIN Outstanding = 1..Len(Outstanding)
            BY <1>2, LenProperties
        <3>2. QED BY <1>5, <2>1, <3>1, AppendProperties
    <2>3. CASE unsent[1].part = "head" /\ ~reqs[unsent[1].req].body
        <3>1. DOMAIN Outstanding = {}
            BY <1>1, <1>5, <2>3, OneRequestSent
        <3>2. Len(Outstanding) + 1 = 1
            BY <1>2, <3>1, LenProperties
        <3>3. QED BY <2>2, <3>1, <3>2 DEF OneRequest
    <2>4. CASE ~(unsent[1].part = "head" /\ ~reqs[unsent[1].req].body)
        BY <1>1, <2>2, <2>4 DEF OneRequest
    <2>5. QED BY <2>3, <2>4
<1>6. QED BY <1>3, <1>4, <1>5, MovedAlong

(* An answer that is whole stays on the wire.                              *)
LEMMA AnsweredKept ==
    ASSUME TypeOK, Next, NEW n, Answered(n)
    PROVE  Answered(n)'
<1>1. CASE Send
    BY <1>1, SendFacts DEF Answered, WireGrows
<1>2. CASE ~Send
    BY <1>2, WireKept DEF Answered
<1>3. QED BY <1>1, <1>2

(* No step loses a GET: Parse begins with its head, and the loop is gone   *)
(* on with only when the answer is whole.                                  *)
LEMMA NoneDroppedStep ==
    ASSUME TypeOK, ParseInv, WireInv, OneRequest, NoneDropped, Next,
           ~Over', ~pipelines, GETsHaveNoBody
    PROVE  NoneDropped'
<1>1. ~Over /\ reqs' = reqs
    BY KeptFacts
<1>2. SUFFICES ASSUME NEW n \in 1..Requests, reqs[n].line = "GET", ~reqs[n].body
               PROVE  (Pending(n) \/ Answered(n) \/ (pc \in {"get", "write"} /\ current = n))'
    BY <1>1 DEF NoneDropped
<1>3. Pending(n) \/ Answered(n) \/ (pc \in {"get", "write"} /\ current = n)
    BY <1>2 DEF NoneDropped
<1>4. CASE Answered(n)
    BY <1>4, AnsweredKept
<1>5. CASE Pending(n) /\ ~Parse
    BY <1>1, <1>5, MovedAlong DEF Pending
<1>6. CASE Pending(n) /\ Parse
    <2>1. PICK i \in DOMAIN Unhandled : Unhandled[i].req = n
        BY <1>6 DEF Pending
    <2>2. /\ buffer \in Seq(Tokens) /\ buffer # <<>> /\ Outstanding = buffer \o inbox
          /\ Unhandled' \in Seq(Tokens) /\ Unhandled = buffer \o Unhandled'
          /\ inbox \in Seq(Tokens)
        BY <1>6, Parsed DEF TypeOK
    <2> DEFINE rest == Unhandled'
    <2>3. buffer \in Seq(Tokens) /\ rest \in Seq(Tokens) /\ Unhandled = buffer \o rest
        BY <2>2
    <2> HIDE DEF rest
    <2>4. /\ i \in DOMAIN buffer \/ \E j \in DOMAIN rest : i = Len(buffer) + j
          /\ \A j \in DOMAIN buffer : j \in DOMAIN Unhandled /\ Unhandled[j] = buffer[j]
          /\ \A j \in DOMAIN rest : Unhandled[Len(buffer) + j] = rest[j]
        <3>1. buffer \in Seq(Tokens) /\ rest \in Seq(Tokens)
            BY <2>3
        <3>2. i \in DOMAIN (buffer \o rest)
            BY <2>1, <2>3
        <3>3. QED BY <2>3, <3>1, <3>2, ConcatPlaces
    <2>5. CASE \E j \in DOMAIN rest : i = Len(buffer) + j
        BY <2>1, <2>4, <2>5 DEF Pending, rest
    <2>6. CASE i \in DOMAIN buffer
        <3>1. 1 \in DOMAIN buffer
            BY <2>2, EmptySeq, LenProperties
        <3>2. buffer[1] \in Tokens
            BY <2>2, MoveOne
        <3>3. \A j \in DOMAIN buffer : j \in DOMAIN Outstanding /\ Outstanding[j] = buffer[j]
            <4>1. buffer \in Seq(Tokens) /\ inbox \in Seq(Tokens)
                BY <2>2
            <4>2. QED BY <2>2, <4>1, ConcatPlaces
        <3>4. DOMAIN buffer = 1..Len(buffer) /\ Len(buffer) \in Nat /\ buffer[i] \in Tokens
            BY <2>2, <2>6, ElementOfSeq, LenProperties
        <3>5. PICK j \in DOMAIN buffer : buffer[j].part = "head" /\ buffer[j].req = n
            <4>1. CASE buffer[i].part = "head"
                BY <2>1, <2>4, <2>6, <4>1
            <4>2. CASE buffer[i].part = "blank"
                <5>1. i > 1 /\ Unhandled[i - 1] = [req |-> n, part |-> "head"]
                    BY <1>1, <2>1, <2>4, <2>6, <4>2 DEF ParseInv, StreamLike, Chain
                <5>2. i - 1 \in DOMAIN buffer
                    BY <2>6, <3>4, <5>1
                <5>3. QED BY <2>4, <5>1, <5>2
            <4>3. QED BY <3>4, <4>1, <4>2, RankFacts
        <3>6. j = 1
            BY <1>2, <3>3, <3>5 DEF OneRequest
        <3>7. pc' = "get" /\ current' = n
            BY <1>2, <1>6, <3>5, <3>6 DEF Parse, WorkerGoes, IsGETMethod, Kind
        <3>8. QED BY <3>7
    <2>7. QED BY <2>4, <2>5, <2>6
<1>7. CASE pc \in {"get", "write"} /\ current = n
    <2>1. ~Parse
        BY <1>7 DEF Parse, WorkerGoes
    <2>2. current' = current
        BY <2>1, KeptFacts
    <2>3. CASE WriteDone
        <3>1. wire' = wire /\ reply = "200" /\ left = 0 /\ pc = "write"
            BY <1>1, <2>3 DEF WriteDone, WorkerGoes, Over
        <3>2. wire # <<>> /\ Last(wire) = Unit(Units)
            BY <3>1, ConnectionAssumption DEF WireInv
        <3>3. wire \in Seq(WireUnits) /\ Len(wire) \in DOMAIN wire
            BY <3>2, EmptySeq, LenProperties DEF TypeOK
        <3>4. wire[Len(wire)] = [req |-> n, reply |-> "200", unit |-> Units]
            BY <1>7, <3>1, <3>2 DEF Last, Unit
        <3>5. Answered(n)
            BY <3>3, <3>4 DEF Answered
        <3>6. QED BY <3>5, AnsweredKept
    <2>4. CASE ~WriteDone
        <3>1. pc' \in {"get", "write"}
            BY <1>7, <2>1, <2>4 DEF Next, WorkerStep, ClientSends, ClientReceives, ClientLeaves,
                 Stop, LoopTest, IsAlive, Receive, ReadDone, ReadFails, ParseThrows, GetThrows,
                 ProcessGET, Send, WriteFailed, Killed, WorkerGoes, Over
        <3>2. QED BY <1>7, <2>2, <3>1
    <2>5. QED BY <2>3, <2>4
<1>8. QED BY <1>3, <1>4, <1>5, <1>6, <1>7

(* What holds of a client that waits goes on to hold.                      *)
LEMMA WaitingStep ==
    ASSUME TypeOK, ParseInv, HandledInv, WireInv, WaitingInv, Next
    PROVE  WaitingInv'
<1>1. (GETsHaveNoBody' => GETsHaveNoBody) /\ pipelines' = pipelines /\ (~Over' => ~Over)
    BY KeptFacts DEF GETsHaveNoBody
<1>2. QED BY <1>1, OneRequestStep, NoneDroppedStep DEF WaitingInv

-----------------------------------------------------------------------------
(* The theorems.                                                           *)

(* A new connection.                                                       *)
LEMMA InitHolds ==
    ASSUME Init
    PROVE  TypeOK /\ ConnectionInv /\ WireWellFormed
<1>1. /\ reqs \in [1..Requests -> Kinds] /\ ~reqs[1].body
      /\ unsent = Stream(reqs) /\ inbox = <<>>
      /\ pc = "loop" /\ wire = <<>> /\ DOMAIN wire = {} /\ late = 0
    BY ConnectionAssumption DEF Init
<1>2. /\ StreamLike(Stream(reqs)) /\ Stream(reqs) \in Seq(Tokens)
      /\ \A n \in 1..Requests :
           \E i \in DOMAIN Stream(reqs) : Stream(reqs)[i] = [req |-> n, part |-> "head"]
    BY <1>1, StreamFacts DEF StreamLike
<1>3. TypeOK
    <2>1. unsent \in Seq(Tokens) /\ reqs \in [1..Requests -> Kinds] /\ ~reqs[1].body
        BY <1>1, <1>2
    <2>2. 1 \in 1..Requests /\ 0 \in 0..Units
        BY ConnectionAssumption
    <2>3. <<>> \in Seq(Tokens) /\ <<>> \in Seq(WireUnits) /\ Len(<<>>) = 0
        OBVIOUS
    <2>4. received \in 0..Len(wire) /\ late \in Nat
        BY <2>3 DEF Init
    <2>5. QED BY <2>1, <2>2, <2>3, <2>4 DEF Init, TypeOK, Pcs, Replies
<1>4. Outstanding = <<>> /\ Unhandled = Stream(reqs)
    <2>1. Outstanding = <<>>
        BY <1>1 DEF Outstanding, Reading
    <2>2. <<>> \o Stream(reqs) = Stream(reqs)
        BY <1>2, ConcatEmptySeq
    <2>3. QED BY <1>1, <2>1, <2>2 DEF Unhandled
<1>5. ParseInv
    BY <1>1, <1>2, <1>4 DEF ParseInv
<1>6. HandledInv /\ LateInv /\ WireWellFormed
    BY <1>1 DEF HandledInv, LateInv, WireWellFormed
<1>7. WireInv
    BY <1>1 DEF WireInv, EndsWhole
<1>8. OneRequest
    BY <1>4 DEF OneRequest
<1>9. NoneDropped
    <2>1. \A n \in 1..Requests : Pending(n)
        BY <1>2, <1>4 DEF Pending
    <2>2. QED BY <2>1 DEF NoneDropped
<1>10. QED BY <1>3, <1>5, <1>6, <1>7, <1>8, <1>9 DEF ConnectionInv, WaitingInv

(* Every reachable state has the inductive invariant.                      *)
LEMMA Invariant ==
    Spec => [](TypeOK /\ ConnectionInv /\ WireWellFormed)
<1>1. Init => TypeOK /\ ConnectionInv /\ WireWellFormed
    BY InitHolds
<1>2. TypeOK /\ ConnectionInv /\ WireWellFormed /\ [Next]_vars
        => (TypeOK /\ ConnectionInv /\ WireWellFormed)'
    <2>1. SUFFICES ASSUME TypeOK, ConnectionInv, WireWellFormed, [Next]_vars
                   PROVE  (TypeOK /\ ConnectionInv /\ WireWellFormed)'
        OBVIOUS
    <2>2. CASE Next
        <3>1. TypeOK' /\ ParseInv'
            BY <2>1, <2>2, TypeStep, ParseStep DEF ConnectionInv
        <3>2. HandledInv' /\ LateInv'
            BY <2>1, <2>2, HandledStep, LateStep DEF ConnectionInv
        <3>3. WireInv' /\ WireWellFormed'
            BY <2>1, <2>2, WireStep, WellFormedStep DEF ConnectionInv
        <3>4. WaitingInv'
            BY <2>1, <2>2, WaitingStep DEF ConnectionInv
        <3>5. QED BY <3>1, <3>2, <3>3, <3>4 DEF ConnectionInv
    <2>3. CASE UNCHANGED vars
        <3>1. TypeOK' /\ WireWellFormed'
            BY <2>1, <2>3 DEF vars, client, peer, answer, TypeOK, WireWellFormed
        <3>2. /\ Unhandled' = Unhandled /\ Outstanding' = Outstanding /\ Over' = Over
              /\ reqs' = reqs /\ wire' = wire /\ pc' = pc
            BY <2>3 DEF vars, client, peer, answer, Unhandled, Outstanding, Reading, Over
        <3>3. ParseInv' /\ HandledInv' /\ LateInv'
            BY <2>1, <2>3, <3>2 DEF vars, client, peer, answer, ConnectionInv, ParseInv,
                 IsBlankLine, HandledInv, LateInv
        <3>4. WireInv'
            BY <2>1, <2>3 DEF vars, client, peer, answer, ConnectionInv, WireInv, EndsWhole,
                 Interrupted, Unit
        <3>5. WaitingInv'
            BY <2>1, <2>3, <3>2 DEF vars, client, peer, answer, ConnectionInv, WaitingInv,
                 GETsHaveNoBody, OneRequest, NoneDropped, Pending, Answered
        <3>6. QED BY <3>1, <3>3, <3>4, <3>5 DEF ConnectionInv
    <2>4. QED BY <2>1, <2>2, <2>3
<1>3. QED BY <1>1, <1>2, PTL DEF Spec

(* However its bytes are cut into pieces, each request of a client that    *)
(* waits for its answers and sends no bodies is read whole and alone.      *)
THEOREM RequestsReadWhole ==
    Spec => []ExactRead
<1>1. TypeOK /\ ConnectionInv => ExactRead
    <2>1. SUFFICES ASSUME TypeOK, ConnectionInv, pc = "parse", ~pipelines,
                          \A n \in 1..Requests : ~reqs[n].body
                   PROVE  \E n \in 1..Requests : buffer = Request(reqs, n)
        BY DEF ExactRead
    <2>2. buffer \in Seq(Tokens) /\ inbox \in Seq(Tokens) /\ unsent \in Seq(Tokens)
        BY <2>1 DEF TypeOK
    <2>3. buffer # <<>> /\ Last(buffer).part = "blank"
        BY <2>1 DEF ConnectionInv, ParseInv, IsBlankLine
    <2>4. Outstanding = buffer \o inbox /\ Unhandled = Outstanding \o unsent
        BY <2>1 DEF Outstanding, Unhandled, Reading
    <2>5. Chain(Unhandled) /\ OneRequest
        BY <2>1, ConnectionAssumption DEF ConnectionInv, ParseInv, StreamLike, WaitingInv, Over, GETsHaveNoBody
    <2>6. /\ \A i \in DOMAIN buffer : i \in DOMAIN Outstanding /\ Outstanding[i] = buffer[i]
          /\ Outstanding \in Seq(Tokens)
        BY <2>2, <2>4, ConcatPlaces
    <2>7. \A i \in DOMAIN Outstanding : i \in DOMAIN Unhandled /\ Unhandled[i] = Outstanding[i]
        <3>1. Outstanding \in Seq(Tokens) /\ unsent \in Seq(Tokens)
            BY <2>2, <2>6
        <3>2. QED BY <2>4, <3>1, ConcatPlaces
    <2>8. \A i \in DOMAIN buffer : i \in DOMAIN Unhandled /\ Unhandled[i] = buffer[i]
        BY <2>6, <2>7
    <2>9. Len(buffer) \in Nat \ {0} /\ DOMAIN buffer = 1..Len(buffer)
        BY <2>2, <2>3, EmptySeq, LenProperties
    <2> DEFINE z == Len(buffer)
               n == buffer[z].req
    <2>10. z \in DOMAIN buffer /\ buffer[z].part = "blank" /\ Last(buffer) = buffer[z]
        BY <2>3, <2>9 DEF Last
    <2>11. /\ z > 1 /\ Unhandled[z - 1] = [req |-> n, part |-> "head"]
        BY <2>5, <2>8, <2>10 DEF Chain
    <2>12. z - 1 \in DOMAIN buffer
        BY <2>9, <2>11
    <2>13. buffer[z - 1] = [req |-> n, part |-> "head"]
        BY <2>8, <2>11, <2>12
    <2>14. buffer[z] \in Tokens /\ n \in 1..Requests
        BY <2>2, <2>10, ElementOfSeq, RankFacts
    <2>15. buffer[z] = [req |-> n, part |-> "blank"]
        BY <2>10, <2>14, RankFacts
    <2>16. z = 2
        <3>1. ~reqs[n].body /\ z - 1 \in DOMAIN Outstanding /\ Outstanding[z - 1] = buffer[z - 1]
            BY <2>1, <2>6, <2>12, <2>14
        <3>2. /\ Outstanding[z - 1].part = "head"
              /\ ~reqs[Outstanding[z - 1].req].body
            BY <2>13, <3>1
        <3> HIDE DEF n, z
        <3>3. z - 1 = 1
            BY <2>5, <3>1, <3>2 DEF OneRequest
        <3>4. QED BY <2>9, <3>3
    <2>17. reqs \in [1..Requests -> Kinds]
        BY <2>1 DEF TypeOK
    <2>18. Request(reqs, n) = <<[req |-> n, part |-> "head"], [req |-> n, part |-> "blank"]>>
        BY <2>1, <2>14, <2>17, RequestFacts
    <2>19. buffer = <<[req |-> n, part |-> "head"], [req |-> n, part |-> "blank"]>>
        <3> DEFINE h == [req |-> n, part |-> "head"]
                   b == [req |-> n, part |-> "blank"]
        <3>1. h \in Tokens /\ b \in Tokens
            BY <2>14 DEF Tokens
        <3>2. /\ <<h, b>> \in Seq(Tokens) /\ Len(<<h, b>>) = 2
              /\ <<h, b>>[1] = h /\ <<h, b>>[2] = b
            BY <3>1
        <3>3. Len(buffer) = 2 /\ buffer[1] = h /\ buffer[2] = b
            BY <2>13, <2>15, <2>16
        <3> DEFINE s == <<h, b>>
        <3>4. s \in Seq(Tokens) /\ Len(s) = 2 /\ s[1] = h /\ s[2] = b
            BY <3>2
        <3> HIDE DEF h, b, s, n, z
        <3>5. \A i \in 1..2 : buffer[i] = s[i]
            BY <3>3, <3>4
        <3>6. buffer = s
            BY <2>2, <3>3, <3>4, <3>5, SeqEqual
        <3>7. QED BY <3>6 DEF s, h, b
    <2>20. QED BY <2>14, <2>18, <2>19
<1>2. QED BY <1>1, Invariant, PTL

(* Answers are in the order of the texts they answer and, but for the last,*)
(* whole; only a 404 may interrupt the 200 of the same text, and none over *)
(* TLS.                                                                    *)
THEOREM AnswersInOrder ==
    Spec => []WireWellFormed
BY Invariant, PTL

(* No GET of a client that waits for its answers is lost: when the worker  *)
(* waits for the next request, each one it has read is answered in full.   *)
THEOREM NoGETDropped ==
    Spec => []NoSilentDrop
<1>1. TypeOK /\ ConnectionInv => NoSilentDrop
    <2>1. SUFFICES ASSUME TypeOK, ConnectionInv, pc = "alive", ~pipelines, GETsHaveNoBody,
                          NEW n \in 1..Requests, reqs[n].line = "GET", ~reqs[n].body,
                          Consumed(n)
                   PROVE  Answered(n)
        BY DEF NoSilentDrop
    <2>2. Unhandled = inbox \o unsent /\ Unhandled \in Seq(Tokens)
        <3>1. inbox \in Seq(Tokens) /\ unsent \in Seq(Tokens)
            BY <2>1 DEF TypeOK
        <3>2. inbox \o unsent \in Seq(Tokens)
            BY <3>1, ConcatProperties
        <3>3. QED BY <2>1, <3>2 DEF Unhandled, Outstanding, Reading
    <2>3. ~Pending(n)
        BY <2>1, <2>2 DEF Pending, Consumed
    <2>4. NoneDropped
        BY <2>1 DEF ConnectionInv, WaitingInv, Over
    <2>5. QED BY <2>1, <2>3, <2>4 DEF NoneDropped
<1>2. QED BY <1>1, Invariant, PTL

(* After the stop at most the request being read is still answered.        *)
THEOREM StopSeen ==
    Spec => []AtMostOneLate
<1>1. ConnectionInv => AtMostOneLate
    BY DEF ConnectionInv, LateInv, AtMostOneLate
<1>2. QED BY <1>1, Invariant, PTL

-----------------------------------------------------------------------------
(* A connection implements HttpExchange: with the pieces, the buffers and  *)
(* the timeouts left out, what the worker puts on the wire are the answers *)
(* the exchange allows, for any number of requests.  (That the exchange    *)
(* comes to its end is liveness and left to the model checker.)            *)

-----------------------------------------------------------------------------
(* Answers are numbered by where they begin.                               *)

UpTo(F, f) == {g \in F : g <= f}

\* Every number up to the size of F is that of an element of F.
Numbered(F) == \A i \in 1..Cardinality(F) : \E f \in F : Cardinality(UpTo(F, f)) = i

(* Two elements have different numbers.                                    *)
LEMMA NumbersDiffer ==
    ASSUME NEW F \in SUBSET Nat, IsFiniteSet(F), NEW f \in F, NEW g \in F, f < g
    PROVE  Cardinality(UpTo(F, f)) # Cardinality(UpTo(F, g))
<1>1. g \in UpTo(F, g) /\ g \notin UpTo(F, f)
    BY DEF UpTo
<1>2. UpTo(F, g) \in SUBSET F
    BY DEF UpTo
<1>3. UpTo(F, f) \in SUBSET UpTo(F, g)
    <2>1. SUFFICES ASSUME NEW h \in F, h <= f PROVE h <= g
        BY DEF UpTo
    <2>2. h \in Nat /\ f \in Nat /\ g \in Nat
        OBVIOUS
    <2>3. QED BY <2>1, <2>2
<1>4. IsFiniteSet(UpTo(F, g))
    BY <1>2, FS_Subset
<1>5. QED BY <1>1, <1>3, <1>4, FS_Subset

(* A greater element takes the next number.                                *)
LEMMA NumberNext ==
    ASSUME NEW F \in SUBSET Nat, IsFiniteSet(F), Numbered(F),
           NEW z \in Nat, \A f \in F : f < z
    PROVE  /\ Numbered(F \cup {z})
           /\ Cardinality(F \cup {z}) = Cardinality(F) + 1
           /\ UpTo(F \cup {z}, z) = F \cup {z}
<1>1. Cardinality(F \cup {z}) = Cardinality(F) + 1
    <2>1. z \notin F
        OBVIOUS
    <2>2. QED BY <2>1, FS_AddElement
<1>2. Cardinality(F) \in Nat
    BY FS_CardinalityType
<1>3. UpTo(F \cup {z}, z) = F \cup {z}
    <2>1. \A f \in F \cup {z} : f <= z
        OBVIOUS
    <2>2. QED BY <2>1 DEF UpTo
<1>4. \A f \in F : UpTo(F \cup {z}, f) = UpTo(F, f)
    BY DEF UpTo
<1>5. ASSUME NEW i \in 1..Cardinality(F \cup {z})
      PROVE  \E f \in F \cup {z} : Cardinality(UpTo(F \cup {z}, f)) = i
    <2>1. CASE i \in 1..Cardinality(F)
        BY <1>4, <2>1 DEF Numbered
    <2>2. CASE i = Cardinality(F) + 1
        BY <1>1, <1>3, <2>2
    <2>3. QED BY <1>1, <1>2, <2>1, <2>2
<1>6. QED BY <1>1, <1>3, <1>5 DEF Numbered

(* The units that begin an answer are finitely many.                       *)
LEMMA FirstFacts ==
    ASSUME NEW w \in Seq(WireUnits)
    PROVE  /\ FirstUnits(w) \in SUBSET Nat /\ FirstUnits(w) \subseteq DOMAIN w
           /\ IsFiniteSet(FirstUnits(w)) /\ Cardinality(FirstUnits(w)) \in Nat
<1>1. Len(w) \in Nat /\ DOMAIN w = 1..Len(w)
    BY LenProperties
<1>2. IsFiniteSet(1..Len(w))
    BY <1>1, FS_Interval
<1>3. FirstUnits(w) \in SUBSET (1..Len(w))
    BY <1>1 DEF FirstUnits
<1>4. QED BY <1>1, <1>2, <1>3, FS_Subset, FS_CardinalityType

(* Beginning finds what has the number.                                    *)
LEMMA BeginningIs ==
    ASSUME NEW w \in Seq(WireUnits), NEW f \in FirstUnits(w), NEW i,
           Cardinality(UpTo(FirstUnits(w), f)) = i
    PROVE  Beginning(w, i) = f
<1> DEFINE F == FirstUnits(w)
<1>1. F \in SUBSET Nat /\ IsFiniteSet(F)
    BY FirstFacts
<1>2. ASSUME NEW g \in F, Cardinality(UpTo(F, g)) = i PROVE g = f
    <2>1. CASE f < g
        BY <1>1, <1>2, <2>1, NumbersDiffer
    <2>2. CASE g < f
        BY <1>1, <1>2, <2>2, NumbersDiffer
    <2>3. f \in Nat /\ g \in Nat
        BY <1>1
    <2>4. QED BY <2>1, <2>2, <2>3
<1>3. f \in F
    OBVIOUS
<1> HIDE DEF F
<1>4. Beginning(w, i) = CHOOSE g \in F : Cardinality(UpTo(F, g)) = i
    BY DEF Beginning, UpTo, F
<1>5. QED BY <1>2, <1>3, <1>4

-----------------------------------------------------------------------------
(* The answers on a wire.                                                  *)

AnswerRecs == [req : 1..Requests, kind : Replies, whole : BOOLEAN]

\* A 404 comes after a 200 of the same request; every answer begins after
\* all that is before it; and everything is part of an answer.
Weight(u) == 2 * u.req + (IF u.reply = "404" THEN 1 ELSE 0)
Sorted(w) ==
    \A i, j \in DOMAIN w : i < j =>
        /\ Weight(w[i]) <= Weight(w[j])
        /\ w[j].unit = 1 => Weight(w[i]) < Weight(w[j])
Begun(w) ==
    \A i \in DOMAIN w : \E f \in FirstUnits(w) :
        f <= i /\ w[f].req = w[i].req /\ w[f].reply = w[i].reply
Joined(w) ==
    \A i \in DOMAIN w :
        w[i].unit > 1 => i > 1 /\ w[i - 1] = [w[i] EXCEPT !.unit = @ - 1]

(* What a unit's place among all units of a wire is made of.               *)
LEMMA UnitFacts ==
    ASSUME NEW u \in WireUnits
    PROVE  /\ u = [req |-> u.req, reply |-> u.reply, unit |-> u.unit]
           /\ u.req \in 1..Requests /\ u.reply \in Replies /\ u.unit \in 1..Units
           /\ Weight(u) \in Nat /\ u.unit \in Nat
           /\ 2 * u.req <= Weight(u) /\ Weight(u) <= 2 * u.req + 1
           /\ [u EXCEPT !.unit = Units] = [req |-> u.req, reply |-> u.reply, unit |-> Units]
BY ConnectionAssumption DEF WireUnits, Weight

\* The answer that begins at f.
AnswerAt(w, f) ==
    [req |-> w[f].req, kind |-> w[f].reply,
     whole |-> [w[f] EXCEPT !.unit = Units] \in ToSet(w)]

(* The answers on the wire, in the order of their first units.             *)
LEMMA AnswersFacts ==
    ASSUME NEW w \in Seq(WireUnits), Numbered(FirstUnits(w))
    PROVE  /\ AnswersOn(w) \in Seq(AnswerRecs)
           /\ Len(AnswersOn(w)) = Cardinality(FirstUnits(w))
           /\ \A i \in 1..Cardinality(FirstUnits(w)) :
                /\ Beginning(w, i) \in FirstUnits(w)
                /\ AnswersOn(w)[i] = AnswerAt(w, Beginning(w, i))
<1> DEFINE N == Cardinality(FirstUnits(w))
<1>1. N \in Nat /\ FirstUnits(w) \subseteq DOMAIN w
    BY FirstFacts
<1>2. ASSUME NEW i \in 1..N PROVE Beginning(w, i) \in FirstUnits(w)
    <2>1. PICK f \in FirstUnits(w) : Cardinality(UpTo(FirstUnits(w), f)) = i
        BY <1>2 DEF Numbered
    <2>2. QED BY <2>1, BeginningIs
<1>3. AnswersOn(w) = [i \in 1..N |-> AnswerAt(w, Beginning(w, i))]
    BY DEF AnswersOn, AnswerAt
<1> HIDE DEF N
<1>4. ASSUME NEW i \in 1..N PROVE AnswerAt(w, Beginning(w, i)) \in AnswerRecs
    <2>1. Beginning(w, i) \in DOMAIN w
        BY <1>1, <1>2
    <2>2. w[Beginning(w, i)] \in WireUnits
        BY <2>1, ElementOfSeq, LenProperties
    <2> DEFINE u == w[Beginning(w, i)]
               b == [u EXCEPT !.unit = Units] \in ToSet(w)
    <2>3. u.req \in 1..Requests /\ u.reply \in Replies
        BY <2>2, UnitFacts
    <2>4. b \in BOOLEAN
        OBVIOUS
    <2>5. AnswerAt(w, Beginning(w, i)) = [req |-> u.req, kind |-> u.reply, whole |-> b]
        BY DEF AnswerAt
    <2> HIDE DEF b, u
    <2>6. QED BY <2>3, <2>4, <2>5 DEF AnswerRecs
<1>5. AnswersOn(w) \in [1..N -> AnswerRecs]
    BY <1>3, <1>4
<1>6. AnswersOn(w) \in Seq(AnswerRecs) /\ Len(AnswersOn(w)) = N
    BY <1>1, <1>5
<1>7. QED BY <1>2, <1>3, <1>6 DEF N

(* The last answer is the one the wire ends with, and it is whole if the   *)
(* wire ends with a response's last unit.                                  *)
LEMMA LastAnswer ==
    ASSUME NEW w \in Seq(WireUnits), Numbered(FirstUnits(w)), Sorted(w), Begun(w), Joined(w),
           w # <<>>
    PROVE  /\ AnswersOn(w) # <<>>
           /\ Last(AnswersOn(w)).req = Last(w).req /\ Last(AnswersOn(w)).kind = Last(w).reply
           /\ Last(AnswersOn(w)).whole <=> Last(w).unit = Units
           /\ \A i \in 1..(Len(AnswersOn(w)) - 1) :
                Weight(w[Beginning(w, i)]) < Weight(Last(w))
<1> DEFINE F == FirstUnits(w)
           N == Cardinality(F)
           z == Len(w)
           l == w[z]
<1>1. /\ z \in Nat \ {0} /\ DOMAIN w = 1..z /\ z \in DOMAIN w /\ Last(w) = l
      /\ \A i \in DOMAIN w : w[i] \in WireUnits
    <2>1. z \in Nat \ {0} /\ DOMAIN w = 1..z
        BY EmptySeq, LenProperties
    <2>2. QED BY <2>1, ElementOfSeq DEF Last
<1>2. PICK f \in F : f <= z /\ w[f].req = l.req /\ w[f].reply = l.reply
    BY <1>1 DEF Begun
<1>3. /\ F \in SUBSET Nat /\ F \subseteq DOMAIN w /\ IsFiniteSet(F) /\ N \in Nat
      /\ \A g \in F : w[g].unit = 1
    BY FirstFacts DEF FirstUnits
<1>4. /\ f \in DOMAIN w /\ w[f] \in WireUnits /\ l \in WireUnits
      /\ Weight(w[f]) = Weight(l)
    BY <1>1, <1>2, <1>3 DEF Weight
<1>5. ASSUME NEW g \in F PROVE g <= f
    <2>1. SUFFICES ASSUME f < g PROVE FALSE
        BY <1>3
    <2>2. g \in DOMAIN w /\ w[g].unit = 1 /\ w[g] \in WireUnits
        BY <1>1, <1>3
    <2>3. Weight(w[f]) < Weight(w[g])
        BY <1>4, <2>1, <2>2 DEF Sorted
    <2>4. Weight(w[g]) <= Weight(l)
        <3>1. g = z \/ g < z
            BY <1>1, <2>2
        <3>2. Weight(l) \in Nat
            BY <1>4, UnitFacts
        <3>3. QED BY <1>1, <2>2, <3>1, <3>2 DEF Sorted
    <2>5. Weight(w[f]) \in Nat /\ Weight(w[g]) \in Nat /\ Weight(l) \in Nat
        BY <1>4, <2>2, UnitFacts
    <2>6. QED BY <1>4, <2>3, <2>4, <2>5
<1>6. Beginning(w, N) = f
    <2>1. UpTo(F, f) = F
        BY <1>5 DEF UpTo
    <2>2. QED BY <2>1, BeginningIs
<1>7. N # 0
    BY <1>2, <1>3, FS_EmptySet
<1>8. /\ AnswersOn(w) \in Seq(AnswerRecs) /\ Len(AnswersOn(w)) = N
      /\ \A i \in 1..N : Beginning(w, i) \in F
      /\ \A i \in 1..N : AnswersOn(w)[i] = AnswerAt(w, Beginning(w, i))
    BY AnswersFacts
<1>9. AnswersOn(w) # <<>> /\ Last(AnswersOn(w)) = AnswerAt(w, f)
    <2>1. N \in 1..N
        BY <1>3, <1>7
    <2>2. QED BY <1>6, <1>7, <1>8, <2>1, EmptySeq DEF Last
<1>10. l.unit = Units => [w[f] EXCEPT !.unit = Units] \in ToSet(w)
    <2>1. SUFFICES ASSUME l.unit = Units PROVE [w[f] EXCEPT !.unit = Units] = l
        BY <1>1 DEF ToSet
    <2>2. QED BY <1>2, <1>4, <2>1, UnitFacts
<1>11. ASSUME [w[f] EXCEPT !.unit = Units] \in ToSet(w) PROVE l.unit = Units
    <2>1. PICK j \in DOMAIN w : w[j] = [w[f] EXCEPT !.unit = Units]
        BY <1>11 DEF ToSet
    <2>2. w[j].req = l.req /\ w[j].reply = l.reply /\ w[j].unit = Units
        BY <1>2, <1>4, <2>1, UnitFacts
    <2>3. CASE j = z
        BY <2>2, <2>3
    <2>4. CASE j < z
        <3> DEFINE k == j + 1
        <3>1. k \in DOMAIN w /\ j < k /\ k - 1 = j
            BY <1>1, <2>1, <2>4
        <3>2. w[k] \in WireUnits /\ w[j] \in WireUnits
            BY <1>1, <2>1, <3>1
        <3>3. Weight(w[j]) = Weight(l)
            BY <2>2 DEF Weight
        <3>4. Weight(w[k]) <= Weight(l)
            <4>1. k = z \/ k < z
                BY <1>1, <3>1
            <4>2. Weight(l) \in Nat
                BY <1>4, UnitFacts
            <4>3. QED BY <1>1, <3>1, <4>1, <4>2 DEF Sorted
        <3>5. w[k].unit # 1
            <4>1. Weight(w[j]) \in Nat /\ Weight(w[k]) \in Nat
                BY <3>2, UnitFacts
            <4>2. ~(Weight(w[j]) < Weight(w[k]))
                BY <3>3, <3>4, <4>1
            <4>3. QED BY <2>1, <3>1, <4>2 DEF Sorted
        <3>6. w[k].unit \in 1..Units /\ Units \in Nat
            BY <3>2, UnitFacts, ConnectionAssumption
        <3>7. w[j] = [w[k] EXCEPT !.unit = @ - 1]
            <4>1. w[k].unit > 1
                BY <3>5, <3>6
            <4> HIDE DEF k
            <4>2. QED BY <3>1, <4>1 DEF Joined
        <3>8. w[j].unit = w[k].unit - 1
            BY <3>2, <3>7 DEF WireUnits
        <3>9. QED BY <2>2, <3>6, <3>8
    <2>5. QED BY <1>1, <2>1, <2>3, <2>4
<1>12. ASSUME NEW i \in 1..(N - 1) PROVE Weight(w[Beginning(w, i)]) < Weight(l)
    <2>1. i \in 1..N /\ i # N
        BY <1>3
    <2> DEFINE g == Beginning(w, i)
    <2>2. g \in F /\ g <= f
        BY <1>5, <1>8, <2>1
    <2>3. g # f
        <3>1. PICK h \in F : Cardinality(UpTo(F, h)) = i
            BY <2>1 DEF Numbered
        <3>2. g = h
            BY <3>1, BeginningIs
        <3>3. UpTo(F, f) = F
            BY <1>5 DEF UpTo
        <3>4. QED BY <2>1, <3>1, <3>2, <3>3
    <2>4. g \in DOMAIN w /\ g < f /\ w[f].unit = 1
        BY <1>3, <2>2, <2>3
    <2>5. Weight(w[g]) < Weight(w[f])
        BY <1>4, <2>4 DEF Sorted
    <2>6. QED BY <1>4, <2>5
<1>13. /\ AnswerAt(w, f).req = w[f].req /\ AnswerAt(w, f).kind = w[f].reply
       /\ AnswerAt(w, f).whole <=> [w[f] EXCEPT !.unit = Units] \in ToSet(w)
    BY Zenon DEF AnswerAt
<1>14. AnswerAt(w, f).whole <=> l.unit = Units
    BY <1>10, <1>11, <1>13
<1>15. Last(AnswersOn(w)).whole <=> Last(w).unit = Units
    BY <1>1, <1>9, <1>14
<1>16. QED BY <1>1, <1>2, <1>8, <1>9, <1>12, <1>13, <1>15

-----------------------------------------------------------------------------
(* What every reachable wire is like.                                      *)

\* The response being written is the one the target calls for, or a 404
\* where a 200 could not be sent.
RightInv ==
    pc = "write" =>
        /\ Target # "badExtension"
        /\ reply = Reply \/ (reply = "404" /\ Reply = "200")

AnswersInv == Numbered(FirstUnits(wire)) /\ Sorted(wire) /\ Begun(wire) /\ RightInv

(* A response begins when none of it was taken yet.                        *)
LEMMA SendFirsts ==
    ASSUME TypeOK, NEW k \in 1..left, WireGrows(k)
    PROVE  /\ left = Units => FirstUnits(wire') = FirstUnits(wire) \cup {Len(wire) + 1}
           /\ left < Units => FirstUnits(wire') = FirstUnits(wire)
           /\ Len(wire) \in Nat /\ Len(wire) + 1 \notin DOMAIN wire
           /\ \A f \in FirstUnits(wire) : f < Len(wire) + 1
<1>1. /\ Units \in Nat \ {0} /\ left \in 0..Units /\ k \in 1..left
      /\ Len(wire) \in Nat /\ DOMAIN wire = 1..Len(wire)
    BY ConnectionAssumption, LenProperties DEF TypeOK
<1>2. ASSUME NEW l \in 1..k
      PROVE  wire'[Len(wire) + l].unit = 1 <=> left = Units /\ l = 1
    <2>1. wire'[Len(wire) + l] = Unit(Units - left + l)
        BY DEF WireGrows
    <2>2. wire'[Len(wire) + l].unit = Units - left + l
        BY <2>1 DEF Unit
    <2>3. QED BY <1>1, <2>2
<1>3. /\ DOMAIN wire' = 1..(Len(wire) + k)
      /\ \A i \in DOMAIN wire : i \in DOMAIN wire' /\ wire'[i] = wire[i]
      /\ \A i \in DOMAIN wire' : i \in DOMAIN wire \/ \E l \in 1..k : i = Len(wire) + l
    BY DEF WireGrows
<1>4. 1 \in 1..k /\ Len(wire) + 1 \in DOMAIN wire'
    BY <1>1, <1>3
<1>5. \A i : i \in FirstUnits(wire') <=>
              i \in FirstUnits(wire) \/ (left = Units /\ i = Len(wire) + 1)
    <2>1. ASSUME NEW i \in FirstUnits(wire'), i \notin DOMAIN wire
          PROVE  left = Units /\ i = Len(wire) + 1
        <3>1. i \in DOMAIN wire' /\ wire'[i].unit = 1
            BY <2>1 DEF FirstUnits
        <3>2. PICK l \in 1..k : i = Len(wire) + l
            BY <1>3, <2>1, <3>1
        <3>3. QED BY <1>2, <3>1, <3>2
    <2>2. ASSUME NEW i \in FirstUnits(wire'), i \in DOMAIN wire
          PROVE  i \in FirstUnits(wire)
        BY <1>3, <2>2 DEF FirstUnits
    <2>3. ASSUME NEW i \in FirstUnits(wire) PROVE i \in FirstUnits(wire')
        BY <1>3, <2>3 DEF FirstUnits
    <2>4. left = Units => Len(wire) + 1 \in FirstUnits(wire')
        BY <1>2, <1>4 DEF FirstUnits
    <2>5. QED BY <2>1, <2>2, <2>3, <2>4
<1>6. \A f \in FirstUnits(wire) : f < Len(wire) + 1
    BY <1>1 DEF FirstUnits
<1>7. Len(wire) + 1 \notin DOMAIN wire
    BY <1>1
<1>8. left = Units => FirstUnits(wire') = FirstUnits(wire) \cup {Len(wire) + 1}
    BY <1>5
<1>9. left < Units => FirstUnits(wire') = FirstUnits(wire)
    <2>1. left < Units => left # Units
        BY <1>1
    <2>2. QED BY <1>5, <2>1
<1>10. QED BY <1>1, <1>6, <1>7, <1>8, <1>9

(* A response that begins comes after all that is on the wire.             *)
LEMMA NewWeights ==
    ASSUME TypeOK, WireInv, Sorted(wire), Send, NEW i \in DOMAIN wire
    PROVE  /\ Weight(wire[i]) <= Weight(Unit(1))
           /\ left = Units => Weight(wire[i]) < Weight(Unit(1))
<1>1. /\ Units \in Nat \ {0} /\ left \in 0..Units /\ current \in 1..Requests
      /\ reply \in Replies /\ Requests \in Nat
    BY ConnectionAssumption DEF TypeOK
<1>2. Unit(1) \in WireUnits /\ \A u : Weight(Unit(u)) = Weight(Unit(1))
    BY <1>1 DEF Unit, WireUnits, Weight
<1>3. /\ wire \in Seq(WireUnits) /\ Len(wire) \in Nat /\ DOMAIN wire = 1..Len(wire)
      /\ wire[i] \in WireUnits /\ Len(wire) \in DOMAIN wire /\ wire # <<>>
    <2>1. wire \in Seq(WireUnits) /\ Len(wire) \in Nat /\ DOMAIN wire = 1..Len(wire)
        BY LenProperties DEF TypeOK
    <2>2. Len(wire) \in DOMAIN wire /\ wire # <<>>
        BY <2>1
    <2>3. QED BY <2>1, <2>2, ElementOfSeq
<1>4. Last(wire) = wire[Len(wire)] /\ Last(wire) \in WireUnits
    BY <1>3, ElementOfSeq DEF Last
<1>5. Weight(wire[i]) <= Weight(Last(wire))
    <2>1. i = Len(wire) \/ i < Len(wire)
        BY <1>3
    <2>2. Weight(Last(wire)) \in Nat
        BY <1>4, UnitFacts
    <2>3. QED BY <1>3, <1>4, <2>1, <2>2 DEF Sorted
<1>6. Weight(wire[i]) \in Nat /\ Weight(Last(wire)) \in Nat /\ Weight(Unit(1)) \in Nat
    BY <1>2, <1>3, <1>4, UnitFacts
<1>7. CASE left < Units
    <2>1. Last(wire) = Unit(Units - left)
        BY <1>7 DEF WireInv, Send, WorkerGoes
    <2>2. Weight(Last(wire)) = Weight(Unit(1))
        BY <1>2, <2>1
    <2>3. QED BY <1>1, <1>5, <1>6, <1>7, <2>2
<1>8. CASE left = Units
    <2>1. Interrupted \/ (\A j \in DOMAIN wire : wire[j].req < current)
        BY <1>1, <1>8 DEF WireInv, Send, WorkerGoes
    <2>2. CASE Interrupted
        <3>1. Weight(Last(wire)) = 2 * current /\ Weight(Unit(1)) = 2 * current + 1
            BY <1>1, <1>4, <2>2 DEF Interrupted, Weight, Unit
        <3>2. QED BY <1>1, <1>5, <1>6, <3>1
    <2>3. CASE \A j \in DOMAIN wire : wire[j].req < current
        <3>1. wire[i].req < current /\ wire[i].req \in 1..Requests
            BY <1>3, <2>3, UnitFacts
        <3>2. Weight(wire[i]) <= 2 * wire[i].req + 1
            BY <1>3, UnitFacts
        <3>3. 2 * current <= Weight(Unit(1))
            <4>1. Unit(1).req = current
                BY DEF Unit
            <4>2. QED BY <1>2, <4>1, UnitFacts
        <3>4. QED BY <1>1, <1>6, <3>1, <3>2, <3>3
    <2>4. QED BY <2>1, <2>2, <2>3
<1>9. QED BY <1>1, <1>7, <1>8

(* The wire stays in the order of requests.                                *)
LEMMA SortedStep ==
    ASSUME TypeOK, WireInv, Sorted(wire), Next
    PROVE  Sorted(wire')
<1>1. CASE ~Send
    BY <1>1, WireKept
<1>2. CASE Send
    <2>1. PICK k \in 1..left : WireGrows(k)
        BY <1>2, SendFacts
    <2>2. SUFFICES ASSUME NEW i \in DOMAIN wire', NEW j \in DOMAIN wire', i < j
                   PROVE  /\ Weight(wire'[i]) <= Weight(wire'[j])
                          /\ wire'[j].unit = 1 => Weight(wire'[i]) < Weight(wire'[j])
        BY DEF Sorted
    <2>3. /\ Units \in Nat \ {0} /\ left \in 0..Units /\ current \in 1..Requests
          /\ Requests \in Nat /\ Len(wire) \in Nat /\ DOMAIN wire = 1..Len(wire)
        BY ConnectionAssumption, LenProperties DEF TypeOK
    <2>4. /\ \A m \in DOMAIN wire : wire'[m] = wire[m]
          /\ \A m \in DOMAIN wire' : m \in DOMAIN wire \/ \E l \in 1..k : m = Len(wire) + l
          /\ \A l \in 1..k : wire'[Len(wire) + l] = Unit(Units - left + l)
        BY <2>1 DEF WireGrows
    <2>5. \A u : Weight(Unit(u)) = Weight(Unit(1)) /\ Unit(u).unit = u
        BY DEF Weight, Unit
    <2>6. CASE j \in DOMAIN wire
        <3>1. i \in DOMAIN wire
            <4>1. ~\E l \in 1..k : i = Len(wire) + l
                BY <2>2, <2>3, <2>6
            <4>2. QED BY <2>4, <4>1
        <3>2. QED BY <2>2, <2>4, <2>6, <3>1 DEF Sorted
    <2>7. ASSUME NEW l \in 1..k, j = Len(wire) + l
          PROVE  /\ Weight(wire'[i]) <= Weight(wire'[j])
                 /\ wire'[j].unit = 1 => Weight(wire'[i]) < Weight(wire'[j])
        <3>1. Weight(wire'[j]) = Weight(Unit(1)) /\ wire'[j].unit = Units - left + l
            BY <2>4, <2>5, <2>7
        <3>2. CASE i \in DOMAIN wire
            <4>1. wire'[j].unit = 1 => left = Units
                BY <2>3, <3>1
            <4>2. wire'[i] = wire[i]
                BY <2>4, <3>2
            <4>3. QED BY <1>2, <3>1, <3>2, <4>1, <4>2, NewWeights
        <3>3. ASSUME NEW m \in 1..k, i = Len(wire) + m
              PROVE  /\ Weight(wire'[i]) <= Weight(wire'[j])
                     /\ wire'[j].unit = 1 => Weight(wire'[i]) < Weight(wire'[j])
            <4>1. Weight(wire'[i]) = Weight(Unit(1))
                BY <2>4, <2>5, <3>3
            <4>2. wire'[j].unit # 1
                <5>1. m < l
                    BY <2>2, <2>3, <2>7, <3>3
                <5>2. QED BY <2>3, <3>1, <5>1
            <4>3. Weight(Unit(1)) \in Nat
                BY <2>3 DEF Weight, Unit
            <4>4. QED BY <3>1, <4>1, <4>2, <4>3
        <3>4. QED BY <2>4, <3>2, <3>3
    <2>8. QED BY <2>4, <2>6, <2>7
<1>3. QED BY <1>1, <1>2

(* Every answer on the wire stays whole from its first unit on.            *)
LEMMA BegunStep ==
    ASSUME TypeOK, WireInv, Begun(wire), Next
    PROVE  Begun(wire')
<1>1. CASE ~Send
    BY <1>1, WireKept
<1>2. CASE Send
    <2>1. PICK k \in 1..left : WireGrows(k)
        BY <1>2, SendFacts
    <2>2. /\ \A m \in DOMAIN wire : m \in DOMAIN wire' /\ wire'[m] = wire[m]
          /\ \A m \in DOMAIN wire' : m \in DOMAIN wire \/ \E l \in 1..k : m = Len(wire) + l
          /\ \A l \in 1..k :
               wire'[Len(wire) + l].req = current /\ wire'[Len(wire) + l].reply = reply
        <3>1. \A l \in 1..k : wire'[Len(wire) + l] = Unit(Units - left + l)
            BY <2>1 DEF WireGrows
        <3>2. \A u : Unit(u).req = current /\ Unit(u).reply = reply
            BY DEF Unit
        <3>3. QED BY <2>1, <3>1, <3>2 DEF WireGrows
    <2>3. /\ Units \in Nat \ {0} /\ left \in 0..Units
          /\ Len(wire) \in Nat /\ DOMAIN wire = 1..Len(wire)
        BY ConnectionAssumption, LenProperties DEF TypeOK
    <2>4. SUFFICES ASSUME NEW i \in DOMAIN wire'
                   PROVE  \E f \in FirstUnits(wire') :
                            f <= i /\ wire'[f].req = wire'[i].req /\ wire'[f].reply = wire'[i].reply
        BY DEF Begun
    <2>5. FirstUnits(wire) \subseteq FirstUnits(wire') /\ FirstUnits(wire) \subseteq DOMAIN wire
        BY <2>2 DEF FirstUnits
    <2>6. CASE i \in DOMAIN wire
        BY <2>2, <2>5, <2>6 DEF Begun
    <2>7. ASSUME NEW l \in 1..k, i = Len(wire) + l
          PROVE  \E f \in FirstUnits(wire') :
                   f <= i /\ wire'[f].req = wire'[i].req /\ wire'[f].reply = wire'[i].reply
        <3>1. wire'[i].req = current /\ wire'[i].reply = reply
            BY <2>2, <2>7
        <3>2. CASE left < Units
            <4>1. wire # <<>> /\ Last(wire) = Unit(Units - left)
                BY <1>2, <3>2 DEF WireInv, Send, WorkerGoes
            <4>2. Len(wire) \in DOMAIN wire
                BY <2>3, <4>1, EmptySeq, LenProperties DEF TypeOK
            <4>3. wire[Len(wire)].req = current /\ wire[Len(wire)].reply = reply
                BY <4>1 DEF Last, Unit
            <4>4. PICK f \in FirstUnits(wire) :
                    f <= Len(wire) /\ wire[f].req = current /\ wire[f].reply = reply
                BY <4>2, <4>3 DEF Begun
            <4>5. f <= i
                BY <2>3, <2>5, <2>7, <4>4
            <4>6. wire'[f] = wire[f] /\ f \in FirstUnits(wire')
                BY <2>2, <2>5, <4>4
            <4>7. QED BY <3>1, <4>4, <4>5, <4>6
        <3>3. CASE left = Units
            <4> DEFINE f == Len(wire) + 1
            <4>1. f \in FirstUnits(wire')
                BY <2>1, <3>3, SendFirsts
            <4>2. 1 \in 1..k /\ f <= i
                BY <2>3, <2>7
            <4>3. wire'[f].req = current /\ wire'[f].reply = reply
                BY <2>2, <4>2
            <4>4. QED BY <3>1, <4>1, <4>2, <4>3
        <3>4. QED BY <2>3, <3>2, <3>3
    <2>8. QED BY <2>2, <2>6, <2>7
<1>3. QED BY <1>1, <1>2

(* The numbers of the answers stay without gaps.                           *)
LEMMA NumberedStep ==
    ASSUME TypeOK, Numbered(FirstUnits(wire)), Next
    PROVE  Numbered(FirstUnits(wire'))
<1>1. CASE ~Send
    BY <1>1, WireKept
<1>2. CASE Send
    <2>1. PICK k \in 1..left : WireGrows(k)
        BY <1>2, SendFacts
    <2>2. wire \in Seq(WireUnits) /\ Units \in Nat /\ left \in 0..Units
        BY ConnectionAssumption DEF TypeOK
    <2>3. CASE left < Units
        BY <2>1, <2>3, SendFirsts
    <2>4. CASE left = Units
        <3>1. /\ FirstUnits(wire') = FirstUnits(wire) \cup {Len(wire) + 1}
              /\ Len(wire) + 1 \in Nat /\ \A f \in FirstUnits(wire) : f < Len(wire) + 1
            BY <2>1, <2>4, SendFirsts
        <3>2. FirstUnits(wire) \in SUBSET Nat /\ IsFiniteSet(FirstUnits(wire))
            BY <2>2, FirstFacts
        <3>3. QED BY <3>1, <3>2, NumberNext
    <2>5. QED BY <2>2, <2>3, <2>4
<1>3. QED BY <1>1, <1>2

(* The worker answers each request as its target asks for.                 *)
LEMMA RightStep ==
    ASSUME TypeOK, RightInv, Next
    PROVE  RightInv'
<1>1. CASE ProcessGET
    BY <1>1 DEF ProcessGET, WorkerGoes, RightInv, Target, Reply, client
<1>2. CASE WriteFailed
    BY <1>2 DEF WriteFailed, RightInv, Target, Reply, client
<1>3. CASE ~ProcessGET /\ ~WriteFailed
    <2>1. pc' = "write" => pc = "write" /\ current' = current /\ reply' = reply
        BY <1>3 DEF Next, WorkerStep, ClientSends, ClientReceives, ClientLeaves, Stop, LoopTest,
             IsAlive, Receive, ReadDone, ReadFails, ParseThrows, Parse, GetThrows, Send, Killed,
             WriteDone, WorkerGoes, client, answer
    <2>2. reqs' = reqs
        BY KeptFacts
    <2>3. QED BY <2>1, <2>2 DEF RightInv, Target, Reply
<1>4. QED BY <1>1, <1>2, <1>3

-----------------------------------------------------------------------------
(* What Send does to the answers.                                          *)

(* An answer is its request, its kind and whether it is whole.             *)
LEMMA SameAnswer ==
    ASSUME NEW a \in AnswerRecs, NEW b \in AnswerRecs,
           a.req = b.req, a.kind = b.kind, a.whole <=> b.whole
    PROVE  a = b
<1>1. a.whole \in BOOLEAN /\ b.whole \in BOOLEAN
    BY DEF AnswerRecs
<1>2. a.whole = b.whole
    BY <1>1
<1>3. /\ a = [req |-> a.req, kind |-> a.kind, whole |-> a.whole]
      /\ b = [req |-> b.req, kind |-> b.kind, whole |-> b.whole]
    BY DEF AnswerRecs
<1>4. QED BY <1>2, <1>3

(* An answer is whole when its last unit is on the wire.                   *)
LEMMA AnswerAtFacts ==
    ASSUME NEW w \in Seq(WireUnits), NEW f \in DOMAIN w
    PROVE  /\ AnswerAt(w, f) \in AnswerRecs
           /\ AnswerAt(w, f).req = w[f].req /\ AnswerAt(w, f).kind = w[f].reply
           /\ AnswerAt(w, f).whole <=> \E i \in DOMAIN w : w[i] = [w[f] EXCEPT !.unit = Units]
<1> DEFINE b == [w[f] EXCEPT !.unit = Units] \in ToSet(w)
<1>1. w[f] \in WireUnits
    BY ElementOfSeq, LenProperties
<1>2. w[f].req \in 1..Requests /\ w[f].reply \in Replies
    BY <1>1, UnitFacts
<1>3. b \in BOOLEAN /\ (b <=> \E i \in DOMAIN w : w[i] = [w[f] EXCEPT !.unit = Units])
    BY DEF ToSet
<1>4. AnswerAt(w, f) = [req |-> w[f].req, kind |-> w[f].reply, whole |-> b]
    BY DEF AnswerAt
<1> HIDE DEF b
<1>5. AnswerAt(w, f) \in AnswerRecs
    BY <1>2, <1>3, <1>4 DEF AnswerRecs
<1>6. AnswerAt(w, f).whole = b /\ AnswerAt(w, f).req = w[f].req /\ AnswerAt(w, f).kind = w[f].reply
    BY <1>4
<1>7. QED BY <1>3, <1>5, <1>6

(* When wire x is wire w and more, what is numbered in w keeps its number. *)
LEMMA NumbersKept ==
    ASSUME NEW w \in Seq(WireUnits), NEW x \in Seq(WireUnits), Numbered(FirstUnits(w)),
           FirstUnits(w) \subseteq FirstUnits(x),
           \A f \in FirstUnits(w), g \in FirstUnits(x) : g \notin FirstUnits(w) => f < g,
           NEW i \in 1..Cardinality(FirstUnits(w))
    PROVE  Beginning(x, i) = Beginning(w, i)
<1>1. PICK f \in FirstUnits(w) : Cardinality(UpTo(FirstUnits(w), f)) = i
    BY DEF Numbered
<1>2. FirstUnits(x) \in SUBSET Nat
    BY FirstFacts
<1>3. UpTo(FirstUnits(x), f) = UpTo(FirstUnits(w), f)
    <2>1. ASSUME NEW g \in FirstUnits(x), g <= f PROVE g \in FirstUnits(w)
        <3>1. g \in Nat /\ f \in Nat
            BY <1>2
        <3>2. QED BY <2>1, <3>1
    <2>2. QED BY <2>1 DEF UpTo
<1>4. f \in FirstUnits(x)
    OBVIOUS
<1>5. Beginning(w, i) = f
    BY <1>1, BeginningIs
<1>6. Beginning(x, i) = f
    BY <1>1, <1>3, <1>4, BeginningIs
<1>7. QED BY <1>5, <1>6

(* Earlier answers are not touched.                                        *)
LEMMA OldAnswers ==
    ASSUME TypeOK, WireInv, WireWellFormed, AnswersInv, Send,
           Numbered(FirstUnits(wire')),
           NEW i \in 1..Cardinality(FirstUnits(wire))
    PROVE  /\ Beginning(wire', i) = Beginning(wire, i)
           /\ i \in 1..Cardinality(FirstUnits(wire'))
           /\ i < Cardinality(FirstUnits(wire)) \/ left = Units =>
                AnswersOn(wire')[i] = AnswersOn(wire)[i]
<1>1. PICK k \in 1..left : WireGrows(k)
    BY SendFacts
<1>2. /\ wire \in Seq(WireUnits) /\ wire' \in Seq(WireUnits)
      /\ Units \in Nat \ {0} /\ left \in 0..Units
    BY <1>1, ConnectionAssumption DEF TypeOK, WireGrows
<1> DEFINE F == FirstUnits(wire)
           N == Cardinality(F)
           G == FirstUnits(wire')
<1>3. /\ F \in SUBSET Nat /\ IsFiniteSet(F) /\ F \subseteq DOMAIN wire /\ N \in Nat
      /\ Numbered(F)
    BY <1>2, FirstFacts DEF AnswersInv
<1>4. /\ F \subseteq G /\ \A f \in F, g \in G : g \notin F => f < g
      /\ IsFiniteSet(G) /\ Cardinality(G) \in Nat /\ N <= Cardinality(G)
    <2>1. F \subseteq G /\ \A f \in F, g \in G : g \notin F => f < g
        <3>1. left < Units \/ left = Units
            BY <1>2
        <3>2. QED BY <1>1, <3>1, SendFirsts
    <2>2. IsFiniteSet(G) /\ Cardinality(G) \in Nat
        BY <1>2, FirstFacts
    <2>3. QED BY <2>1, <2>2, FS_Subset
<1>5. Beginning(wire', i) = Beginning(wire, i)
    BY <1>2, <1>3, <1>4, NumbersKept
<1>6. i \in 1..Cardinality(G)
    BY <1>3, <1>4
<1> DEFINE f == Beginning(wire, i)
           u == wire[f]
<1>7. /\ f \in F /\ AnswersOn(wire)[i] = AnswerAt(wire, f)
      /\ AnswersOn(wire')[i] = AnswerAt(wire', f)
    BY <1>2, <1>3, <1>5, <1>6, AnswersFacts
<1>8. /\ f \in DOMAIN wire /\ f \in DOMAIN wire' /\ wire'[f] = u /\ u \in WireUnits
      /\ \A m \in DOMAIN wire : m \in DOMAIN wire' /\ wire'[m] = wire[m]
    BY <1>1, <1>2, <1>3, <1>7, ElementOfSeq, LenProperties DEF WireGrows
<1>9. ASSUME i < N \/ left = Units PROVE AnswersOn(wire')[i] = AnswersOn(wire)[i]
    <2>1. Weight(u) # Weight(Unit(1))
        <3>1. Weight(u) \in Nat
            BY <1>8, UnitFacts
        <3>2. CASE left = Units
            BY <1>8, <3>1, <3>2, NewWeights DEF AnswersInv
        <3>3. CASE i < N /\ left < Units
            <4>1. wire # <<>> /\ Last(wire) = Unit(Units - left)
                BY <3>3 DEF WireInv, Send, WorkerGoes
            <4>2. Weight(Last(wire)) = Weight(Unit(1))
                BY <4>1 DEF Weight, Unit
            <4>3. Joined(wire)
                BY DEF WireWellFormed, Joined
            <4>4. Len(AnswersOn(wire)) = N
                BY <1>2, <1>3, AnswersFacts
            <4>5. i \in 1..(Len(AnswersOn(wire)) - 1)
                BY <1>3, <3>3, <4>4
            <4>6. Weight(u) < Weight(Last(wire))
                BY <1>2, <4>1, <4>3, <4>5, LastAnswer DEF AnswersInv
            <4>7. QED BY <3>1, <4>2, <4>6
        <3>4. QED BY <1>2, <1>9, <3>2, <3>3
    <2> DEFINE v == [u EXCEPT !.unit = Units]
    <2>2. ASSUME NEW m \in DOMAIN wire', wire'[m] = v PROVE \E j \in DOMAIN wire : wire[j] = v
        <3>1. m \in DOMAIN wire
            <4>1. SUFFICES ASSUME NEW l \in 1..k, m = Len(wire) + l PROVE FALSE
                BY <1>1 DEF WireGrows
            <4>2. v = Unit(Units - left + l)
                BY <1>1, <2>2, <4>1 DEF WireGrows
            <4>3. u.req = current /\ u.reply = reply
                <5>1. v.req = u.req /\ v.reply = u.reply
                    BY <1>8 DEF WireUnits
                <5> HIDE DEF v
                <5>2. QED BY <4>2, <5>1 DEF Unit
            <4>4. Weight(u) = Weight(Unit(1))
                BY <4>3 DEF Weight, Unit
            <4>5. QED BY <2>1, <4>4
        <3>2. QED BY <1>8, <2>2, <3>1
    <2>3. ASSUME NEW j \in DOMAIN wire, wire[j] = v PROVE \E m \in DOMAIN wire' : wire'[m] = v
        BY <1>8, <2>3
    <2> DEFINE a == AnswerAt(wire, f)
               b == AnswerAt(wire', f)
    <2>4. /\ a \in AnswerRecs /\ a.req = u.req /\ a.kind = u.reply
          /\ a.whole <=> \E j \in DOMAIN wire : wire[j] = v
        BY <1>2, <1>8, AnswerAtFacts
    <2>5. /\ b \in AnswerRecs /\ b.req = u.req /\ b.kind = u.reply
          /\ b.whole <=> \E j \in DOMAIN wire' : wire'[j] = v
        <3>1. /\ b \in AnswerRecs /\ b.req = wire'[f].req /\ b.kind = wire'[f].reply
              /\ b.whole <=> \E j \in DOMAIN wire' : wire'[j] = [wire'[f] EXCEPT !.unit = Units]
            BY <1>2, <1>8, AnswerAtFacts
        <3>2. wire'[f] = u
            BY <1>8
        <3>3. QED BY <3>1, <3>2
    <2> HIDE DEF a, b, v
    <2>6. a.whole <=> b.whole
        BY <2>2, <2>3, <2>4, <2>5
    <2>7. a = b
        BY <2>4, <2>5, <2>6, SameAnswer
    <2>8. QED BY <1>7, <2>7 DEF a, b
<1>10. QED BY <1>5, <1>6, <1>9

\* The invariants of both states of a step of Send.
SendInv ==
    /\ TypeOK /\ WireInv /\ WireWellFormed /\ AnswersInv /\ Send
    /\ WireWellFormed' /\ Numbered(FirstUnits(wire')) /\ Sorted(wire') /\ Begun(wire')

(* The last answer after Send is the current one.                          *)
LEMMA SentAnswer ==
    ASSUME SendInv
    PROVE  /\ wire \in Seq(WireUnits) /\ wire' \in Seq(WireUnits)
           /\ AnswersOn(wire) \in Seq(AnswerRecs) /\ AnswersOn(wire') \in Seq(AnswerRecs)
           /\ Len(AnswersOn(wire)) = Cardinality(FirstUnits(wire))
           /\ Len(AnswersOn(wire')) = Cardinality(FirstUnits(wire'))
           /\ AnswersOn(wire') # <<>>
           /\ Last(AnswersOn(wire')).req = current /\ Last(AnswersOn(wire')).kind = reply
           /\ Last(AnswersOn(wire')).whole <=> left' = 0
<1>1. PICK k \in 1..left :
        /\ WireGrows(k) /\ left' = left - k
        /\ wire' # <<>> /\ Last(wire') = Unit(Units - left')
    BY SendFacts DEF SendInv
<1>2. /\ wire \in Seq(WireUnits) /\ wire' \in Seq(WireUnits)
      /\ Numbered(FirstUnits(wire)) /\ Numbered(FirstUnits(wire'))
    BY <1>1 DEF SendInv, TypeOK, WireGrows, AnswersInv
<1>3. /\ AnswersOn(wire) \in Seq(AnswerRecs) /\ AnswersOn(wire') \in Seq(AnswerRecs)
      /\ Len(AnswersOn(wire)) = Cardinality(FirstUnits(wire))
      /\ Len(AnswersOn(wire')) = Cardinality(FirstUnits(wire'))
    BY <1>2, AnswersFacts
<1>4. Joined(wire')
    BY DEF SendInv, WireWellFormed, Joined
<1>5. /\ AnswersOn(wire') # <<>>
      /\ Last(AnswersOn(wire')).req = Last(wire').req
      /\ Last(AnswersOn(wire')).kind = Last(wire').reply
      /\ Last(AnswersOn(wire')).whole <=> Last(wire').unit = Units
    BY <1>1, <1>2, <1>4, LastAnswer DEF SendInv
<1>6. /\ Last(wire').req = current /\ Last(wire').reply = reply
      /\ Last(wire').unit = Units - left'
    BY <1>1 DEF Unit
<1>7. Units - left' = Units <=> left' = 0
    BY <1>1, ConnectionAssumption DEF SendInv, TypeOK
<1>8. QED BY <1>2, <1>3, <1>5, <1>6, <1>7

(* The rest of a response makes the last answer whole, if it is all of it. *)
LEMMA SendContinues ==
    ASSUME SendInv, left < Units
    PROVE  /\ AnswersOn(wire) # <<>> /\ ~Last(AnswersOn(wire)).whole
           /\ left' = 0 => AnswersOn(wire') =
                [AnswersOn(wire) EXCEPT ![Len(AnswersOn(wire))].whole = TRUE]
           /\ left' # 0 => AnswersOn(wire') = AnswersOn(wire)
<1> DEFINE a == AnswersOn(wire)
           b == AnswersOn(wire')
           N == Cardinality(FirstUnits(wire))
<1>1. /\ wire \in Seq(WireUnits) /\ a \in Seq(AnswerRecs) /\ b \in Seq(AnswerRecs)
      /\ Len(a) = N /\ b # <<>>
      /\ Last(b).req = current /\ Last(b).kind = reply /\ (Last(b).whole <=> left' = 0)
    BY SentAnswer
<1>2. Len(b) = N
    <2>1. PICK k \in 1..left : WireGrows(k)
        BY SendFacts DEF SendInv
    <2>2. FirstUnits(wire') = FirstUnits(wire)
        BY <2>1, SendFirsts DEF SendInv
    <2>3. QED BY <2>2, SentAnswer
<1>3. wire # <<>> /\ Last(wire) = Unit(Units - left) /\ Joined(wire)
    BY DEF SendInv, WireInv, Send, WorkerGoes, WireWellFormed, Joined
<1>4. /\ Last(wire).req = current /\ Last(wire).reply = reply
      /\ Last(wire).unit = Units - left
    BY <1>3 DEF Unit
<1>5. Last(wire).unit # Units
    <2>1. left # 0 /\ left \in 0..Units /\ Units \in Nat
        BY ConnectionAssumption DEF SendInv, Send, TypeOK
    <2>2. QED BY <1>4, <2>1
<1>6. a # <<>> /\ Last(a).req = current /\ Last(a).kind = reply /\ ~Last(a).whole
    BY <1>1, <1>3, <1>4, <1>5, LastAnswer DEF SendInv, AnswersInv
<1>7. N \in Nat \ {0}
    <2>1. Len(a) \in Nat \ {0}
        BY <1>1, <1>6, EmptySeq, LenProperties
    <2>2. QED BY <1>1, <2>1
<1>8. \A i \in 1..N : i # N => b[i] = a[i]
    <2>1. SUFFICES ASSUME NEW i \in 1..N, i # N PROVE b[i] = a[i]
        OBVIOUS
    <2>2. i < N
        BY <1>7, <2>1
    <2>3. QED BY <2>2, OldAnswers DEF SendInv
<1> HIDE DEF a, b, N
<1>9. /\ a[N] \in AnswerRecs /\ b[N] \in AnswerRecs
      /\ Last(a) = a[N] /\ Last(b) = b[N] /\ N \in 1..N
    BY <1>1, <1>2, <1>7, ElementOfSeq DEF Last
<1>10. a[N].req = b[N].req /\ a[N].kind = b[N].kind
    BY <1>1, <1>6, <1>9
<1>11. ASSUME left' # 0 PROVE b = a
    <2>1. ~b[N].whole /\ ~a[N].whole
        BY <1>1, <1>6, <1>9, <1>11
    <2>2. b[N] = a[N]
        BY <1>9, <1>10, <2>1, SameAnswer
    <2>3. \A i \in 1..N : b[i] = a[i]
        BY <1>8, <2>2
    <2>4. QED BY <1>1, <1>2, <2>3, SeqEqual
<1>12. ASSUME left' = 0 PROVE b = [a EXCEPT ![N].whole = TRUE]
    <2> DEFINE c == [req |-> a[N].req, kind |-> a[N].kind, whole |-> TRUE]
               d == [a EXCEPT ![N] = c]
    <2>1. c \in AnswerRecs /\ c.req = a[N].req /\ c.kind = a[N].kind /\ c.whole
        BY <1>9 DEF AnswerRecs
    <2>2. [a[N] EXCEPT !.whole = TRUE] = c
        <3> DEFINE q == a[N]
                   e == [q EXCEPT !.whole = TRUE]
        <3>1. q \in AnswerRecs
            BY <1>9
        <3> HIDE DEF q
        <3>2. e \in AnswerRecs /\ e.req = q.req /\ e.kind = q.kind
            BY <3>1 DEF AnswerRecs
        <3>3. e.whole
            BY <3>1 DEF AnswerRecs
        <3> HIDE DEF e
        <3>4. e = c
            BY <2>1, <3>2, <3>3, SameAnswer DEF q
        <3>5. QED BY <3>4 DEF e, q
    <2>3. [a EXCEPT ![N].whole = TRUE] = d
        BY <2>2
    <2> HIDE DEF c
    <2>4. b[N].whole
        BY <1>1, <1>9, <1>12
    <2>5. b[N] = c
        BY <1>9, <1>10, <2>1, <2>4, SameAnswer
    <2>6. /\ d \in Seq(AnswerRecs) /\ Len(d) = N
          /\ \A i \in 1..N : d[i] = IF i = N THEN c ELSE a[i]
        BY <1>1, <1>9, <2>1, ExceptSeq
    <2> HIDE DEF d
    <2>7. \A i \in 1..N : b[i] = d[i]
        BY <1>8, <2>5, <2>6
    <2>8. b = d
        BY <1>1, <1>2, <2>6, <2>7, SeqEqual
    <2>9. QED BY <2>3, <2>8
<1>13. QED BY <1>1, <1>6, <1>11, <1>12 DEF a, b, N

(* The beginning of a response is a new answer.                            *)
LEMMA SendBegins ==
    ASSUME SendInv, left = Units
    PROVE  \E whole \in BOOLEAN :
             AnswersOn(wire') =
               Append(AnswersOn(wire), [req |-> current, kind |-> reply, whole |-> whole])
<1> DEFINE a == AnswersOn(wire)
           b == AnswersOn(wire')
           N == Cardinality(FirstUnits(wire))
           r == Last(b)
<1>1. /\ a \in Seq(AnswerRecs) /\ b \in Seq(AnswerRecs)
      /\ Len(a) = N /\ b # <<>> /\ r.req = current /\ r.kind = reply
    BY SentAnswer
<1>2. N \in Nat /\ Len(b) = N + 1
    <2>1. PICK k \in 1..left : WireGrows(k)
        BY SendFacts DEF SendInv
    <2>2. /\ FirstUnits(wire') = FirstUnits(wire) \cup {Len(wire) + 1}
          /\ Len(wire) + 1 \notin DOMAIN wire
        BY <2>1, SendFirsts DEF SendInv
    <2>3. /\ IsFiniteSet(FirstUnits(wire)) /\ N \in Nat
          /\ FirstUnits(wire) \subseteq DOMAIN wire
        BY SentAnswer, FirstFacts
    <2>4. Cardinality(FirstUnits(wire')) = N + 1
        BY <2>2, <2>3, FS_AddElement, ZenonT(60)
    <2>5. QED BY <2>3, <2>4, SentAnswer
<1>3. \A i \in 1..N : b[i] = a[i]
    BY OldAnswers DEF SendInv
<1> HIDE DEF a, b, N
<1>4. r = b[N + 1] /\ r \in AnswerRecs
    BY <1>1, <1>2, ElementOfSeq DEF Last
<1>5. r.whole \in BOOLEAN /\ r = [req |-> current, kind |-> reply, whole |-> r.whole]
    BY <1>1, <1>4 DEF AnswerRecs
<1> HIDE DEF r
<1>6. /\ Append(a, r) \in Seq(AnswerRecs) /\ Len(Append(a, r)) = N + 1
      /\ \A i \in 1..N : Append(a, r)[i] = a[i]
      /\ Append(a, r)[N + 1] = r
    BY <1>1, <1>4, AppendProperties
<1>7. \A i \in 1..(N + 1) : b[i] = Append(a, r)[i]
    <2>1. \A i \in 1..(N + 1) : i \in 1..N \/ i = N + 1
        BY <1>2
    <2>2. QED BY <1>3, <1>4, <1>6, <2>1
<1>8. b = Append(a, r)
    BY <1>1, <1>2, <1>6, <1>7, SeqEqual
<1>9. QED BY <1>5, <1>8 DEF a, b

-----------------------------------------------------------------------------
(* The refinement.                                                         *)

\* What the exchange takes for right.
Right == [n \in 1..Requests |-> RightAnswer(reqs[n])]

(* Only what the target of a GET calls for is begun, and only after a      *)
(* whole 200; a 200 is given up for a 404 of the same request.             *)
LEMMA BeginsOrGivesUp ==
    ASSUME SendInv, HandledInv, left = Units, UNCHANGED reqs
    PROVE  (\E n \in 1..Requests : Exchange!Begin(n)) \/ Exchange!GiveUp
<1> DEFINE a == AnswersOn(wire)
<1>1. PICK whole \in BOOLEAN :
        AnswersOn(wire') = Append(a, [req |-> current, kind |-> reply, whole |-> whole])
    BY SendBegins
<1>2. Exchange!Answer(current, reply, whole)
    BY <1>1 DEF Exchange!Answer
<1>3. /\ pc = "write" /\ ~reset /\ current \in 1..Requests /\ reply \in Replies
      /\ Units \in Nat \ {0} /\ wire \in Seq(WireUnits)
    BY ConnectionAssumption DEF SendInv, Send, WorkerGoes, TypeOK
<1>4. /\ reqs[current].line = "GET" /\ Target # "badExtension"
      /\ reply = Reply \/ (reply = "404" /\ Reply = "200")
    BY <1>3 DEF HandledInv, SendInv, AnswersInv, RightInv
<1>5. Right[current] = {Reply}
    BY <1>3, <1>4 DEF Right, RightAnswer, Target, Reply
<1>6. \/ Interrupted
      \/ EndsWhole /\ \A i \in DOMAIN wire : wire[i].req < current
    BY <1>3 DEF SendInv, WireInv
<1>7. wire # <<>> =>
        /\ a # <<>>
        /\ Last(a).req = Last(wire).req /\ Last(a).kind = Last(wire).reply
        /\ Last(a).whole <=> Last(wire).unit = Units
    <2>1. Joined(wire)
        BY DEF SendInv, WireWellFormed, Joined
    <2>2. QED BY <1>3, <2>1, LastAnswer DEF SendInv, AnswersInv
<1>8. wire = <<>> => a = <<>>
    <2>1. SUFFICES ASSUME wire = <<>> PROVE a = <<>>
        OBVIOUS
    <2>2. DOMAIN wire = {} /\ FirstUnits(wire) = {}
        BY <2>1 DEF FirstUnits
    <2>3. Len(a) = 0 /\ a \in Seq(AnswerRecs)
        BY <2>2, SentAnswer, FS_EmptySet
    <2>4. QED BY <2>3, EmptySeq
<1>9. CASE Interrupted
    <2>1. /\ wire # <<>> /\ reply = "404" /\ Last(wire).req = current
          /\ Last(wire).reply = "200" /\ Last(wire).unit < Units
        BY <1>3, <1>9 DEF Interrupted
    <2>2. Last(wire).unit # Units
        BY <1>3, <2>1
    <2>3. a # <<>> /\ ~Last(a).whole /\ Last(a).kind = "200" /\ Last(a).req = current
        BY <1>7, <2>1, <2>2
    <2>4. Exchange!GiveUp
        BY <1>2, <2>1, <2>3 DEF Exchange!GiveUp, Last, Exchange!Last
    <2>5. QED BY <2>4
<1>10. CASE EndsWhole /\ \A i \in DOMAIN wire : wire[i].req < current
    <2>1. ASSUME a # <<>>
          PROVE  Last(a).kind = "200" /\ Last(a).whole /\ Last(a).req < current
        <3>1. wire # <<>>
            BY <1>8, <2>1
        <3>2. Last(wire).reply = "200" /\ Last(wire).unit = Units
            BY <1>10, <3>1 DEF EndsWhole
        <3>3. Len(wire) \in DOMAIN wire
            BY <1>3, <3>1, EmptySeq, LenProperties
        <3>4. Last(wire).req < current
            BY <1>10, <3>3 DEF Last
        <3>5. QED BY <1>7, <3>1, <3>2, <3>4
    <2>2. reply \in Right[current] \/ (reply = "404" /\ "200" \in Right[current])
        BY <1>4, <1>5
    <2>3. reply \in Exchange!Answers
        BY <1>3 DEF Replies, Exchange!Answers
    <2>4. Exchange!Begin(current)
        BY <1>2, <2>1, <2>2, <2>3 DEF Exchange!Begin, Last, Exchange!Last, Right
    <2>5. QED BY <1>3, <2>4
<1>11. QED BY <1>6, <1>9, <1>10

(* Every step of the connection is one of the exchange or changes nothing  *)
(* of it.                                                                  *)
LEMMA ExchangeStep ==
    ASSUME TypeOK, HandledInv, WireInv, WireWellFormed, AnswersInv, Next,
           WireWellFormed', AnswersInv'
    PROVE  [Exchange!Next]_Exchange!exchangeVars
<1>1. reqs' = reqs /\ (~Over' => ~Over)
    BY KeptFacts
<1>2. Right' = Right
    BY <1>1 DEF Right
<1>3. CASE Send
    <2>1. ~Over /\ ~Over' /\ Over' = Over
        BY <1>3 DEF Send, WorkerGoes, Over
    <2>2. SendInv
        BY <1>3 DEF SendInv, AnswersInv
    <2>3. left < Units \/ left = Units
        BY ConnectionAssumption DEF TypeOK
    <2>4. CASE left < Units
        <3>1. CASE left' = 0
            <4>1. Exchange!Finish
                BY <2>2, <2>4, <3>1, SendContinues DEF Exchange!Finish, Last, Exchange!Last
            <4>2. QED BY <1>2, <2>1, <4>1 DEF Exchange!Next, Right
        <3>2. CASE left' # 0
            <4>1. AnswersOn(wire') = AnswersOn(wire)
                BY <2>2, <2>4, <3>2, SendContinues
            <4>2. QED BY <1>2, <2>1, <4>1 DEF Exchange!exchangeVars, Right
        <3>3. QED BY <3>1, <3>2
    <2>5. CASE left = Units
        <3>1. (\E n \in 1..Requests : Exchange!Begin(n)) \/ Exchange!GiveUp
            BY <1>1, <2>2, <2>5, BeginsOrGivesUp
        <3>2. QED BY <1>2, <2>1, <3>1 DEF Exchange!Next, Right
    <2>6. QED BY <2>3, <2>4, <2>5
<1>4. CASE ~Send
    <2>1. AnswersOn(wire') = AnswersOn(wire)
        BY <1>4, WireKept
    <2>2. CASE Over' = Over
        BY <1>2, <2>1, <2>2 DEF Exchange!exchangeVars, Right
    <2>3. CASE ~Over /\ Over'
        <3>1. Exchange!End
            BY <2>1, <2>3 DEF Exchange!End
        <3>2. QED BY <1>2, <2>3, <3>1 DEF Exchange!Next, Right
    <2>4. Over' = Over \/ (~Over /\ Over')
        BY <1>1 DEF Over
    <2>5. QED BY <2>2, <2>3, <2>4
<1>5. QED BY <1>3, <1>4

(* Each text the client sends, the parts of its bodies included, is        *)
(* answered once and rightly if it begins like a GET, or not at all; the   *)
(* answers are in order, and nothing follows one that announced the close; *)
(* only a 200 that could not be sent is followed, or replaced, by a 404.   *)
THEOREM ConnectionIsExchange == Spec => Exchange!SafetySpec
<1>1. Init => AnswersInv
    <2>1. SUFFICES ASSUME Init PROVE AnswersInv
        OBVIOUS
    <2>2. DOMAIN wire = {} /\ FirstUnits(wire) = {} /\ pc # "write"
        BY <2>1 DEF Init, FirstUnits
    <2>3. Numbered({})
        BY FS_EmptySet DEF Numbered
    <2>4. QED BY <2>2, <2>3 DEF AnswersInv, Sorted, Begun, RightInv
<1>2. TypeOK /\ ConnectionInv /\ WireWellFormed /\ AnswersInv /\ [Next]_vars => AnswersInv'
    <2>1. SUFFICES ASSUME TypeOK, ConnectionInv, AnswersInv, [Next]_vars PROVE AnswersInv'
        OBVIOUS
    <2>2. CASE Next
        BY <2>1, <2>2, NumberedStep, SortedStep, BegunStep, RightStep DEF AnswersInv, ConnectionInv
    <2>3. CASE UNCHANGED vars
        BY <2>1, <2>3 DEF vars, client, answer, AnswersInv, RightInv, Target, Reply
    <2>4. QED BY <2>1, <2>2, <2>3
<1>3. Spec => []AnswersInv
    BY <1>1, <1>2, Invariant, PTL DEF Spec
<1>4. Init => Exchange!Init
    <2>1. SUFFICES ASSUME Init PROVE Exchange!Init
        OBVIOUS
    <2>2. wire = <<>> /\ DOMAIN wire = {} /\ FirstUnits(wire) = {} /\ ~Over
        BY <2>1 DEF Init, FirstUnits, Over
    <2>3. AnswersOn(wire) = <<>>
        <3>1. Numbered({}) /\ Cardinality({}) = 0 /\ wire \in Seq(WireUnits)
            BY <2>2, FS_EmptySet DEF Numbered
        <3>2. AnswersOn(wire) \in Seq(AnswerRecs) /\ Len(AnswersOn(wire)) = 0
            BY <2>2, <3>1, AnswersFacts
        <3>3. QED BY <3>2, EmptySeq
    <2>4. Right \in [1..Requests -> SUBSET Exchange!Answers]
        BY DEF Right, RightAnswer, Exchange!Answers
    <2>5. QED BY <2>2, <2>3, <2>4 DEF Exchange!Init, Right
<1>5. (TypeOK /\ ConnectionInv /\ WireWellFormed /\ AnswersInv
        /\ WireWellFormed' /\ AnswersInv' /\ [Next]_vars)
           => [Exchange!Next]_Exchange!exchangeVars
    <2>1. SUFFICES ASSUME TypeOK, ConnectionInv, WireWellFormed, AnswersInv,
                          WireWellFormed', AnswersInv', [Next]_vars
                   PROVE  [Exchange!Next]_Exchange!exchangeVars
        OBVIOUS
    <2>2. CASE Next
        BY <2>1, <2>2, ExchangeStep DEF ConnectionInv
    <2>3. CASE UNCHANGED vars
        <3>1. wire' = wire /\ reqs' = reqs /\ pc' = pc
            BY <2>3 DEF vars, client
        <3>2. QED BY <3>1 DEF Exchange!exchangeVars, Over
    <2>4. QED BY <2>1, <2>2, <2>3
<1>6. QED BY <1>3, <1>4, <1>5, Invariant, PTL DEF Spec, Exchange!SafetySpec
=============================================================================
