--------------------------- MODULE SequenceLemmas ---------------------------
(***************************************************************************)
(* Facts about sequences that the proofs of several modules use: what the  *)
(* stack's operations do to one, what moving elements from one sequence to *)
(* the next leaves of the two together, and induction, for a set.          *)
(***************************************************************************)
EXTENDS SequencesExt, SequenceTheorems, WellFoundedInduction, TLAPS

(* push_back, the move out of top() and pop_back stay within Seq(S).       *)
LEMMA SequenceFacts ==
    ASSUME NEW S, NEW s \in Seq(S)
    PROVE  /\ \A e \in S : Append(s, e) \in Seq(S)
           /\ \A e \in S, i \in DOMAIN s : [s EXCEPT ![i] = e] \in Seq(S)
           /\ s # <<>> => Len(s) \in DOMAIN s
           /\ s # <<>> => Last(s) \in S
           /\ s # <<>> => Front(s) \in Seq(S)
           /\ ToSet(s) \subseteq S
<1>1. Len(s) \in Nat /\ DOMAIN s = 1..Len(s)
    BY LenProperties
<1>2. s # <<>> => Len(s) \in DOMAIN s
    BY <1>1, EmptySeq
<1>3. \A e \in S : Append(s, e) \in Seq(S)
    BY AppendProperties
<1>4. \A e \in S, i \in DOMAIN s : [s EXCEPT ![i] = e] \in Seq(S)
    BY <1>1, ExceptSeq
<1>5. s # <<>> => Last(s) \in S
    BY <1>1, <1>2, ElementOfSeq DEF Last
<1>6. s # <<>> => Front(s) \in Seq(S)
    <2>1. \A i \in 1..(Len(s) - 1) : s[i] \in S
        BY <1>1, ElementOfSeq
    <2>2. QED BY <1>1, <2>1, SubSeqProperties DEF Front
<1>7. ToSet(s) \subseteq S
    BY <1>1, ElementOfSeq DEF ToSet
<1>8. QED BY <1>2, <1>3, <1>4, <1>5, <1>6, <1>7

(* push_back adds one place at the end.                                    *)
LEMMA AppendPlaces ==
    ASSUME NEW S, NEW s \in Seq(S), NEW e \in S
    PROVE  /\ Len(s) + 1 \notin DOMAIN s
           /\ DOMAIN Append(s, e) = DOMAIN s \cup {Len(s) + 1}
           /\ Append(s, e)[Len(s) + 1] = e
           /\ \A i \in DOMAIN s : Append(s, e)[i] = s[i]
<1>1. Len(s) \in Nat /\ DOMAIN s = 1..Len(s)
    BY LenProperties
<1>2. QED BY <1>1, AppendProperties, LenProperties

(* What is at each place before and after pop_back.                        *)
LEMMA PlaceFacts ==
    ASSUME NEW S, NEW s \in Seq(S)
    PROVE  /\ DOMAIN <<>> = {}
           /\ ToSet(s) = {s[i] : i \in DOMAIN s}
           /\ s # <<>> => /\ Len(s) \in DOMAIN s
                          /\ Last(s) = s[Len(s)]
                          /\ DOMAIN Front(s) = DOMAIN s \ {Len(s)}
                          /\ \A i \in DOMAIN Front(s) : Front(s)[i] = s[i]
<1>1. Len(s) \in Nat /\ DOMAIN s = 1..Len(s)
    BY LenProperties
<1>2. ASSUME s # <<>>
      PROVE  /\ Len(s) \in DOMAIN s
             /\ DOMAIN Front(s) = DOMAIN s \ {Len(s)}
             /\ \A i \in DOMAIN Front(s) : Front(s)[i] = s[i]
    <2>1. Len(s) \in Nat \ {0} /\ \A i \in 1..(Len(s) - 1) : s[i] \in S
        BY <1>1, <1>2, EmptySeq, ElementOfSeq
    <2>2. /\ DOMAIN Front(s) = 1..(Len(s) - 1)
          /\ \A i \in 1..(Len(s) - 1) : Front(s)[i] = s[i]
        BY <2>1, <1>2, SequenceFacts, SubSeqProperties, LenProperties DEF Front
    <2>3. QED BY <1>1, <2>1, <2>2
<1>3. DOMAIN <<>> = {} /\ ToSet(s) = {s[i] : i \in DOMAIN s} /\ Last(s) = s[Len(s)]
    BY DEF ToSet, Last
<1>4. QED BY <1>2, <1>3

-----------------------------------------------------------------------------
(* Every set of natural numbers that is not empty has a smallest one.      *)
LEMMA Smallest ==
    ASSUME NEW T \in SUBSET Nat, T # {}
    PROVE  \E n \in T : \A m \in T : n <= m
<1>1. PICK n \in T : \A m \in T : <<m, n>> \notin OpToRel(<, Nat)
    BY NatLessThanWellFounded, WFMin
<1>2. \A m \in T : ~(m < n)
    BY <1>1 DEF OpToRel
<1>3. QED BY <1>2

(* Induction for the numbers that have a property, as a set.               *)
LEMMA Induction ==
    ASSUME NEW G, 0 \in G, \A n \in Nat : n \in G => n + 1 \in G
    PROVE  \A n \in Nat : n \in G
<1>1. SUFFICES ASSUME Nat \ G # {} PROVE FALSE
    OBVIOUS
<1>2. PICK n \in Nat \ G : \A m \in Nat \ G : n <= m
    BY <1>1, Smallest
<1>3. n # 0 /\ n - 1 \in Nat /\ n - 1 \in G
    BY <1>2
<1>4. QED BY <1>2, <1>3

-----------------------------------------------------------------------------
(* Where the elements of two sequences are when they are put together.     *)
LEMMA ConcatPlaces ==
    ASSUME NEW S, NEW a \in Seq(S), NEW b \in Seq(S)
    PROVE  /\ a \o b \in Seq(S) /\ Len(a) \in Nat /\ Len(b) \in Nat
           /\ DOMAIN a = 1..Len(a) /\ DOMAIN b = 1..Len(b)
           /\ DOMAIN (a \o b) = 1..(Len(a) + Len(b))
           /\ \A i \in DOMAIN a : i \in DOMAIN (a \o b) /\ (a \o b)[i] = a[i]
           /\ \A i \in DOMAIN b : /\ Len(a) + i \in DOMAIN (a \o b)
                                  /\ (a \o b)[Len(a) + i] = b[i]
           /\ \A i \in DOMAIN (a \o b) :
                i \in DOMAIN a \/ \E j \in DOMAIN b : i = Len(a) + j
<1>1. /\ a \o b \in Seq(S) /\ Len(a \o b) = Len(a) + Len(b)
      /\ \A i \in 1..(Len(a) + Len(b)) :
           (a \o b)[i] = IF i <= Len(a) THEN a[i] ELSE b[i - Len(a)]
    BY ConcatProperties
<1>2. /\ Len(a) \in Nat /\ Len(b) \in Nat
      /\ DOMAIN a = 1..Len(a) /\ DOMAIN b = 1..Len(b)
    BY LenProperties
<1>3. DOMAIN (a \o b) = 1..(Len(a) + Len(b))
    BY <1>1, LenProperties
<1> DEFINE c == a \o b
<1>4. /\ \A i \in 1..(Len(a) + Len(b)) : c[i] = IF i <= Len(a) THEN a[i] ELSE b[i - Len(a)]
      /\ DOMAIN c = 1..(Len(a) + Len(b))
    BY <1>1, <1>3
<1> HIDE DEF c
<1>5. \A i \in DOMAIN a : i \in DOMAIN c /\ c[i] = a[i]
    BY <1>2, <1>4
<1>6. ASSUME NEW i \in DOMAIN b PROVE Len(a) + i \in DOMAIN c /\ c[Len(a) + i] = b[i]
    <2>1. /\ Len(a) + i \in 1..(Len(a) + Len(b))
          /\ ~(Len(a) + i <= Len(a)) /\ (Len(a) + i) - Len(a) = i
        BY <1>2, <1>6
    <2>2. QED BY <1>4, <2>1
<1>7. ASSUME NEW i \in DOMAIN c, i \notin DOMAIN a PROVE \E j \in DOMAIN b : i = Len(a) + j
    <2>1. i - Len(a) \in DOMAIN b /\ i = Len(a) + (i - Len(a))
        BY <1>2, <1>4, <1>7
    <2>2. QED BY <2>1
<1>8. QED BY <1>1, <1>2, <1>3, <1>5, <1>6, <1>7 DEF c

-----------------------------------------------------------------------------
(* The first element of the second sequence goes to the end of the first.  *)
LEMMA MoveOne ==
    ASSUME NEW S, NEW a \in Seq(S), NEW b \in Seq(S), b # <<>>
    PROVE  /\ Head(b) = b[1] /\ b[1] \in S
           /\ Append(a, Head(b)) \in Seq(S) /\ Tail(b) \in Seq(S)
           /\ Append(a, Head(b)) \o Tail(b) = a \o b
<1>1. Len(a) \in Nat /\ Len(b) \in Nat \ {0}
    BY EmptySeq, LenProperties
<1>2. /\ Head(b) = b[1] /\ Head(b) \in S /\ Tail(b) \in Seq(S)
      /\ Len(Tail(b)) = Len(b) - 1
      /\ \A i \in 1..Len(Tail(b)) : Tail(b)[i] = b[i + 1]
    BY HeadTailProperties 
<1>3. /\ Append(a, Head(b)) \in Seq(S) /\ Len(Append(a, Head(b))) = Len(a) + 1
      /\ \A i \in 1..Len(a) : Append(a, Head(b))[i] = a[i]
      /\ Append(a, Head(b))[Len(a) + 1] = b[1]
    BY <1>2, AppendProperties
<1>4. /\ a \o b \in Seq(S) /\ Len(a \o b) = Len(a) + Len(b)
      /\ \A i \in 1..(Len(a) + Len(b)) :
           (a \o b)[i] = IF i <= Len(a) THEN a[i] ELSE b[i - Len(a)]
    BY ConcatProperties
<1> DEFINE c == Append(a, Head(b))
           d == Tail(b)
<1>5. /\ c \o d \in Seq(S) /\ Len(c \o d) = Len(c) + Len(d)
      /\ \A i \in 1..(Len(c) + Len(d)) :
           (c \o d)[i] = IF i <= Len(c) THEN c[i] ELSE d[i - Len(c)]
    BY <1>2, <1>3, ConcatProperties
<1>6. Len(c) = Len(a) + 1 /\ Len(d) = Len(b) - 1 /\ Len(c \o d) = Len(a \o b)
    BY <1>1, <1>2, <1>3, <1>4, <1>5
<1>7. \A i \in 1..Len(c \o d) : (c \o d)[i] = (a \o b)[i]
    <2>1. TAKE i \in 1..Len(c \o d)
    <2>2. CASE i <= Len(a)
        BY <2>1, <2>2, <1>1, <1>3, <1>4, <1>5, <1>6
    <2>3. CASE i = Len(a) + 1
        BY <2>1, <2>3, <1>1, <1>3, <1>4, <1>5, <1>6
    <2>4. CASE i > Len(a) + 1
        <3>1. (c \o d)[i] = d[i - (Len(a) + 1)]
            BY <2>1, <2>4, <1>1, <1>5, <1>6
        <3>2. i - (Len(a) + 1) \in 1..Len(d) /\ (a \o b)[i] = b[i - Len(a)]
            BY <2>1, <2>4, <1>1, <1>4, <1>6
        <3>3. d[i - (Len(a) + 1)] = b[(i - (Len(a) + 1)) + 1]
            BY <1>2, <3>2
        <3>4. QED BY <3>1, <3>2, <3>3, <1>1, <2>1
    <2>5. QED BY <2>1, <2>2, <2>3, <2>4, <1>1
<1>8. c \o d = a \o b
    BY <1>4, <1>5, <1>6, <1>7, SeqEqual
<1>9. QED BY <1>2, <1>3, <1>8

(* ... and so do the first k.                                              *)
LEMMA MoveSome ==
    ASSUME NEW S, NEW a \in Seq(S), NEW b \in Seq(S), NEW k \in 1..Len(b)
    PROVE  /\ a \o SubSeq(b, 1, k) \in Seq(S) /\ SubSeq(b, k + 1, Len(b)) \in Seq(S)
           /\ (a \o SubSeq(b, 1, k)) \o SubSeq(b, k + 1, Len(b)) = a \o b
<1> DEFINE x == SubSeq(b, 1, k)
           y == SubSeq(b, k + 1, Len(b))
           c == a \o x
<1>1. Len(a) \in Nat /\ Len(b) \in Nat /\ \A i \in 1..Len(b) : b[i] \in S
    BY LenProperties, ElementOfSeq
<1>2. /\ x \in Seq(S) /\ Len(x) = k /\ \A i \in 1..k : x[i] = b[i]
      /\ y \in Seq(S) /\ Len(y) = Len(b) - k /\ \A i \in 1..(Len(b) - k) : y[i] = b[k + i]
    BY <1>1, SubSeqProperties
<1>3. /\ a \o b \in Seq(S) /\ Len(a \o b) = Len(a) + Len(b)
      /\ \A i \in 1..(Len(a) + Len(b)) :
           (a \o b)[i] = IF i <= Len(a) THEN a[i] ELSE b[i - Len(a)]
    BY ConcatProperties
<1> HIDE DEF x, y
<1>4. /\ c \in Seq(S) /\ Len(c) = Len(a) + k
      /\ \A i \in 1..(Len(a) + k) : c[i] = IF i <= Len(a) THEN a[i] ELSE x[i - Len(a)]
    BY <1>2, ConcatProperties, ZenonT(60)
<1> HIDE DEF c
<1>5. /\ c \o y \in Seq(S) /\ Len(c \o y) = Len(a) + Len(b)
      /\ \A i \in 1..(Len(a) + Len(b)) :
           (c \o y)[i] = IF i <= Len(a) + k THEN c[i] ELSE y[i - (Len(a) + k)]
    <2>1. /\ c \o y \in Seq(S) /\ Len(c \o y) = Len(c) + Len(y)
          /\ \A i \in 1..(Len(c) + Len(y)) :
               (c \o y)[i] = IF i <= Len(c) THEN c[i] ELSE y[i - Len(c)]
        <3>1. c \in Seq(S) /\ y \in Seq(S)
            BY <1>2, <1>4
        <3>2. QED BY <3>1, ConcatProperties
    <2>2. Len(c) + Len(y) = Len(a) + Len(b)
        BY <1>1, <1>2, <1>4
    <2>3. QED BY <1>4, <2>1, <2>2
<1>6. \A i \in 1..Len(c \o y) : (c \o y)[i] = (a \o b)[i]
    <2>1. TAKE i \in 1..Len(c \o y)
    <2>2. CASE i <= Len(a) + k
        BY <2>1, <2>2, <1>1, <1>2, <1>3, <1>4, <1>5
    <2>3. CASE i > Len(a) + k
        <3>1. i - (Len(a) + k) \in 1..(Len(b) - k)
            BY <2>1, <2>3, <1>1, <1>5
        <3>2. y[i - (Len(a) + k)] = b[k + (i - (Len(a) + k))]
            BY <3>1, <1>2
        <3>3. QED BY <2>1, <2>3, <3>2, <1>1, <1>3, <1>5
    <2>4. QED BY <2>1, <2>2, <2>3, <1>1, <1>5, SMTT(30)
<1>7. c \o y = a \o b
    BY <1>3, <1>5, <1>6, SeqEqual
<1>8. QED BY <1>2, <1>4, <1>7 DEF c, x, y

(* Appending to the second of two sequences.                               *)
LEMMA AppendToSecond ==
    ASSUME NEW S, NEW a \in Seq(S), NEW b \in Seq(S), NEW e \in S
    PROVE  a \o Append(b, e) = Append(a \o b, e)
BY AppendIsConcat, ConcatAssociative, ConcatProperties, AppendProperties

(* Two sequences of one element.                                           *)
LEMMA OneAndOne ==
    ASSUME NEW S, NEW x \in S, NEW y \in S
    PROVE  <<x>> \o <<y>> = <<x, y>>
<1> DEFINE a == <<x>>
           b == <<y>>
           c == <<x, y>>
<1>1. /\ a \in Seq(S) /\ Len(a) = 1 /\ a[1] = x
      /\ b \in Seq(S) /\ Len(b) = 1 /\ b[1] = y
      /\ c \in Seq(S) /\ Len(c) = 2 /\ c[1] = x /\ c[2] = y
    OBVIOUS
<1> HIDE DEF a, b, c
<1>2. a \in Seq(S) /\ b \in Seq(S)
    BY <1>1
<1>3. /\ a \o b \in Seq(S) /\ Len(a \o b) = Len(a) + Len(b)
      /\ \A i \in 1..(Len(a) + Len(b)) :
           (a \o b)[i] = IF i <= Len(a) THEN a[i] ELSE b[i - Len(a)]
    BY <1>2, ConcatProperties
<1>4. Len(a \o b) = 2 /\ (a \o b)[1] = a[1] /\ (a \o b)[2] = b[1]
    BY <1>1, <1>3
<1>5. \A i \in 1..Len(a \o b) : (a \o b)[i] = c[i]
    BY <1>1, <1>4
<1>6. a \o b = c
    BY <1>1, <1>3, <1>4, <1>5, SeqEqual
<1>7. QED BY <1>6 DEF a, b, c

-----------------------------------------------------------------------------
\* What FlattenSeq computes: f[i] is the first i sequences put together.
IsFlattening(f, seqs, n) ==
    f = [i \in 1..n |-> IF i = 1 THEN seqs[i] ELSE f[i - 1] \o seqs[i]]

(* There is such a function, of any length.                                *)
LEMMA FlatteningExists ==
    ASSUME NEW seqs
    PROVE  \A n \in Nat : \E f : IsFlattening(f, seqs, n)
<1> DEFINE G == {n \in Nat : \E f : IsFlattening(f, seqs, n)}
<1>1. 0 \in G
    <2>1. 1..0 = {}
        OBVIOUS
    <2> DEFINE f == [i \in 1..0 |-> <<>>]
    <2>2. IsFlattening(f, seqs, 0)
        BY <2>1 DEF IsFlattening
    <2>3. QED BY <2>2
<1>2. ASSUME NEW n \in Nat, n \in G PROVE n + 1 \in G
    <2>1. PICK f : IsFlattening(f, seqs, n)
        BY <1>2
    <2> DEFINE g == [i \in 1..(n + 1) |->
                       IF i = n + 1 THEN (IF i = 1 THEN seqs[i] ELSE f[n] \o seqs[i])
                       ELSE f[i]]
    <2>2. \A i \in 1..n : g[i] = f[i]
        OBVIOUS
    <2>3. \A i \in 1..n : f[i] = IF i = 1 THEN seqs[i] ELSE f[i - 1] \o seqs[i]
        BY <2>1 DEF IsFlattening
    <2>4. ASSUME NEW i \in 1..(n + 1)
          PROVE  g[i] = IF i = 1 THEN seqs[i] ELSE g[i - 1] \o seqs[i]
        <3>1. CASE i = 1 /\ n = 0
            BY <3>1
        <3>2. CASE i = n + 1 /\ n # 0
            <4>1. n \in 1..n /\ i - 1 = n /\ i # 1
                BY <3>2
            <4>2. g[n] = f[n]
                BY <2>2, <4>1
            <4>3. g[i] = f[n] \o seqs[i]
                BY <3>2, <4>1
            <4>4. QED BY <4>1, <4>2, <4>3
        <3>3. CASE i \in 1..n
            <4>1. i # 1 => i - 1 \in 1..n
                BY <3>3
            <4>2. QED BY <2>2, <2>3, <3>3, <4>1
        <3>4. QED BY <3>1, <3>2, <3>3
    <2> HIDE DEF g
    <2>5. g = [i \in 1..(n + 1) |-> IF i = 1 THEN seqs[i] ELSE g[i - 1] \o seqs[i]]
        <3>1. g = [i \in 1..(n + 1) |-> g[i]]
            BY DEF g
        <3>2. QED BY <2>4, <3>1
    <2>6. IsFlattening(g, seqs, n + 1)
        BY <2>5 DEF IsFlattening
    <2>7. QED BY <2>6
<1>3. \A n \in Nat : n \in G
    BY <1>1, <1>2, Induction
<1>4. QED BY <1>3

(* FlattenSeq is the last of them.                                          *)
LEMMA FlattenIs ==
    ASSUME NEW seqs, Len(seqs) \in Nat \ {0}
    PROVE  \E f : /\ FlattenSeq(seqs) = f[Len(seqs)]
                  /\ \A i \in 1..Len(seqs) :
                       f[i] = IF i = 1 THEN seqs[i] ELSE f[i - 1] \o seqs[i]
<1> DEFINE flat == CHOOSE f : f = [i \in 1..Len(seqs) |->
                                     IF i = 1 THEN seqs[i] ELSE f[i - 1] \o seqs[i]]
<1>1. \E f : f = [i \in 1..Len(seqs) |-> IF i = 1 THEN seqs[i] ELSE f[i - 1] \o seqs[i]]
    BY FlatteningExists DEF IsFlattening
<1>2. flat = [i \in 1..Len(seqs) |-> IF i = 1 THEN seqs[i] ELSE flat[i - 1] \o seqs[i]]
    BY <1>1, Zenon
<1>3. FlattenSeq(seqs) = flat[Len(seqs)]
    BY DEF FlattenSeq
<1> HIDE DEF flat
<1>4. \A i \in 1..Len(seqs) :
        flat[i] = IF i = 1 THEN seqs[i] ELSE flat[i - 1] \o seqs[i]
    BY <1>2
<1>5. QED BY <1>3, <1>4

(* One sequence alone is flattened to itself.                              *)
LEMMA FlattenOne ==
    ASSUME NEW S, NEW a \in Seq(S)
    PROVE  FlattenSeq(<<a>>) = a
<1>1. Len(<<a>>) = 1 /\ <<a>>[1] = a
    OBVIOUS
<1>2. PICK f : FlattenSeq(<<a>>) = f[1]
                 /\ \A i \in 1..1 : f[i] = IF i = 1 THEN <<a>>[i] ELSE f[i - 1] \o <<a>>[i]
    BY <1>1, FlattenIs, SMTT(30)
<1>3. QED BY <1>1, <1>2

(* A sequence before the others comes first.                               *)
LEMMA FlattenCons ==
    ASSUME NEW S, NEW a \in Seq(S), NEW s \in Seq(Seq(S)), s # <<>>
    PROVE  /\ FlattenSeq(s) \in Seq(S)
           /\ FlattenSeq(<<a>> \o s) = a \o FlattenSeq(s)
<1> DEFINE u == <<a>> \o s
           n == Len(s)
<1>1. n \in Nat \ {0}
    BY EmptySeq
<1>2. u \in Seq(Seq(S)) /\ Len(u) = n + 1 /\ u[1] = a /\ \A i \in 1..n : u[i + 1] = s[i]
    <2>1. <<a>> \in Seq(Seq(S)) /\ Len(<<a>>) = 1 /\ <<a>>[1] = a
        OBVIOUS
    <2> DEFINE h == <<a>>
    <2> HIDE DEF h
    <2>2. /\ h \o s \in Seq(Seq(S)) /\ Len(h \o s) = Len(h) + n
          /\ \A i \in 1..(Len(h) + n) :
               (h \o s)[i] = IF i <= Len(h) THEN h[i] ELSE s[i - Len(h)]
        BY <2>1, ConcatProperties DEF h
    <2>3. Len(h) = 1 /\ h[1] = a
        BY <2>1 DEF h
    <2>4. (h \o s)[1] = a
        BY <1>1, <2>2, <2>3
    <2>5. ASSUME NEW i \in 1..n PROVE (h \o s)[i + 1] = s[i]
        <3>1. i + 1 \in 1..(Len(h) + n) /\ ~(i + 1 <= Len(h)) /\ (i + 1) - Len(h) = i
            BY <1>1, <2>3
        <3>2. QED BY <2>2, <3>1
    <2>6. u = h \o s
        BY DEF h
    <2>7. QED BY <2>2, <2>3, <2>4, <2>5, <2>6
<1> HIDE DEF u
<1>3. \A i \in 1..n : s[i] \in Seq(S)
    BY ElementOfSeq
<1>4. PICK f : /\ FlattenSeq(s) = f[n]
               /\ \A i \in 1..n : f[i] = IF i = 1 THEN s[i] ELSE f[i - 1] \o s[i]
    BY <1>1, FlattenIs
<1>5. PICK g : /\ FlattenSeq(u) = g[n + 1]
               /\ \A i \in 1..(n + 1) : g[i] = IF i = 1 THEN u[i] ELSE g[i - 1] \o u[i]
    <2>1. Len(u) = n + 1 /\ Len(u) \in Nat \ {0}
        BY <1>1, <1>2
    <2>2. \E g : /\ FlattenSeq(u) = g[Len(u)]
                 /\ \A i \in 1..Len(u) : g[i] = IF i = 1 THEN u[i] ELSE g[i - 1] \o u[i]
        BY <2>1, FlattenIs
    <2>3. QED BY <2>1, <2>2
<1> DEFINE G == {i \in Nat : i + 1 \in 1..n => f[i + 1] \in Seq(S) /\ g[i + 2] = a \o f[i + 1]}
<1>6. 0 \in G
    <2>1. f[1] = s[1] /\ g[1] = a /\ s[1] \in Seq(S)
        BY <1>1, <1>2, <1>3, <1>4, <1>5
    <2>2. g[2] = g[1] \o u[2]
        <3>1. 2 \in 1..(n + 1) /\ 2 - 1 = 1 /\ 2 # 1
            BY <1>1
        <3>2. QED BY <1>5, <3>1
    <2>3. u[2] = s[1]
        <3>1. 1 \in 1..n /\ 1 + 1 = 2
            BY <1>1
        <3>2. QED BY <1>2, <3>1
    <2>4. f[0 + 1] \in Seq(S) /\ g[0 + 2] = a \o f[0 + 1]
        <3>1. 0 + 1 = 1 /\ 0 + 2 = 2
            OBVIOUS
        <3>2. QED BY <2>1, <2>2, <2>3, <3>1
    <2>5. QED BY <2>4
<1>7. ASSUME NEW i \in Nat, i \in G PROVE i + 1 \in G
    <2>1. SUFFICES ASSUME i + 2 \in 1..n
                   PROVE  f[i + 2] \in Seq(S) /\ g[i + 3] = a \o f[i + 2]
        OBVIOUS
    <2>2. f[i + 1] \in Seq(S) /\ g[i + 2] = a \o f[i + 1]
        BY <1>1, <1>7, <2>1
    <2>3. f[i + 2] = f[i + 1] \o s[i + 2]
        <3>1. i + 2 # 1 /\ (i + 2) - 1 = i + 1
            OBVIOUS
        <3>2. QED BY <1>4, <2>1, <3>1
    <2>4. g[i + 3] = g[i + 2] \o s[i + 2]
        <3>1. i + 3 \in 1..(n + 1) /\ i + 3 # 1 /\ (i + 3) - 1 = i + 2 /\ (i + 2) + 1 = i + 3
            BY <1>1, <2>1
        <3>2. u[i + 3] = s[i + 2]
            BY <1>2, <2>1, <3>1
        <3>3. QED BY <1>5, <3>1, <3>2
    <2>5. s[i + 2] \in Seq(S)
        BY <1>3, <2>1
    <2> DEFINE x == f[i + 1]
               y == s[i + 2]
    <2>6. f[i + 2] = x \o y /\ g[i + 3] = (a \o x) \o y
        BY <2>2, <2>3, <2>4
    <2>7. x \in Seq(S) /\ y \in Seq(S)
        BY <2>2, <2>5
    <2> HIDE DEF x, y
    <2>8. (a \o x) \o y = a \o (x \o y)
        BY <2>7, ConcatAssociative, SMTT(30)
    <2>9. x \o y \in Seq(S)
        BY <2>7, ConcatProperties
    <2>10. QED BY <2>6, <2>8, <2>9
<1> HIDE DEF G
<1>8. \A i \in Nat : i \in G
    BY <1>6, <1>7, Induction
<1>9. n - 1 \in G /\ n - 1 \in Nat /\ (n - 1) + 1 = n /\ (n - 1) + 2 = n + 1
    BY <1>1, <1>8
<1>10. f[n] \in Seq(S) /\ g[n + 1] = a \o f[n]
    BY <1>1, <1>9 DEF G
<1>11. QED BY <1>4, <1>5, <1>10 DEF u

-----------------------------------------------------------------------------
(* Pairs, and one element before the others.                               *)
LEMMA PairFacts ==
    ASSUME NEW S, NEW x \in S, NEW y \in S
    PROVE  <<x, y>> \in Seq(S) /\ Len(<<x, y>>) = 2
OBVIOUS

(* One element before a sequence.                                          *)
LEMMA ConsFacts ==
    ASSUME NEW S, NEW x \in S, NEW s \in Seq(S)
    PROVE  /\ <<x>> \in Seq(S) /\ Len(<<x>>) = 1 /\ <<x>>[1] = x
           /\ <<x>> \o s \in Seq(S) /\ Len(<<x>> \o s) = Len(s) + 1 /\ Len(s) \in Nat
           /\ (<<x>> \o s)[1] = x
           /\ \A i \in 1..Len(s) : (<<x>> \o s)[i + 1] = s[i]
<1> DEFINE h == <<x>>
           u == h \o s
<1>1. h \in Seq(S) /\ Len(h) = 1 /\ h[1] = x
    OBVIOUS
<1> HIDE DEF h
<1>2. /\ u \in Seq(S) /\ Len(u) = Len(h) + Len(s)
      /\ \A i \in 1..(Len(h) + Len(s)) : u[i] = IF i <= Len(h) THEN h[i] ELSE s[i - Len(h)]
    BY <1>1, ConcatProperties
<1>3. Len(s) \in Nat
    BY LenProperties
<1> HIDE DEF u
<1>4. Len(u) = Len(s) + 1 /\ u[1] = x
    BY <1>1, <1>2, <1>3
<1>5. ASSUME NEW i \in 1..Len(s) PROVE u[i + 1] = s[i]
    <2>1. i + 1 \in 1..(Len(h) + Len(s)) /\ ~(i + 1 <= Len(h)) /\ (i + 1) - Len(h) = i
        BY <1>1, <1>3
    <2>2. QED BY <1>2, <2>1
<1>6. u \in Seq(S)
    BY <1>2
<1>7. QED BY <1>1, <1>3, <1>4, <1>5, <1>6 DEF u, h

(* A sequence got by doing something to each element of another.           *)
LEMMA EachFacts ==
    ASSUME NEW S, NEW D, NEW s \in Seq(D), NEW t, t = [i \in DOMAIN s |-> t[i]],
           \A i \in 1..Len(s) : t[i] \in S
    PROVE  t \in Seq(S) /\ Len(t) = Len(s)
<1>1. Len(s) \in Nat /\ DOMAIN s = 1..Len(s)
    BY LenProperties
<1>2. t \in [1..Len(s) -> S]
    BY <1>1
<1>3. QED BY <1>1, <1>2

(* A sequence from its end.                                                *)
LEMMA ReverseFacts ==
    ASSUME NEW S, NEW s \in Seq(S)
    PROVE  /\ Reverse(s) \in Seq(S) /\ Len(Reverse(s)) = Len(s)
           /\ \A i \in 1..Len(s) : Reverse(s)[i] = s[Len(s) - i + 1]
<1> DEFINE n == Len(s)
           c == Reverse(s)
<1>1. n \in Nat /\ DOMAIN s = 1..n /\ \A i \in 1..n : s[i] \in S
    BY LenProperties, ElementOfSeq
<1>2. c = [i \in 1..n |-> s[(n - i) + 1]] /\ \A i \in 1..n : (n - i) + 1 \in 1..n
    BY <1>1 DEF Reverse
<1> HIDE DEF c
<1>3. c = [i \in DOMAIN s |-> c[i]] /\ \A i \in 1..n : c[i] \in S /\ c[i] = s[n - i + 1]
    BY <1>1, <1>2
<1>4. c \in Seq(S) /\ Len(c) = n
    BY <1>3, EachFacts
<1>5. QED BY <1>3, <1>4 DEF c

-----------------------------------------------------------------------------
(* A part of a sequence.                                                   *)
LEMMA PartFacts ==
    ASSUME NEW S, NEW s \in Seq(S), NEW m \in 1..(Len(s) + 1), NEW n \in (m - 1)..Len(s)
    PROVE  /\ SubSeq(s, m, n) \in Seq(S) /\ Len(SubSeq(s, m, n)) = n - m + 1
           /\ DOMAIN SubSeq(s, m, n) = 1..(n - m + 1)
           /\ \A i \in 1..(n - m + 1) : SubSeq(s, m, n)[i] = s[m + i - 1]
<1>1. Len(s) \in Nat /\ m \in Nat /\ n \in Int /\ m >= 1 /\ m - 1 <= n
    BY LenProperties
<1>2. \A i \in m..n : s[i] \in S
    <2>1. TAKE i \in m..n
    <2>2. i \in 1..Len(s)
        BY <1>1
    <2>3. QED BY <2>2, ElementOfSeq
<1>3. /\ SubSeq(s, m, n) \in Seq(S)
      /\ Len(SubSeq(s, m, n)) = IF m <= n THEN n - m + 1 ELSE 0
      /\ \A i \in 1..(n - m + 1) : SubSeq(s, m, n)[i] = s[m + i - 1]
    BY <1>1, <1>2, SubSeqProperties
<1>4. (IF m <= n THEN n - m + 1 ELSE 0) = n - m + 1
    BY <1>1
<1>5. QED BY <1>3, <1>4, LenProperties

-----------------------------------------------------------------------------
(* A set of places that is not empty has a greatest and a smallest.        *)
LEMMA Greatest ==
    ASSUME NEW n \in Nat, NEW T \in SUBSET (0..n), T # {}
    PROVE  Max(T) \in T /\ \A x \in T : x <= Max(T)
<1> DEFINE D == {n - x : x \in T}
<1>1. D \in SUBSET Nat /\ D # {}
    <2>1. \A x \in T : x \in 0..n /\ n - x \in Nat
        OBVIOUS
    <2>2. QED BY <2>1
<1>2. PICK d \in D : \A m \in D : d <= m
    <2> HIDE DEF D
    <2>1. QED BY <1>1, Smallest
<1>3. PICK m \in T : d = n - m
    OBVIOUS
<1>4. \A x \in T : m >= x
    <2>1. TAKE x \in T
    <2>2. d <= n - x
        BY <1>2
    <2>3. QED BY <1>3, <2>2
<1>5. Max(T) \in T /\ \A y \in T : Max(T) >= y
    BY <1>3, <1>4 DEF Max
<1>6. QED BY <1>5

(* Min is the least number of a set.                                       *)
LEMMA Least ==
    ASSUME NEW T \in SUBSET Nat, T # {}
    PROVE  Min(T) \in T /\ \A x \in T : Min(T) <= x
<1>1. PICK m \in T : \A x \in T : m <= x
    BY Smallest
<1>2. QED BY <1>1 DEF Min

-----------------------------------------------------------------------------
(* A number is even or odd.                                                *)
LEMMA EvenOrOdd == \A i \in Nat : \E j \in Nat : i = 2 * j \/ i = 2 * j + 1
<1> DEFINE G == {i \in Nat : \E j \in Nat : i = 2 * j \/ i = 2 * j + 1}
<1>1. 0 \in G
    BY 0 \in Nat /\ 0 = 2 * 0
<1>2. ASSUME NEW i \in Nat, i \in G PROVE i + 1 \in G
    <2>1. PICK j \in Nat : i = 2 * j \/ i = 2 * j + 1
        BY <1>2
    <2>2. CASE i = 2 * j
        <3>1. i + 1 \in Nat /\ i + 1 = 2 * j + 1
            BY <2>2
        <3>2. QED BY <3>1
    <2>3. CASE i = 2 * j + 1
        <3>1. i + 1 \in Nat /\ j + 1 \in Nat /\ i + 1 = 2 * (j + 1)
            BY <2>3
        <3>2. QED BY <3>1
    <2>4. QED BY <2>1, <2>2, <2>3
<1> HIDE DEF G
<1>3. \A i \in Nat : i \in G
    BY <1>1, <1>2, Induction
<1>4. QED BY <1>3 DEF G

(* Two elements that are put after others.                                 *)
LEMMA TwoAfter ==
    ASSUME NEW S, NEW x \in Seq(S), NEW y \in S, NEW z \in S
    PROVE  /\ x \o <<y, z>> \in Seq(S) /\ Len(x) \in Nat /\ Len(x \o <<y, z>>) = Len(x) + 2
           /\ \A i \in 1..Len(x) : (x \o <<y, z>>)[i] = x[i]
           /\ (x \o <<y, z>>)[Len(x) + 1] = y /\ (x \o <<y, z>>)[Len(x) + 2] = z
<1> DEFINE w == <<y, z>>
<1>1. w \in Seq(S) /\ Len(w) = 2 /\ w[1] = y /\ w[2] = z
    OBVIOUS
<1> HIDE DEF w
<1>2. /\ x \o w \in Seq(S) /\ Len(x \o w) = Len(x) + Len(w)
      /\ Len(x) \in Nat
    BY <1>1, ConcatProperties, LenProperties
<1>3. /\ DOMAIN x = 1..Len(x) /\ DOMAIN w = 1..Len(w)
      /\ \A i \in DOMAIN x : (x \o w)[i] = x[i]
      /\ \A i \in DOMAIN w : (x \o w)[Len(x) + i] = w[i]
    <2>1. w \in Seq(S)
        BY <1>1
    <2>2. QED BY <2>1, ConcatPlaces
<1>4. 1 \in DOMAIN w /\ 2 \in DOMAIN w
    <2>1. DOMAIN w = 1..Len(w) /\ Len(w) = 2
        BY <1>1, <1>3, Zenon
    <2>2. QED BY <2>1
<1> DEFINE u == x \o w
<1> HIDE DEF u
<1>5. \A i \in 1..Len(x) : u[i] = x[i]
    BY <1>3 DEF u
<1>6. u[Len(x) + 1] = w[1] /\ u[Len(x) + 2] = w[2]
    BY <1>3, <1>4 DEF u
<1>7. u \in Seq(S) /\ Len(x) \in Nat /\ Len(u) = Len(x) + 2
    BY <1>1, <1>2 DEF u
<1>8. u[Len(x) + 1] = y /\ u[Len(x) + 2] = z
    BY <1>1, <1>6
<1>9. QED BY <1>5, <1>7, <1>8 DEF u, w

\* y stands in x from the place after o on.
StandsFrom(x, o, y) == \A i \in 1..Len(y) : x[o + i] = y[i]

(* Two sequences that are joined, element by element.                      *)
LEMMA JoinedTexts ==
    ASSUME NEW S, NEW x \in Seq(S), NEW y \in Seq(S)
    PROVE  /\ x \o y \in Seq(S) /\ Len(x) \in Nat /\ Len(y) \in Nat
           /\ Len(x \o y) = Len(x) + Len(y)
           /\ \A i \in 1..Len(x) : (x \o y)[i] = x[i]
           /\ StandsFrom(x \o y, Len(x), y)
<1>1. /\ x \o y \in Seq(S) /\ Len(x \o y) = Len(x) + Len(y)
      /\ Len(x) \in Nat /\ Len(y) \in Nat
    BY ConcatProperties, LenProperties
<1>2. /\ DOMAIN x = 1..Len(x) /\ DOMAIN y = 1..Len(y)
      /\ \A i \in DOMAIN x : (x \o y)[i] = x[i]
      /\ \A i \in DOMAIN y : (x \o y)[Len(x) + i] = y[i]
    BY ConcatPlaces
<1>3. QED BY <1>1, <1>2 DEF StandsFrom

(* The first elements of a sequence are a prefix of it, and all are it.    *)
LEMMA FirstOnesArePrefix ==
    ASSUME NEW S, NEW s \in Seq(S), NEW j \in 0..Len(s)
    PROVE  IsPrefix(SubSeq(s, 1, j), s) /\ (j = Len(s) => SubSeq(s, 1, j) = s)
<1> DEFINE p == SubSeq(s, 1, j)
<1>1. Len(s) \in Nat /\ j \in Nat /\ j <= Len(s) /\ 1 \in 1..(Len(s) + 1)
      /\ j \in (1 - 1)..Len(s) /\ j - 1 + 1 = j
    BY LenProperties
<1>2. p \in Seq(S) /\ Len(p) = j /\ \A i \in 1..j : p[i] = s[1 + i - 1]
    BY <1>1, PartFacts
<1>3. \A i \in 1..j : p[i] = s[i]
    BY <1>1, <1>2
<1> HIDE DEF p
<1>4. 1 \in 1..(Len(p) + 1) /\ Len(p) \in (1 - 1)..Len(p)
    BY <1>1, <1>2
<1> DEFINE q == SubSeq(p, 1, Len(p))
<1>5. q \in Seq(S) /\ Len(q) = Len(p) - 1 + 1 /\ \A i \in 1..(Len(p) - 1 + 1) : q[i] = p[1 + i - 1]
    BY <1>2, <1>4, PartFacts
<1> HIDE DEF q
<1>6. Len(q) = Len(p) /\ \A i \in 1..Len(q) : q[i] = p[i]
    BY <1>1, <1>2, <1>5
<1>7. q = p
    BY <1>2, <1>5, <1>6, SeqEqual
<1>8. IsPrefix(p, s)
    <2>1. SubSeq(p, 1, Len(p)) = SubSeq(s, 1, Len(p))
        BY <1>2, <1>7 DEF p, q
    <2>2. QED BY <1>1, <1>2, <2>1 DEF IsPrefix
<1>9. j = Len(s) => p = s
    BY <1>2, <1>3, SeqEqual
<1>10. QED BY <1>8, <1>9 DEF p
=============================================================================
