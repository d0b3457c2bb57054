------------------------ MODULE TextsAndOptionsProofs ------------------------
(***************************************************************************)
(* The parts that run by themselves.  What the functions of HTTPPacket.cpp *)
(* compute, for texts of any length below npos and over any alphabets;     *)
(* what the two readers make of the responses it writes, for files of any  *)
(* units and of any length; and the start of main, for every command line, *)
(* every content of config.json and every width of an int and a port.      *)
(***************************************************************************)
EXTENDS HttpPacket, HttpResponse, Options, SequenceLemmas, TLAPS

\* The characters, CR and LF among them by name: the provers do not know that
\* they are strings.
Char == STRING \cup {"CR", "LF"}

\* The texts the functions are called with.
TextInv == pieces \in Alphabets /\ text \in Seq(Char) /\ Len(text) <= MaxLen[pieces]

(* A text put together of the pieces of an alphabet is a sequence of       *)
(* characters.                                                             *)
LEMMA TextsAreTexts == TextSpec => []TextInv
<1>1. TextInit => TextInv
    <2>1. <<>> \in Seq(Char) /\ Len(<<>>) = 0
        OBVIOUS
    <2>2. QED BY <2>1, NPosAssumption DEF TextInit, TextInv
<1>2. TextInv /\ [Extend]_<<text, pieces>> => TextInv'
    <2>1. SUFFICES ASSUME TextInv, NEW p \in pieces, Len(text) + Len(p) <= MaxLen[pieces],
                          text' = text \o p, pieces' = pieces
                   PROVE  TextInv'
        BY DEF TextInv, Extend
    <2>2. p \in Seq(Char)
        <3>1. p \in Seq(STRING)
            BY <2>1, NPosAssumption DEF TextInv
        <3>2. QED BY <3>1, SeqMonotonic DEF Char
    <2> DEFINE t == text
               u == text \o p
    <2>3. u \in Seq(Char) /\ Len(u) = Len(t) + Len(p)
        BY <2>1, <2>2, ConcatProperties DEF TextInv
    <2> HIDE DEF t, u
    <2>4. text' = u /\ t = text
        BY <2>1 DEF t, u
    <2>5. QED BY <2>1, <2>3, <2>4 DEF TextInv
<1>3. QED BY <1>1, <1>2, PTL DEF TextSpec

(* Every place in a text is below npos.                                    *)
LEMMA BelowNpos == TextInv => text \in Seq(Char) /\ Len(text) < npos
<1>1. SUFFICES ASSUME TextInv PROVE text \in Seq(Char) /\ Len(text) < npos
    OBVIOUS
<1>2. text \in Seq(Char) /\ Len(text) <= MaxLen[pieces] /\ MaxLen[pieces] \in Nat /\ MaxLen[pieces] + 2 < npos
    BY <1>1, NPosAssumption DEF TextInv
<1>3. Len(text) \in Nat /\ npos \in Nat
    BY <1>2, LenProperties DEF npos
<1>4. QED BY <1>2, <1>3

-----------------------------------------------------------------------------
(* The searches.                                                           *)

(* rfind returns the last place of the character, or npos.                 *)
LEMMA RFindIs ==
    ASSUME NEW b \in Seq(Char), NEW char, Len(b) < npos
    PROVE  /\ char \notin ToSet(b) => RFind(b, char) = npos
           /\ char \in ToSet(b) => /\ RFind(b, char) \in 1..Len(b) /\ RFind(b, char) # npos
                                   /\ b[RFind(b, char)] = char
           /\ \A i \in 1..Len(b) : b[i] = char => i <= RFind(b, char)
<1> DEFINE found == {i \in DOMAIN b : b[i] = char}
<1>1. Len(b) \in Nat /\ DOMAIN b = 1..Len(b)
    BY LenProperties
<1>2. char \in ToSet(b) <=> found # {}
    BY DEF ToSet
<1>3. found \in SUBSET (0..Len(b)) /\ npos \in Nat
    BY <1>1 DEF npos
<1>4. found # {} => Max(found) \in found /\ \A x \in found : x <= Max(found)
    <2> HIDE DEF found
    <2>1. QED BY <1>1, <1>3, Greatest
<1>5. RFind(b, char) = IF found = {} THEN npos ELSE Max(found)
    BY DEF RFind
<1>6. QED BY <1>1, <1>2, <1>3, <1>4, <1>5

-----------------------------------------------------------------------------
(* GetContentType.                                                         *)

(* What stands before the last part of a name does not change its type.    *)
LEMMA TypeOfSuffix ==
    ASSUME NEW f \in Seq(Char), NEW g \in Seq(Char), NEW o \in Nat,
           Len(g) = o + Len(f), \A i \in 1..Len(f) : g[o + i] = f[i],
           "." \in ToSet(f), Len(g) < npos
    PROVE  GetContentType(g) = GetContentType(f)
<1> DEFINE p == RFind(f, ".")
           q == RFind(g, ".")
<1>0. /\ Len(f) \in Nat /\ DOMAIN f = 1..Len(f) /\ Len(g) \in Nat /\ DOMAIN g = 1..Len(g)
      /\ Len(f) < npos /\ npos \in Nat
    BY LenProperties DEF npos
<1>1. p \in 1..Len(f) /\ p # npos /\ f[p] = "." /\ \A i \in 1..Len(f) : f[i] = "." => i <= p
    BY <1>0, RFindIs
<1>2. o + p \in 1..Len(g) /\ g[o + p] = "."
    BY <1>0, <1>1
<1>3. "." \in ToSet(g)
    BY <1>0, <1>2 DEF ToSet
<1>4. q \in 1..Len(g) /\ q # npos /\ g[q] = "." /\ \A i \in 1..Len(g) : g[i] = "." => i <= q
    BY <1>3, RFindIs
<1> HIDE DEF p, q
<1>5. q = o + p
    <2>1. o + p <= q
        BY <1>2, <1>4
    <2>2. q - o \in 1..Len(f) /\ q = o + (q - o)
        BY <1>0, <1>1, <1>4, <2>1
    <2>3. f[q - o] = "."
        BY <1>4, <2>2
    <2>4. q - o <= p
        BY <1>1, <2>2, <2>3
    <2>5. QED BY <1>1, <1>4, <2>1, <2>4
<1>6. SubSeq(f, p, Len(f)) = SubSeq(g, q, Len(g))
    <2> DEFINE s == SubSeq(f, p, Len(f))
               t == SubSeq(g, q, Len(g))
    <2>1. /\ \A i \in p..Len(f) : f[i] \in Char
          /\ \A i \in q..Len(g) : g[i] \in Char
        BY <1>0, <1>1, <1>4, ElementOfSeq
    <2>2. /\ s \in Seq(Char) /\ Len(s) = Len(f) - p + 1
          /\ \A i \in 1..(Len(f) - p + 1) : s[i] = f[p + i - 1]
        BY <1>0, <1>1, <2>1, SubSeqProperties
    <2>3. /\ t \in Seq(Char) /\ Len(t) = Len(g) - q + 1
          /\ \A i \in 1..(Len(g) - q + 1) : t[i] = g[q + i - 1]
        BY <1>0, <1>4, <2>1, SubSeqProperties
    <2> HIDE DEF s, t
    <2>4. Len(s) = Len(t)
        BY <1>0, <1>1, <1>5, <2>2, <2>3
    <2>5. ASSUME NEW i \in 1..Len(s) PROVE s[i] = t[i]
        <3>1. p + i - 1 \in 1..Len(f) /\ q + i - 1 = o + (p + i - 1)
            BY <1>0, <1>1, <1>5, <2>2
        <3>2. s[i] = f[p + i - 1] /\ t[i] = g[q + i - 1]
            BY <2>2, <2>3, <2>4
        <3>3. QED BY <3>1, <3>2
    <2>6. s = t
        BY <2>2, <2>3, <2>4, <2>5, SeqEqual
    <2>7. QED BY <2>6 DEF s, t
<1>7. GetContentType(f) = {SubSeq(f, p, Len(f))} \cap KnownTypes
    BY <1>1 DEF GetContentType, p
<1>8. GetContentType(g) = {SubSeq(g, q, Len(g))} \cap KnownTypes
    BY <1>4 DEF GetContentType, q
<1>9. QED BY <1>6, <1>7, <1>8

(* A file's name is the end of its path.                                   *)
LEMMA FileNameIs ==
    ASSUME NEW b \in Seq(Char), Len(b) < npos
    PROVE  /\ FileName(b) \in Seq(Char)
           /\ \E o \in Nat : /\ Len(b) = o + Len(FileName(b))
                             /\ \A i \in 1..Len(FileName(b)) : b[o + i] = FileName(b)[i]
<1> DEFINE slash == RFind(b, "/")
<1>1. Len(b) \in Nat /\ DOMAIN b = 1..Len(b)
    BY LenProperties
<1>2. CASE slash = npos
    <2>1. FileName(b) = b
        BY <1>2 DEF FileName
    <2>2. \A i \in 1..Len(b) : b[0 + i] = b[i]
        BY <1>1
    <2>3. Len(b) = 0 + Len(b)
        BY <1>1
    <2>4. QED BY <2>1, <2>2, <2>3
<1>3. CASE slash # npos
    <2>1. slash \in 1..Len(b)
        BY <1>3, RFindIs
    <2> DEFINE f == SubSeq(b, slash + 1, Len(b))
    <2>2. FileName(b) = f
        BY <1>3 DEF FileName
    <2> HIDE DEF slash
    <2>3. \A i \in (slash + 1)..Len(b) : b[i] \in Char
        BY <1>1, <2>1, ElementOfSeq
    <2>4. /\ f \in Seq(Char)
          /\ Len(f) = IF slash + 1 <= Len(b) THEN Len(b) - (slash + 1) + 1 ELSE 0
          /\ \A i \in 1..(Len(b) - (slash + 1) + 1) : f[i] = b[slash + 1 + i - 1]
        BY <1>1, <2>1, <2>3, SubSeqProperties
    <2> HIDE DEF f
    <2>5. Len(b) = slash + Len(f) /\ slash \in Nat
        <3>1. slash \in Nat /\ slash <= Len(b)
            BY <1>1, <2>1
        <3>2. CASE slash + 1 <= Len(b)
            BY <1>1, <2>4, <3>1, <3>2
        <3>3. CASE slash = Len(b)
            <4>1. ~(slash + 1 <= Len(b))
                BY <1>1, <3>3
            <4>2. QED BY <2>4, <3>1, <3>3, <4>1
        <3>4. \A n \in Nat : \A k \in 1..n : k + 1 <= n \/ k = n
            OBVIOUS
        <3>5. QED BY <1>1, <2>1, <3>2, <3>3, <3>4
    <2>6. \A i \in 1..Len(f) : b[slash + i] = f[i]
        <3>1. TAKE i \in 1..Len(f)
        <3>2. i \in 1..(Len(b) - (slash + 1) + 1) /\ slash + 1 + i - 1 = slash + i
            BY <1>1, <2>1, <2>5
        <3>3. QED BY <2>4, <3>2
    <2>7. QED BY <2>2, <2>4, <2>5, <2>6
<1>4. QED BY <1>2, <1>3

(* A dot with a "/" behind it, and no other behind that, names no type.    *)
LEMMA SlashNamesNoType ==
    ASSUME NEW g \in Seq(Char), Len(g) < npos, NEW c \in 1..Len(g), g[c] = "/",
           \A i \in c..Len(g) : g[i] # "."
    PROVE  GetContentType(g) = IF "." \in ToSet(g) THEN Throws ELSE {<<>>}
<1> DEFINE q == RFind(g, ".")
<1>1. Len(g) \in Nat /\ DOMAIN g = 1..Len(g)
    BY LenProperties
<1>2. CASE "." \notin ToSet(g)
    <2>1. q = npos
        BY <1>2, RFindIs
    <2>2. QED BY <1>2, <2>1 DEF GetContentType
<1>3. CASE "." \in ToSet(g)
    <2>1. q \in 1..Len(g) /\ q # npos /\ g[q] = "."
        BY <1>3, RFindIs
    <2>2. GetContentType(g) = {SubSeq(g, q, Len(g))} \cap KnownTypes
        BY <2>1 DEF GetContentType
    <2> HIDE DEF q
    <2>3. q < c
        BY <1>1, <2>1
    <2> DEFINE e == SubSeq(g, q, Len(g))
               p == c - q + 1
    <2>4. \A i \in q..Len(g) : g[i] \in Char
        BY <1>1, <2>1, ElementOfSeq
    <2>5. /\ e \in Seq(Char) /\ Len(e) = Len(g) - q + 1
          /\ \A i \in 1..(Len(g) - q + 1) : e[i] = g[q + i - 1]
        BY <1>1, <2>1, <2>4, SubSeqProperties
    <2>6. p \in 1..(Len(g) - q + 1) /\ q + p - 1 = c
        BY <1>1, <2>1, <2>3
    <2> HIDE DEF e, p
    <2>7. p \in DOMAIN e /\ e[p] = "/"
        BY <2>5, <2>6, LenProperties
    <2>8. "/" \in ToSet(e)
        BY <2>7 DEF ToSet
    <2>9. e \notin KnownTypes
        BY <2>8, TypesAssumption
    <2>10. QED BY <1>3, <2>2, <2>9 DEF e, Throws
<1>4. QED BY <1>2, <1>3

(* The type of a file with an extension is its name's, whatever dots there *)
(* are in the directory or in the path, and any of them makes a file       *)
(* without an extension throw, for paths of any length.                    *)
THEOREM TypeOfName == TextSpec => []TypeOfFileName
<1>1. ASSUME TextInv, NEW d \in Directories, "." \in ToSet(FileName(text))
      PROVE  GetContentType(d \o text) = GetContentType(FileName(text))
    <2>1. TextInv /\ d \in Directories /\ "." \in ToSet(FileName(text))
        BY <1>1
    <2> DEFINE b == text
               f == FileName(text)
               g == d \o text
    <2>2. /\ b \in Seq(Char) /\ d \in Seq(Char) /\ Len(b) \in Nat /\ Len(d) \in Nat
          /\ Len(d) + Len(b) < npos
        <3>1. /\ d \in Seq(STRING) /\ Len(d) + MaxLen[pieces] < npos /\ MaxLen[pieces] \in Nat
              /\ text \in Seq(Char) /\ Len(text) <= MaxLen[pieces]
            BY <2>1, NPosAssumption DEF TextInv
        <3>4. d \in Seq(Char)
            BY <3>1, SeqMonotonic DEF Char
        <3>2. Len(text) \in Nat /\ Len(d) \in Nat
            BY <3>1, LenProperties
        <3>3. QED BY <3>1, <3>2, <3>4 DEF npos
    <2>3. f \in Seq(Char) /\ Len(f) \in Nat
        BY <2>2, FileNameIs, LenProperties DEF npos
    <2>4. PICK o \in Nat : Len(b) = o + Len(f) /\ \A i \in 1..Len(f) : b[o + i] = f[i]
        <3>1. text \in Seq(Char) /\ Len(text) < npos
            BY <2>2 DEF npos
        <3>2. \E o \in Nat : /\ Len(text) = o + Len(FileName(text))
                             /\ \A i \in 1..Len(FileName(text)) : text[o + i] = FileName(text)[i]
            BY <3>1, FileNameIs, Zenon
        <3>3. QED BY <3>2, Zenon
    <2> HIDE DEF b, f
    <2>5. /\ g \in Seq(Char) /\ Len(g) = Len(d) + Len(b)
          /\ \A i \in 1..Len(b) : g[Len(d) + i] = b[i]
        <3>1. g = d \o b
            BY DEF b
        <3>2. d \o b \in Seq(Char) /\ Len(d \o b) = Len(d) + Len(b)
            BY <2>2, ConcatProperties
        <3>3. DOMAIN b = 1..Len(b) /\ \A i \in DOMAIN b : (d \o b)[Len(d) + i] = b[i]
            BY <2>2, ConcatPlaces
        <3>4. QED BY <3>1, <3>2, <3>3
    <2> HIDE DEF g
    <2>6. Len(d) + o \in Nat /\ Len(g) = (Len(d) + o) + Len(f) /\ Len(g) < npos
        BY <2>2, <2>3, <2>4, <2>5
    <2>7. \A i \in 1..Len(f) : g[(Len(d) + o) + i] = f[i]
        <3>1. TAKE i \in 1..Len(f)
        <3>2. o + i \in 1..Len(b) /\ (Len(d) + o) + i = Len(d) + (o + i)
            BY <2>2, <2>3, <2>4
        <3>3. QED BY <2>4, <2>5, <3>2
    <2>8. "." \in ToSet(f)
        BY <2>1 DEF f
    <2>9. GetContentType(g) = GetContentType(f)
        BY <2>3, <2>5, <2>6, <2>7, <2>8, TypeOfSuffix
    <2>10. QED BY <2>9 DEF f, g
<1>2. ASSUME TextInv, NEW d \in Directories,
             "." \notin ToSet(FileName(text)), "/" \in ToSet(text)
      PROVE  GetContentType(d \o text) = IF "." \in ToSet(d \o text) THEN Throws ELSE {<<>>}
    <2> DEFINE b == text
               c == RFind(b, "/")
               g == d \o b
    <2>1. /\ b \in Seq(Char) /\ d \in Seq(Char) /\ Len(b) \in Nat /\ Len(d) \in Nat
          /\ Len(d) + Len(b) < npos /\ Len(b) < npos
        <3>1. /\ d \in Seq(STRING) /\ Len(d) + MaxLen[pieces] < npos /\ MaxLen[pieces] \in Nat
              /\ text \in Seq(Char) /\ Len(text) <= MaxLen[pieces]
            BY <1>2, NPosAssumption DEF TextInv
        <3>2. d \in Seq(Char)
            BY <3>1, SeqMonotonic DEF Char
        <3>3. Len(text) \in Nat /\ Len(d) \in Nat
            BY <3>1, LenProperties
        <3>4. QED BY <3>1, <3>2, <3>3 DEF npos
    <2>2. "/" \in ToSet(b) /\ "." \notin ToSet(FileName(b))
        BY <1>2
    <2> HIDE DEF b
    <2>3. c \in 1..Len(b) /\ c # npos /\ b[c] = "/"
        BY <2>1, <2>2, RFindIs
    <2>4. FileName(b) = SubSeq(b, c + 1, Len(b))
        BY <2>3 DEF FileName
    <2> HIDE DEF c
    <2>5. ASSUME NEW i \in c..Len(b), b[i] = "." PROVE FALSE
        <3>1. i \in (c + 1)..Len(b)
            BY <2>1, <2>3, <2>5
        <3> DEFINE e == SubSeq(b, c + 1, Len(b))
                   j == i - c
        <3>2. \A k \in (c + 1)..Len(b) : b[k] \in Char
            BY <2>1, <2>3, ElementOfSeq
        <3>3. c + 1 \in 1..Len(b) /\ c + 1 <= Len(b)
            BY <2>1, <2>3, <3>1
        <3>4. /\ e \in Seq(Char) /\ Len(e) = Len(b) - (c + 1) + 1
              /\ \A k \in 1..(Len(b) - (c + 1) + 1) : e[k] = b[c + 1 + k - 1]
            BY <2>1, <3>2, <3>3, SubSeqProperties
        <3>5. j \in 1..(Len(b) - (c + 1) + 1) /\ c + 1 + j - 1 = i
            BY <2>1, <2>3, <3>1
        <3> HIDE DEF e, j
        <3>6. j \in DOMAIN e /\ e[j] = "."
            BY <2>5, <3>4, <3>5, LenProperties
        <3>7. "." \in ToSet(e)
            BY <3>6 DEF ToSet
        <3>8. QED BY <2>2, <2>4, <3>7 DEF e
    <2>6. g \in Seq(Char) /\ Len(g) = Len(d) + Len(b) /\ \A i \in 1..Len(b) : g[Len(d) + i] = b[i]
        <3>1. d \o b \in Seq(Char) /\ Len(d \o b) = Len(d) + Len(b)
            BY <2>1, ConcatProperties
        <3>2. DOMAIN b = 1..Len(b) /\ \A i \in DOMAIN b : (d \o b)[Len(d) + i] = b[i]
            BY <2>1, ConcatPlaces
        <3>3. QED BY <3>1, <3>2
    <2> HIDE DEF g
    <2>7. Len(d) + c \in 1..Len(g) /\ g[Len(d) + c] = "/"
        BY <2>1, <2>3, <2>6
    <2>8. ASSUME NEW i \in (Len(d) + c)..Len(g) PROVE g[i] # "."
        <3>1. i - Len(d) \in c..Len(b) /\ i - Len(d) \in 1..Len(b) /\ Len(d) + (i - Len(d)) = i
            BY <2>1, <2>3, <2>6, <2>8
        <3>2. g[Len(d) + (i - Len(d))] = b[i - Len(d)]
            BY <2>6, <3>1
        <3>3. g[i] = b[i - Len(d)]
            BY <3>1, <3>2
        <3>4. QED BY <2>5, <3>1, <3>3
    <2>9. Len(g) < npos
        BY <2>1, <2>6
    <2>10. GetContentType(g) = IF "." \in ToSet(g) THEN Throws ELSE {<<>>}
        BY <2>6, <2>7, <2>8, <2>9, SlashNamesNoType
    <2>11. QED BY <2>10 DEF g, b
<1>3. TextInv => TypeOfFileName
    BY <1>1, <1>2, Zenon DEF TypeOfFileName
<1>4. QED BY <1>3, TextsAreTexts, PTL

-----------------------------------------------------------------------------
(* Line ends.                                                              *)

EolAt(b, i) == i \in 1..(Len(b) - 1) /\ b[i] = "CR" /\ b[i + 1] = "LF"

FirstEol(b, pos, k) == k >= pos /\ EolAt(b, k) /\ \A i \in pos..(k - 1) : ~EolAt(b, i)
NoEol(b, pos) == \A i \in Nat : i >= pos => ~EolAt(b, i)

(* A line end is two characters.                                           *)
LEMMA EolIsText == EOL \in Seq(Char) /\ Len(EOL) = 2
<1>1. "CR" \in Char /\ "LF" \in Char
    BY DEF Char
<1>2. <<"CR", "LF">> \in Seq(Char) /\ Len(<<"CR", "LF">>) = 2
    BY <1>1, PairFacts, Zenon
<1>3. QED BY <1>2 DEF EOL

(* A comparison with EOL looks at two characters.                          *)
LEMMA EolIsTwo ==
    ASSUME NEW b \in Seq(Char), NEW i \in 1..(Len(b) - 1)
    PROVE  IsAt(b, EOL, i) <=> EolAt(b, i)
<1> DEFINE s == SubSeq(b, i, i + 1)
<1>1. Len(b) \in Nat /\ i \in Nat /\ Len(EOL) = 2 /\ EOL[1] = "CR" /\ EOL[2] = "LF"
    BY LenProperties DEF EOL
<1>2. i + Len(EOL) - 1 = i + 1
    BY <1>1
<1>3. s \in Seq(Char) /\ Len(s) = 2 /\ s[1] = b[i] /\ s[2] = b[i + 1]
    <2>1. i \in 1..(Len(b) + 1) /\ i + 1 \in (i - 1)..Len(b) /\ (i + 1) - i + 1 = 2
        BY <1>1
    <2>2. s \in Seq(Char) /\ Len(s) = 2 /\ \A j \in 1..2 : s[j] = b[i + j - 1]
        BY <2>1, PartFacts
    <2>3. i + 1 - 1 = i /\ i + 2 - 1 = i + 1
        BY <1>1
    <2>4. QED BY <2>2, <2>3
<1>4. IsAt(b, EOL, i) <=> s = EOL
    BY <1>2 DEF IsAt
<1> HIDE DEF s
<1>5. s = EOL <=> s[1] = "CR" /\ s[2] = "LF"
    <2>1. EOL \in Seq(Char)
        BY EolIsText
    <2>2. ASSUME s[1] = "CR", s[2] = "LF" PROVE s = EOL
        <3>1. \A j \in 1..2 : s[j] = EOL[j]
            BY <1>1, <2>2
        <3>2. QED BY <1>1, <1>3, <2>1, <3>1, SeqEqual
    <2>3. QED BY <1>1, <2>2
<1>6. QED BY <1>3, <1>4, <1>5 DEF EolAt

(* find returns the first line end, or npos.                               *)
LEMMA FindEol ==
    ASSUME NEW b \in Seq(Char), Len(b) < npos, NEW pos \in Nat \ {0}
    PROVE  \/ Find(b, EOL, pos) = npos /\ NoEol(b, pos)
           \/ /\ Find(b, EOL, pos) # npos /\ Find(b, EOL, pos) \in 1..(Len(b) - 1)
              /\ FirstEol(b, pos, Find(b, EOL, pos))
<1> DEFINE T == {i \in pos..(Len(b) - Len(EOL) + 1) : IsAt(b, EOL, i)}
<1>1. Len(b) \in Nat /\ Len(EOL) = 2 /\ Len(b) - 2 + 1 = Len(b) - 1
    BY LenProperties DEF EOL
<1>2. \A i \in T : i \in Nat /\ i >= pos /\ EolAt(b, i)
    BY <1>1, EolIsTwo
<1>3. \A i \in Nat : i >= pos /\ EolAt(b, i) => i \in T
    <2>1. SUFFICES ASSUME NEW i \in Nat, i >= pos, EolAt(b, i) PROVE i \in T
        OBVIOUS
    <2>2. i \in 1..(Len(b) - 1) /\ i \in pos..(Len(b) - Len(EOL) + 1)
        BY <1>1, <2>1 DEF EolAt
    <2>3. QED BY <2>1, <2>2, EolIsTwo
<1>4. Find(b, EOL, pos) = IF T = {} THEN npos ELSE Min(T)
    BY DEF Find, FirstOf
<1> HIDE DEF T
<1>5. CASE T = {}
    BY <1>3, <1>4, <1>5 DEF NoEol
<1>6. CASE T # {}
    <2>1. Min(T) \in T /\ \A x \in T : Min(T) <= x
        BY <1>2, <1>6, Least
    <2> DEFINE k == Min(T)
    <2>2. k \in Nat /\ k >= pos /\ EolAt(b, k) /\ k \in 1..(Len(b) - 1)
        BY <1>2, <2>1 DEF EolAt
    <2>3. Find(b, EOL, pos) = k
        BY <1>4, <1>6
    <2> HIDE DEF k
    <2>4. \A i \in pos..(k - 1) : ~EolAt(b, i)
        <3>1. SUFFICES ASSUME NEW i \in pos..(k - 1), EolAt(b, i) PROVE FALSE
            OBVIOUS
        <3>2. i \in Nat /\ i >= pos /\ ~(k <= i)
            BY <2>2, <3>1
        <3>3. i \in T
            BY <1>3, <3>1, <3>2
        <3>4. QED BY <2>1, <3>2, <3>3 DEF k
    <2>5. k # npos
        BY <1>1, <2>2 DEF npos
    <2>6. QED BY <2>2, <2>3, <2>4, <2>5 DEF FirstEol
<1>7. QED BY <1>5, <1>6

-----------------------------------------------------------------------------
(* Split.                                                                  *)

\* One turn of its loop, with f for the turns that follow.
Turn(b, f, pos) ==
    LET nextPos == Find(b, EOL, pos)
    IN  IF nextPos = npos THEN <<SubSeq(b, pos, Len(b))>>
        ELSE <<SubSeq(b, pos, nextPos - 1)>>
             \o IF nextPos + 2 <= Len(b) THEN f[nextPos + 2] ELSE <<>>

\* f computes the turns from place from on.
Turns(b, f, from) ==
    /\ f = [pos \in 1..Len(b) |-> f[pos]]
    /\ \A pos \in from..Len(b) : f[pos] = Turn(b, f, pos)

(* A turn depends on later ones only.                                      *)
LEMMA TurnLater ==
    ASSUME NEW b \in Seq(Char), Len(b) < npos, NEW pos \in 1..Len(b), NEW f, NEW g,
           \A p \in (pos + 1)..Len(b) : f[p] = g[p]
    PROVE  Turn(b, f, pos) = Turn(b, g, pos)
<1>1. Len(b) \in Nat /\ pos \in Nat \ {0}
    BY LenProperties
<1> DEFINE k == Find(b, EOL, pos)
<1>2. k # npos => k \in 1..(Len(b) - 1) /\ k >= pos
    BY <1>1, FindEol DEF FirstEol
<1> HIDE DEF k
<1>3. k # npos /\ k + 2 <= Len(b) => k + 2 \in (pos + 1)..Len(b)
    BY <1>1, <1>2
<1>4. k # npos /\ k + 2 <= Len(b) => f[k + 2] = g[k + 2]
    BY <1>3
<1>5. QED BY <1>4 DEF Turn, k

(* The loop's function exists, so Split is its first turn.                 *)
LEMMA SplitIs ==
    ASSUME NEW b \in Seq(Char), Len(b) < npos, b # <<>>
    PROVE  \E f : Split(b) = f[1] /\ \A pos \in 1..Len(b) : f[pos] = Turn(b, f, pos)
<1> DEFINE n == Len(b)
           G == {m \in Nat : m <= n => \E f : Turns(b, f, n + 1 - m)}
<1>1. n \in Nat \ {0}
    BY EmptySeq
<1>2. 0 \in G
    <2> DEFINE f == [pos \in 1..n |-> <<>>]
    <2>1. f = [pos \in 1..n |-> f[pos]] /\ (n + 1 - 0)..n = {}
        BY <1>1
    <2>2. Turns(b, f, n + 1 - 0)
        BY <2>1 DEF Turns
    <2>3. QED BY <2>2
<1>3. ASSUME NEW m \in Nat, m \in G PROVE m + 1 \in G
    <2>1. SUFFICES ASSUME m + 1 <= n PROVE \E g : Turns(b, g, n + 1 - (m + 1))
        OBVIOUS
    <2> DEFINE p == n - m
    <2>2. /\ p \in 1..n /\ n + 1 - (m + 1) = p /\ n + 1 - m = p + 1 /\ m <= n
          /\ p..n = {p} \cup (p + 1)..n /\ p \notin (p + 1)..n
        BY <1>1, <2>1
    <2>3. PICK f : Turns(b, f, p + 1)
        BY <1>3, <2>2
    <2> DEFINE g == [pos \in 1..n |-> IF pos = p THEN Turn(b, f, p) ELSE f[pos]]
    <2> HIDE DEF p
    <2>4. \A pos \in (p + 1)..n : g[pos] = f[pos] /\ pos \in 1..n
        BY <1>1, <2>2
    <2>5. g[p] = Turn(b, f, p) /\ g = [pos \in 1..n |-> g[pos]]
        BY <2>2
    <2> HIDE DEF g
    <2>6. ASSUME NEW pos \in p..n PROVE g[pos] = Turn(b, g, pos)
        <3>1. pos \in 1..n /\ \A q \in (pos + 1)..n : q \in (p + 1)..n
            BY <1>1, <2>2
        <3>2. Turn(b, f, pos) = Turn(b, g, pos)
            <4>1. \A q \in (pos + 1)..Len(b) : f[q] = g[q]
                BY <2>4, <3>1
            <4>2. QED BY <3>1, <4>1, TurnLater
        <3>3. CASE pos = p
            BY <2>5, <3>2, <3>3
        <3>4. CASE pos # p
            <4>1. pos \in (p + 1)..n
                BY <2>2, <3>4
            <4>2. f[pos] = Turn(b, f, pos)
                BY <2>3, <4>1 DEF Turns
            <4>3. QED BY <2>4, <3>2, <4>1, <4>2
        <3>5. QED BY <3>3, <3>4
    <2>7. Turns(b, g, p)
        BY <2>5, <2>6 DEF Turns
    <2>8. QED BY <2>2, <2>7
<1> HIDE DEF G
<1>4. n \in G
    <2>1. \A m \in Nat : m \in G
        BY <1>2, <1>3, Induction
    <2>2. QED BY <1>1, <2>1
<1>5. \E f : Turns(b, f, 1)
    <2>1. n <= n /\ n + 1 - n = 1
        BY <1>1
    <2>2. QED BY <1>4, <2>1 DEF G
<1>6. \E f : f = [pos \in 1..Len(b) |-> Turn(b, f, pos)]
    <2>1. PICK f : f = [pos \in 1..Len(b) |-> f[pos]]
                   /\ \A pos \in 1..Len(b) : f[pos] = Turn(b, f, pos)
        BY <1>5 DEF Turns
    <2> DEFINE g == [pos \in 1..Len(b) |-> Turn(b, f, pos)]
    <2>2. g = [pos \in 1..Len(b) |-> f[pos]]
        BY <2>1
    <2>3. f = g
        BY <2>1, <2>2
    <2>4. QED BY <2>3
<1> DEFINE from == CHOOSE f : f = [pos \in 1..Len(b) |-> Turn(b, f, pos)]
<1>7. from = [pos \in 1..Len(b) |-> Turn(b, from, pos)]
    BY <1>6, Zenon
<1>8. Split(b) = from[1]
    BY DEF Split, Turn
<1> HIDE DEF from
<1>9. \A pos \in 1..Len(b) : from[pos] = Turn(b, from, pos)
    BY <1>7
<1>10. QED BY <1>8, <1>9

-----------------------------------------------------------------------------
(* What the lines are.                                                     *)

Ended(lines) == [i \in DOMAIN lines |-> lines[i] \o EOL]

(* Lines with their ends.                                                  *)
LEMMA EndedFacts ==
    ASSUME NEW T, T = Seq(Char), NEW L \in Seq(T)
    PROVE  /\ Ended(L) \in Seq(T) /\ Len(Ended(L)) = Len(L) /\ Len(L) \in Nat
           /\ \A i \in 1..Len(L) : L[i] \in T /\ L[i] \o EOL \in T /\ Ended(L)[i] = L[i] \o EOL
<1>1. Len(L) \in Nat /\ DOMAIN L = 1..Len(L) /\ \A i \in 1..Len(L) : L[i] \in T
    BY LenProperties, ElementOfSeq
<1>2. \A x \in T : x \o EOL \in T
    <2>1. \A x \in Seq(Char) : x \o EOL \in Seq(Char)
        BY EolIsText, ConcatProperties
    <2>2. QED BY <2>1
<1> DEFINE E == Ended(L)
<1>3. E = [i \in DOMAIN L |-> E[i]] /\ \A i \in 1..Len(L) : E[i] = L[i] \o EOL
    BY <1>1 DEF Ended
<1> HIDE DEF E
<1>4. \A i \in 1..Len(L) : E[i] \in T
    BY <1>1, <1>2, <1>3
<1>5. E \in Seq(T) /\ Len(E) = Len(L)
    BY <1>3, <1>4, EachFacts
<1>6. QED BY <1>1, <1>2, <1>3, <1>5 DEF E

(* Joining none.                                                           *)
LEMMA JoinedNone == Joined(<<>>) = <<>>
<1>1. [i \in DOMAIN <<>> |-> <<>>[i] \o EOL] = <<>>
    OBVIOUS
<1>2. FlattenSeq(<<>>) = <<>>
    BY DEF FlattenSeq
<1>3. QED BY <1>1, <1>2 DEF Joined

(* Joining one line.                                                       *)
LEMMA JoinedOne ==
    ASSUME NEW x \in Seq(Char)
    PROVE  Joined(<<x>>) = x \o EOL
<1> DEFINE T == Seq(Char)
           y == x \o EOL
           L == <<x>>
           E == Ended(L)
<1>1. x \in T /\ y \in T
    BY EolIsText, ConcatProperties
<1>2. T = Seq(Char)
    OBVIOUS
<1> HIDE DEF T
<1>3. L \in Seq(T) /\ Len(L) = 1 /\ L[1] = x
    BY <1>1
<1> HIDE DEF L
<1>4. E \in Seq(T) /\ Len(E) = 1 /\ E[1] = x \o EOL
    <2>1. /\ Ended(L) \in Seq(T) /\ Len(Ended(L)) = Len(L)
          /\ \A i \in 1..Len(L) : Ended(L)[i] = L[i] \o EOL
        BY <1>2, <1>3, EndedFacts
    <2>2. 1 \in 1..1
        OBVIOUS
    <2>3. QED BY <1>3, <2>1, <2>2
<1> HIDE DEF y, E
<1>5. <<y>> \in Seq(T) /\ Len(<<y>>) = 1 /\ <<y>>[1] = y
    BY <1>1
<1>6. E = <<y>>
    <2> DEFINE F == <<y>>
    <2>1. E[1] = y
        BY <1>4 DEF y
    <2> HIDE DEF F
    <2>2. F \in Seq(T) /\ Len(F) = 1 /\ F[1] = y
        BY <1>5 DEF F
    <2>3. \A i \in 1..Len(E) : E[i] = F[i]
        BY <1>4, <2>1, <2>2
    <2>4. E = F
        BY <1>4, <2>2, <2>3, SeqEqual
    <2>5. QED BY <2>4 DEF F
<1>7. FlattenSeq(<<y>>) = y
    BY <1>1, <1>2, FlattenOne
<1>8. Joined(L) = FlattenSeq(E)
    BY DEF Joined, Ended, E
<1>9. QED BY <1>6, <1>7, <1>8 DEF y, L

(* Joining one line before others.                                         *)
LEMMA JoinedCons ==
    ASSUME NEW T, T = Seq(Char), NEW x \in T, NEW L \in Seq(T), L # <<>>
    PROVE  Joined(L) \in T /\ Joined(<<x>> \o L) = (x \o EOL) \o Joined(L)
<1> DEFINE y == x \o EOL
           u == <<x>> \o L
           E == Ended(L)
           v == <<y>> \o E
<1>1. /\ u \in Seq(T) /\ Len(u) = Len(L) + 1 /\ Len(L) \in Nat /\ u[1] = x
      /\ \A i \in 1..Len(L) : u[i + 1] = L[i]
    BY ConsFacts
<1>2. y \in T
    <2>1. x \in Seq(Char)
        OBVIOUS
    <2>2. x \o EOL \in Seq(Char)
        BY <2>1, EolIsText, ConcatProperties
    <2>3. QED BY <2>2
<1>3. /\ E \in Seq(T) /\ Len(E) = Len(L)
      /\ \A i \in 1..Len(L) : E[i] = L[i] \o EOL
    BY EndedFacts
<1> HIDE DEF y, E
<1>4. /\ v \in Seq(T) /\ Len(v) = Len(E) + 1 /\ v[1] = y
      /\ \A i \in 1..Len(E) : v[i + 1] = E[i]
    BY <1>2, <1>3, ConsFacts
<1> HIDE DEF u, v
<1>5. Ended(u) = v
    <2>1. /\ Ended(u) \in Seq(T) /\ Len(Ended(u)) = Len(u)
          /\ \A i \in 1..Len(u) : Ended(u)[i] = u[i] \o EOL
        BY <1>1, EndedFacts
    <2>2. ASSUME NEW i \in 1..Len(u) PROVE u[i] \o EOL = v[i]
        <3>1. CASE i = 1
            BY <1>1, <1>4, <3>1 DEF y
        <3>2. CASE i # 1
            <4>1. i - 1 \in 1..Len(L) /\ (i - 1) + 1 = i
                BY <1>1, <3>2
            <4>2. u[i] = L[i - 1] /\ v[i] = E[i - 1]
                BY <1>1, <1>3, <1>4, <4>1
            <4>3. QED BY <1>3, <4>1, <4>2
        <3>3. QED BY <3>1, <3>2
    <2> DEFINE w == Ended(u)
    <2>3. w \in Seq(T) /\ Len(w) = Len(v) /\ \A i \in 1..Len(w) : w[i] = v[i]
        BY <1>1, <1>3, <1>4, <2>1, <2>2
    <2> HIDE DEF w
    <2>4. w = v
        BY <1>4, <2>3, SeqEqual
    <2>5. QED BY <2>4 DEF w
<1>6. FlattenSeq(E) \in T /\ FlattenSeq(v) = y \o FlattenSeq(E)
    <2>1. E # <<>>
        BY <1>1, <1>3, EmptySeq
    <2>2. y \in Seq(Char) /\ E \in Seq(Seq(Char))
        BY <1>2, <1>3
    <2>3. FlattenSeq(E) \in Seq(Char) /\ FlattenSeq(<<y>> \o E) = y \o FlattenSeq(E)
        BY <2>1, <2>2, FlattenCons
    <2>4. QED BY <2>3 DEF v
<1>7. Joined(L) = FlattenSeq(E) /\ Joined(u) = FlattenSeq(v)
    BY <1>5 DEF Joined, Ended, E
<1>8. QED BY <1>6, <1>7 DEF u, y

-----------------------------------------------------------------------------
(* Split's lines, from a place on.                                         *)

\* The text from pos on ends with a line end.
Ends(b, pos) == Len(b) - 1 >= pos /\ EolAt(b, Len(b) - 1)

\* L is what the loop pushes from pos on: no line holds a line end, together
\* they are the text, and when there are several lines and the last is empty.
OneByOne(L) == \A i \in 1..Len(L) : Find(L[i], EOL, 1) = npos
WholeFrom(b, pos, L) ==
    Joined(L) = IF Ends(b, pos) THEN SubSeq(b, pos, Len(b))
                ELSE SubSeq(b, pos, Len(b)) \o EOL
BlankAtEnd(b, pos, L) ==
    L[Len(L)] = <<>> <=>
      /\ Ends(b, pos)
      /\ Len(b) - 1 = pos \/ (Len(b) - 3 >= pos /\ EolAt(b, Len(b) - 3))
Several(b, pos, L) == Len(L) > 1 <=> \E k \in pos..(Len(b) - 2) : EolAt(b, k)

\* The line x stands at s, wholly: up to a line end or the end of the text.
StandsAt(b, s, x) ==
    LET e == s + Len(x) - 1
    IN  /\ e <= Len(b) /\ x = SubSeq(b, s, e)
        /\ e = Len(b) \/ EolAt(b, e + 1)
        /\ \A q \in s..e : ~EolAt(b, q)

\* Each line stands somewhere, the first one at pos, and the name of the field
\* is before a line only in earlier ones.
Placed(b, pos, L) ==
    \A i \in 1..Len(L) :
        \E s \in Nat :
            /\ s >= pos /\ StandsAt(b, s, L[i]) /\ (i = 1 => s = pos)
            /\ \A q \in pos..(s - 1) :
                 b[q] = Name => \E j \in 1..(i - 1) : Name \in ToSet(L[j])

(* A part of a text has the line ends that are wholly in it.               *)
LEMMA EolOfPart ==
    ASSUME NEW b \in Seq(Char), NEW m \in 1..(Len(b) + 1), NEW n \in (m - 1)..Len(b),
           NEW j \in Nat
    PROVE  EolAt(SubSeq(b, m, n), j) <=> j >= 1 /\ m + j <= n /\ EolAt(b, m + j - 1)
<1> DEFINE s == SubSeq(b, m, n)
<1>1. Len(b) \in Nat /\ m \in Nat \ {0} /\ n \in Nat /\ m <= n + 1 /\ n <= Len(b)
    BY LenProperties
<1>2. Len(s) = n - m + 1 /\ \A i \in 1..(n - m + 1) : s[i] = b[m + i - 1]
    BY PartFacts
<1> HIDE DEF s
<1>3. j \in 1..(Len(s) - 1) <=> j >= 1 /\ m + j <= n
    BY <1>1, <1>2
<1>4. ASSUME j >= 1, m + j <= n PROVE EolAt(s, j) <=> EolAt(b, m + j - 1)
    <2>1. j \in 1..(n - m + 1) /\ j + 1 \in 1..(n - m + 1) /\ m + (j + 1) - 1 = (m + j - 1) + 1
        BY <1>1, <1>4
    <2>2. s[j] = b[m + j - 1] /\ s[j + 1] = b[(m + j - 1) + 1]
        BY <1>2, <2>1
    <2>3. m + j - 1 \in 1..(Len(b) - 1) /\ j \in 1..(Len(s) - 1)
        BY <1>1, <1>3, <1>4
    <2>4. QED BY <2>2, <2>3 DEF EolAt
<1>5. EolAt(s, j) => j \in 1..(Len(s) - 1)
    BY DEF EolAt
<1>6. QED BY <1>3, <1>4, <1>5 DEF s

(* A part without a line end is one line.                                  *)
LEMMA OneLine ==
    ASSUME NEW b \in Seq(Char), Len(b) < npos, NEW m \in 1..(Len(b) + 1),
           NEW n \in (m - 1)..Len(b), \A i \in m..(n - 1) : ~EolAt(b, i)
    PROVE  SubSeq(b, m, n) \in Seq(Char) /\ Find(SubSeq(b, m, n), EOL, 1) = npos
<1> DEFINE s == SubSeq(b, m, n)
<1>1. Len(b) \in Nat /\ m \in Nat \ {0} /\ n \in Nat /\ m <= n + 1 /\ n <= Len(b) /\ npos \in Nat
    BY LenProperties DEF npos
<1>2. s \in Seq(Char) /\ Len(s) = n - m + 1
    BY PartFacts
<1>3. Len(s) < npos
    BY <1>1, <1>2
<1>4. \A j \in Nat : ~EolAt(s, j)
    <2>1. SUFFICES ASSUME NEW j \in Nat, EolAt(s, j) PROVE FALSE
        OBVIOUS
    <2>2. j >= 1 /\ m + j <= n /\ EolAt(b, m + j - 1)
        BY <2>1, EolOfPart
    <2>3. m + j - 1 \in m..(n - 1)
        BY <1>1, <2>2
    <2>4. QED BY <2>2, <2>3
<1> HIDE DEF s
<1>5. Find(s, EOL, 1) = npos
    <2>1. 1 \in Nat \ {0}
        OBVIOUS
    <2>2. \/ Find(s, EOL, 1) = npos
          \/ Find(s, EOL, 1) \in 1..(Len(s) - 1) /\ FirstEol(s, 1, Find(s, EOL, 1))
        BY <1>2, <1>3, <2>1, FindEol
    <2>3. Find(s, EOL, 1) \in 1..(Len(s) - 1) => Find(s, EOL, 1) \in Nat
        BY <1>1, <1>2
    <2>4. QED BY <1>4, <2>2, <2>3 DEF FirstEol
<1>6. QED BY <1>2, <1>5 DEF s

(* A line and its end.                                                     *)
LEMMA WithEol ==
    ASSUME NEW b \in Seq(Char), NEW m \in Nat \ {0}, NEW k \in Nat, k >= m, EolAt(b, k)
    PROVE  SubSeq(b, m, k - 1) \o EOL = SubSeq(b, m, k + 1)
<1>1. Len(b) \in Nat /\ k \in 1..(Len(b) - 1) /\ m <= k
    BY LenProperties DEF EolAt
<1>2. SubSeq(b, k, k + 1) = EOL
    <2>1. IsAt(b, EOL, k)
        BY <1>1, EolIsTwo
    <2>2. k + Len(EOL) - 1 = k + 1
        BY <1>1, EolIsText
    <2>3. QED BY <2>1, <2>2 DEF IsAt
<1>3. /\ m \in 1..(Len(b) + 1) /\ k - 1 \in (m - 1)..Len(b) /\ k + 1 \in (k - 1)..Len(b)
      /\ (k - 1) + 1 = k
    BY <1>1
<1>4. SubSeq(b, m, k - 1) \o SubSeq(b, (k - 1) + 1, k + 1) = SubSeq(b, m, k + 1)
    BY <1>3, ConcatAdjacentSubSeq
<1>5. QED BY <1>2, <1>3, <1>4

(* Only the empty text has no characters.                                  *)
LEMMA EmptyIff == \A s \in Seq(Char) : Len(s) \in Nat /\ (s = <<>> <=> Len(s) = 0)
BY EmptySeq, LenProperties

\* All of it.
IsSplit(b, pos, L) ==
    /\ L \in Seq(Seq(Char)) /\ L # <<>>
    /\ OneByOne(L) /\ WholeFrom(b, pos, L) /\ BlankAtEnd(b, pos, L) /\ Several(b, pos, L)
    /\ Placed(b, pos, L)

(* A part that stops before a line end, or at the end, is a line in place. *)
LEMMA PartStands ==
    ASSUME NEW b \in Seq(Char), NEW pos \in 1..(Len(b) + 1), NEW e \in (pos - 1)..Len(b),
           e = Len(b) \/ EolAt(b, e + 1), \A q \in pos..(e - 1) : ~EolAt(b, q)
    PROVE  StandsAt(b, pos, SubSeq(b, pos, e))
<1>1. Len(b) \in Nat /\ pos \in Nat \ {0} /\ e \in Nat /\ pos - 1 <= e /\ e <= Len(b)
    BY LenProperties
<1> DEFINE x == SubSeq(b, pos, e)
<1>2. Len(x) = e - pos + 1
    BY PartFacts
<1> HIDE DEF x
<1>3. pos + Len(x) - 1 = e
    BY <1>1, <1>2
<1>4. ~EolAt(b, e)
    BY <1>1 DEF EolAt
<1>5. \A q \in pos..e : ~EolAt(b, q)
    <2>1. \A q \in pos..e : q \in pos..(e - 1) \/ q = e
        BY <1>1
    <2>2. QED BY <1>4, <2>1
<1>6. QED BY <1>1, <1>3, <1>5 DEF StandsAt, x

(* A single line stands where it begins.                                   *)
LEMMA PlacedAlone ==
    ASSUME NEW b, NEW pos \in Nat, NEW x, NEW L, Len(L) = 1, L[1] = x, StandsAt(b, pos, x)
    PROVE  Placed(b, pos, L)
<1>1. pos..(pos - 1) = {} /\ 1..1 = {1} /\ pos >= pos
    OBVIOUS
<1>2. \A i \in 1..Len(L) : i = 1
    BY <1>1
<1>3. QED BY <1>1, <1>2 DEF Placed

(* A line before others, with the line end between.                        *)
LEMMA PlacedBefore ==
    ASSUME NEW b \in Seq(Char), NEW pos \in Nat, NEW k \in Nat, pos <= k, EolAt(b, k),
           NEW x, StandsAt(b, pos, x), Len(x) = k - pos,
           NEW M, NEW L, Len(M) \in Nat, Len(L) = Len(M) + 1, L[1] = x,
           \A i \in 1..Len(M) : L[i + 1] = M[i], Placed(b, k + 2, M),
           \A q \in pos..(k - 1) : b[q] = Name => Name \in ToSet(x)
    PROVE  Placed(b, pos, L)
<1>1. SUFFICES ASSUME NEW i \in 1..Len(L)
               PROVE  \E s \in Nat :
                        /\ s >= pos /\ StandsAt(b, s, L[i]) /\ (i = 1 => s = pos)
                        /\ \A q \in pos..(s - 1) :
                             b[q] = Name => \E j \in 1..(i - 1) : Name \in ToSet(L[j])
    BY DEF Placed
<1>2. CASE i = 1
    <2>1. pos..(pos - 1) = {} /\ pos >= pos
        OBVIOUS
    <2>2. QED BY <1>2, <2>1
<1>3. CASE i # 1
    <2>1. i \in Nat /\ i - 1 \in 1..Len(M) /\ (i - 1) + 1 = i /\ 1 \in 1..(i - 1)
        BY <1>1, <1>3
    <2>2. PICK s \in Nat :
            /\ s >= k + 2 /\ StandsAt(b, s, M[i - 1])
            /\ \A q \in (k + 2)..(s - 1) :
                 b[q] = Name => \E j \in 1..((i - 1) - 1) : Name \in ToSet(M[j])
        BY <2>1 DEF Placed
    <2>3. s >= pos /\ StandsAt(b, s, L[i])
        BY <2>1, <2>2
    <2>4. ASSUME NEW q \in pos..(s - 1), b[q] = Name
          PROVE  \E j \in 1..(i - 1) : Name \in ToSet(L[j])
        <3>1. q # k /\ q # k + 1
            BY <2>4, NameAssumption DEF EolAt
        <3>2. q \in pos..(k - 1) \/ q \in (k + 2)..(s - 1)
            BY <2>2, <2>4, <3>1
        <3>3. CASE q \in pos..(k - 1)
            BY <2>1, <2>4, <3>3
        <3>4. CASE q \in (k + 2)..(s - 1)
            <4>1. PICK j \in 1..((i - 1) - 1) : Name \in ToSet(M[j])
                BY <2>2, <2>4, <3>4
            <4>2. j \in 1..Len(M) /\ j + 1 \in 1..(i - 1)
                BY <2>1, <4>1
            <4>3. Name \in ToSet(L[j + 1])
                BY <4>1, <4>2
            <4>4. QED BY <4>2, <4>3
        <3>5. QED BY <3>2, <3>3, <3>4
    <2>5. QED BY <1>3, <2>3, <2>4
<1>4. QED BY <1>2, <1>3

(* One line alone.                                                         *)
LEMMA Alone ==
    ASSUME NEW x \in Seq(Char)
    PROVE  /\ <<x>> \in Seq(Seq(Char)) /\ <<x>> # <<>> /\ Len(<<x>>) = 1 /\ <<x>>[1] = x
           /\ <<x>> \o <<>> = <<x>>
<1> DEFINE T == Seq(Char)
<1>1. x \in T
    OBVIOUS
<1> HIDE DEF T
<1>2. <<x>> \in Seq(T) /\ Len(<<x>>) = 1 /\ <<x>>[1] = x /\ <<x>> # <<>>
    BY <1>1
<1>3. <<x>> \o <<>> = <<x>>
    <2> DEFINE L == <<x>>
    <2>1. L \in Seq(T)
        BY <1>2
    <2> HIDE DEF L
    <2>2. L \o <<>> = L
        BY <2>1, ConcatEmptySeq
    <2>3. QED BY <2>2 DEF L
<1>4. QED BY <1>2, <1>3 DEF T

(* The last turn, when the text does not end with a line end.              *)
LEMMA LastLine ==
    ASSUME NEW b \in Seq(Char), Len(b) < npos, NEW pos \in 1..Len(b), NoEol(b, pos)
    PROVE  IsSplit(b, pos, <<SubSeq(b, pos, Len(b))>>)
<1> DEFINE n == Len(b)
           x == SubSeq(b, pos, n)
           L == <<x>>
<1>1. n \in Nat /\ pos \in Nat \ {0} /\ pos <= n
    BY LenProperties
<1>2. \A i \in pos..(n - 1) : ~EolAt(b, i)
    <2>1. \A i \in pos..(n - 1) : i \in Nat /\ i >= pos
        BY <1>1
    <2>2. QED BY <2>1 DEF NoEol
<1>3. x \in Seq(Char) /\ Len(x) = n - pos + 1 /\ Find(x, EOL, 1) = npos
    <2>1. pos \in 1..(n + 1) /\ n \in (pos - 1)..n
        BY <1>1
    <2>2. QED BY <1>2, <2>1, OneLine, PartFacts
<1>4. ~Ends(b, pos)
    BY <1>1, <1>2 DEF Ends
<1>5. x # <<>>
    <2>1. Len(x) # 0
        BY <1>1, <1>3
    <2>2. QED BY <1>3, <2>1, EmptyIff
<1> HIDE DEF x
<1>6. L \in Seq(Seq(Char)) /\ L # <<>> /\ Len(L) = 1 /\ L[1] = x /\ Joined(L) = x \o EOL
    BY <1>3, Alone, JoinedOne
<1> HIDE DEF L
<1>7. OneByOne(L)
    BY <1>3, <1>6 DEF OneByOne
<1>8. WholeFrom(b, pos, L)
    BY <1>4, <1>6 DEF WholeFrom, x
<1>9. BlankAtEnd(b, pos, L)
    BY <1>4, <1>5, <1>6 DEF BlankAtEnd
<1>10. Several(b, pos, L)
    <2>1. \A k \in pos..(n - 2) : k \in pos..(n - 1)
        BY <1>1
    <2>2. QED BY <1>2, <1>6, <2>1 DEF Several
<1>11. Placed(b, pos, L)
    <2>1. pos \in 1..(n + 1) /\ n \in (pos - 1)..n
        BY <1>1
    <2>2. StandsAt(b, pos, x)
        BY <1>2, <2>1, PartStands DEF x
    <2>3. QED BY <1>1, <1>6, <2>2, PlacedAlone
<1>12. QED BY <1>6, <1>7, <1>8, <1>9, <1>10, <1>11 DEF IsSplit, L, x

(* The last turn, when it does.                                            *)
LEMMA LastEnded ==
    ASSUME NEW b \in Seq(Char), Len(b) < npos, NEW pos \in 1..Len(b),
           FirstEol(b, pos, Len(b) - 1)
    PROVE  IsSplit(b, pos, <<SubSeq(b, pos, Len(b) - 2)>>)
<1> DEFINE n == Len(b)
           x == SubSeq(b, pos, n - 2)
           L == <<x>>
<1>1. /\ n \in Nat /\ pos \in Nat \ {0} /\ pos <= n - 1 /\ EolAt(b, n - 1)
      /\ \A i \in pos..(n - 2) : ~EolAt(b, i)
    <2>1. n \in Nat /\ pos \in Nat \ {0} /\ pos <= n - 1 /\ EolAt(b, n - 1) /\ (n - 1) - 1 = n - 2
        BY LenProperties DEF FirstEol
    <2>2. QED BY <2>1 DEF FirstEol
<1>2. x \in Seq(Char) /\ Len(x) = n - pos - 1 /\ Find(x, EOL, 1) = npos
    <2>1. /\ pos \in 1..(n + 1) /\ n - 2 \in (pos - 1)..n /\ (n - 2) - pos + 1 = n - pos - 1
          /\ \A i \in pos..((n - 2) - 1) : i \in pos..(n - 2)
        BY <1>1
    <2>2. x \in Seq(Char) /\ Find(x, EOL, 1) = npos
        BY <1>1, <2>1, OneLine
    <2>3. Len(x) = (n - 2) - pos + 1
        BY <2>1, PartFacts, ZenonT(60)
    <2>4. QED BY <2>1, <2>2, <2>3
<1>3. Ends(b, pos)
    BY <1>1 DEF Ends
<1>4. x = <<>> <=> n - 1 = pos
    <2>1. x = <<>> <=> Len(x) = 0
        BY <1>2, EmptyIff
    <2>2. Len(x) = 0 <=> n - 1 = pos
        BY <1>1, <1>2
    <2>3. QED BY <2>1, <2>2
<1>5. x \o EOL = SubSeq(b, pos, n)
    <2>1. /\ n - 1 \in Nat /\ n - 1 >= pos /\ (n - 1) - 1 = n - 2 /\ (n - 1) + 1 = n
        BY <1>1
    <2>2. SubSeq(b, pos, (n - 1) - 1) \o EOL = SubSeq(b, pos, (n - 1) + 1)
        BY <1>1, <2>1, WithEol
    <2>3. QED BY <2>1, <2>2
<1> HIDE DEF x
<1>6. L \in Seq(Seq(Char)) /\ L # <<>> /\ Len(L) = 1 /\ L[1] = x /\ Joined(L) = x \o EOL
    BY <1>2, Alone, JoinedOne
<1> HIDE DEF L
<1>7. OneByOne(L)
    BY <1>2, <1>6 DEF OneByOne
<1>8. WholeFrom(b, pos, L)
    BY <1>3, <1>5, <1>6 DEF WholeFrom
<1>9. BlankAtEnd(b, pos, L)
    <2>1. n - 3 >= pos => n - 3 \in pos..(n - 2)
        BY <1>1
    <2>2. QED BY <1>1, <1>3, <1>4, <1>6, <2>1 DEF BlankAtEnd
<1>10. Several(b, pos, L)
    BY <1>1, <1>6 DEF Several
<1>11. Placed(b, pos, L)
    <2>1. /\ pos \in 1..(n + 1) /\ n - 2 \in (pos - 1)..n /\ (n - 2) + 1 = n - 1
          /\ \A q \in pos..((n - 2) - 1) : q \in pos..(n - 2)
        BY <1>1
    <2>2. StandsAt(b, pos, x)
        BY <1>1, <2>1, PartStands DEF x
    <2>3. QED BY <1>1, <1>6, <2>2, PlacedAlone
<1>12. QED BY <1>6, <1>7, <1>8, <1>9, <1>10, <1>11 DEF IsSplit, L, x

(* Line ends are joined to texts in either order.                          *)
LEMMA EolLast ==
    ASSUME NEW x \in Seq(Char), NEW y \in Seq(Char)
    PROVE  (x \o y) \o EOL = x \o (y \o EOL)
<1> DEFINE z == EOL
<1>1. z \in Seq(Char)
    BY EolIsText
<1> HIDE DEF z
<1>2. (x \o y) \o z = x \o (y \o z)
    BY <1>1, ConcatAssociative
<1>3. QED BY <1>2 DEF z

(* A turn before others.                                                   *)
LEMMA LineBefore ==
    ASSUME NEW b \in Seq(Char), Len(b) < npos, NEW pos \in 1..Len(b), NEW k \in Nat,
           FirstEol(b, pos, k), k + 2 <= Len(b), NEW M, IsSplit(b, k + 2, M)
    PROVE  IsSplit(b, pos, <<SubSeq(b, pos, k - 1)>> \o M)
<1> DEFINE n == Len(b)
           x == SubSeq(b, pos, k - 1)
           L == <<x>> \o M
           T == Seq(Char)
<1>1. /\ n \in Nat /\ pos \in Nat \ {0} /\ pos <= k /\ EolAt(b, k) /\ k + 2 <= n
      /\ \A i \in pos..(k - 1) : ~EolAt(b, i)
    BY LenProperties DEF FirstEol
<1>2. ~EolAt(b, k + 1)
    BY <1>1 DEF EolAt
<1>3. x \in T /\ Len(x) = k - pos /\ Find(x, EOL, 1) = npos
    <2>1. /\ pos \in 1..(n + 1) /\ k - 1 \in (pos - 1)..n /\ (k - 1) - pos + 1 = k - pos
          /\ \A i \in pos..((k - 1) - 1) : i \in pos..(k - 1)
        BY <1>1
    <2>2. x \in T /\ Len(x) = k - pos
        BY <2>1, PartFacts
    <2>3. Find(x, EOL, 1) = npos
        BY <1>1, <2>1, OneLine
    <2>4. QED BY <2>2, <2>3
<1>4. x \o EOL = SubSeq(b, pos, k + 1)
    BY <1>1, WithEol
<1>5. T = Seq(Char) /\ M \in Seq(T) /\ M # <<>>
    BY DEF IsSplit
<1>6. OneByOne(M) /\ WholeFrom(b, k + 2, M) /\ BlankAtEnd(b, k + 2, M) /\ Several(b, k + 2, M)
    BY DEF IsSplit
<1>7. Ends(b, k + 2) <=> Ends(b, pos)
    <2>1. n - 1 = k + 1 \/ n - 1 >= k + 2
        BY <1>1
    <2>2. QED BY <1>1, <1>2, <2>1 DEF Ends
<1> HIDE DEF x, T
<1>8. Len(M) \in Nat \ {0}
    BY <1>5, EmptySeq
<1>9. /\ L \in Seq(T) /\ Len(L) = Len(M) + 1 /\ L[1] = x
      /\ \A i \in 1..Len(M) : L[i + 1] = M[i]
    BY <1>3, <1>5, ConsFacts
<1>10. Joined(M) \in T /\ Joined(L) = (x \o EOL) \o Joined(M)
    BY <1>3, <1>5, JoinedCons
<1> HIDE DEF L
<1>11. OneByOne(L)
    <2>1. SUFFICES ASSUME NEW i \in 1..Len(L) PROVE Find(L[i], EOL, 1) = npos
        BY DEF OneByOne
    <2>2. CASE i = 1
        BY <1>3, <1>9, <2>2
    <2>3. CASE i # 1
        <3>1. i - 1 \in 1..Len(M) /\ (i - 1) + 1 = i
            BY <1>8, <1>9, <2>3
        <3>2. L[i] = M[i - 1]
            BY <1>9, <3>1
        <3>3. QED BY <1>6, <3>1, <3>2 DEF OneByOne
    <2>4. QED BY <2>2, <2>3
<1>12. WholeFrom(b, pos, L)
    <2> DEFINE before == SubSeq(b, pos, k + 1)
               after == SubSeq(b, k + 2, n)
               all == SubSeq(b, pos, n)
    <2>1. /\ pos \in 1..(n + 1) /\ k + 1 \in (pos - 1)..n /\ n \in (k + 1)..n
          /\ (k + 1) + 1 = k + 2 /\ k + 2 \in 1..(n + 1) /\ n \in ((k + 2) - 1)..n
        BY <1>1
    <2>2. before \in Seq(Char) /\ after \in Seq(Char)
        BY <2>1, PartFacts
    <2>3. before \o after = all
        <3>1. SubSeq(b, pos, k + 1) \o SubSeq(b, (k + 1) + 1, n) = SubSeq(b, pos, n)
            BY <2>1, ConcatAdjacentSubSeq
        <3>2. QED BY <2>1, <3>1
    <2>4. Joined(M) = IF Ends(b, k + 2) THEN after ELSE after \o EOL
        BY <1>6 DEF WholeFrom
    <2>5. Joined(L) = before \o Joined(M)
        BY <1>4, <1>10
    <2> HIDE DEF before, after, all
    <2>6. (before \o after) \o EOL = before \o (after \o EOL)
        BY <2>2, EolLast
    <2>7. Joined(L) = IF Ends(b, pos) THEN all ELSE all \o EOL
        BY <1>7, <2>3, <2>4, <2>5, <2>6
    <2>8. QED BY <2>7 DEF WholeFrom, all
<1>13. BlankAtEnd(b, pos, L)
    <2>1. L[Len(L)] = M[Len(M)]
        BY <1>8, <1>9
    <2>2. M[Len(M)] = <<>> <=>
             Ends(b, k + 2) /\ (n - 1 = k + 2 \/ (n - 3 >= k + 2 /\ EolAt(b, n - 3)))
        BY <1>6 DEF BlankAtEnd
    <2>3. ASSUME Ends(b, pos)
          PROVE  (n - 1 = k + 2 \/ (n - 3 >= k + 2 /\ EolAt(b, n - 3)))
                   <=> (n - 1 = pos \/ (n - 3 >= pos /\ EolAt(b, n - 3)))
        <3>1. n - 1 >= k + 2
            BY <1>1, <1>7, <2>3 DEF Ends
        <3>2. ASSUME n - 1 = k + 2 PROVE n - 3 >= pos /\ EolAt(b, n - 3)
            <4>1. n - 3 = k
                BY <1>1, <3>2
            <4>2. QED BY <1>1, <4>1
        <3>3. ASSUME n - 3 >= pos, EolAt(b, n - 3)
              PROVE  n - 1 = k + 2 \/ n - 3 >= k + 2
            <4>1. ~(n - 3 \in pos..(k - 1)) /\ n - 3 # k + 1
                BY <1>1, <1>2, <3>3
            <4>2. QED BY <1>1, <3>1, <3>3, <4>1
        <3>4. n - 1 # pos /\ (n - 3 >= k + 2 => n - 3 >= pos)
            BY <1>1, <3>1
        <3>5. QED BY <3>2, <3>3, <3>4
    <2>4. QED BY <1>7, <2>1, <2>2, <2>3 DEF BlankAtEnd
<1>14. Several(b, pos, L)
    <2>1. Len(L) > 1 /\ k \in pos..(n - 2)
        BY <1>1, <1>8, <1>9
    <2>2. QED BY <1>1, <2>1 DEF Several
<1>15. L # <<>>
    BY <1>8, <1>9, EmptySeq
<1>16. L \in Seq(Seq(Char))
    BY <1>9 DEF T
<1>17. Placed(b, pos, L)
    <2>1. /\ pos \in 1..(n + 1) /\ k - 1 \in (pos - 1)..n /\ (k - 1) + 1 = k
          /\ \A q \in pos..((k - 1) - 1) : q \in pos..(k - 1)
        BY <1>1
    <2>2. StandsAt(b, pos, x)
        BY <1>1, <2>1, PartStands DEF x
    <2>3. \A q \in pos..(k - 1) : b[q] = Name => Name \in ToSet(x)
        <3>1. SUFFICES ASSUME NEW q \in pos..(k - 1), b[q] = Name PROVE Name \in ToSet(x)
            OBVIOUS
        <3>2. DOMAIN x = 1..(k - pos) /\ \A j \in 1..(k - pos) : x[j] = b[pos + j - 1]
            <4>1. (k - 1) - pos + 1 = k - pos
                BY <1>1
            <4>2. /\ DOMAIN x = 1..((k - 1) - pos + 1)
                  /\ \A j \in 1..((k - 1) - pos + 1) : x[j] = b[pos + j - 1]
                BY <2>1, PartFacts DEF x
            <4>3. QED BY <4>1, <4>2
        <3>3. q - pos + 1 \in 1..(k - pos) /\ pos + (q - pos + 1) - 1 = q
            BY <1>1
        <3>4. x[q - pos + 1] = Name
            BY <3>1, <3>2, <3>3
        <3>5. QED BY <3>2, <3>3, <3>4 DEF ToSet
    <2>4. Placed(b, k + 2, M)
        BY DEF IsSplit
    <2>5. QED BY <1>1, <1>3, <1>8, <1>9, <2>2, <2>3, <2>4, PlacedBefore
<1>18. QED BY <1>11, <1>12, <1>13, <1>14, <1>15, <1>16, <1>17 DEF IsSplit, L, x

(* Split, from the last turn to the first.                                 *)
LEMMA SplitFacts ==
    ASSUME NEW b \in Seq(Char), Len(b) < npos, b # <<>>
    PROVE  IsSplit(b, 1, Split(b))
<1> DEFINE n == Len(b)
<1>1. n \in Nat \ {0}
    BY EmptySeq
<1>2. PICK f : Split(b) = f[1] /\ \A pos \in 1..n : f[pos] = Turn(b, f, pos)
    BY SplitIs
<1> DEFINE G == {m \in Nat : \A pos \in 1..n : n - pos < m => IsSplit(b, pos, f[pos])}
<1>3. 0 \in G
    BY <1>1
<1>4. ASSUME NEW m \in Nat, m \in G PROVE m + 1 \in G
    <2>1. SUFFICES ASSUME NEW pos \in 1..n, n - pos < m + 1 PROVE IsSplit(b, pos, f[pos])
        OBVIOUS
    <2> DEFINE k == Find(b, EOL, pos)
    <2>2. /\ pos \in Nat \ {0}
          /\ f[pos] = IF k = npos THEN <<SubSeq(b, pos, n)>>
                      ELSE <<SubSeq(b, pos, k - 1)>> \o IF k + 2 <= n THEN f[k + 2] ELSE <<>>
        <3>1. f[pos] = Turn(b, f, pos) /\ pos \in Nat \ {0}
            BY <1>1, <1>2
        <3>2. QED BY <3>1, Zenon DEF Turn
    <2>3. \/ k = npos /\ NoEol(b, pos)
          \/ k # npos /\ k \in 1..(n - 1) /\ FirstEol(b, pos, k)
        BY <2>2, FindEol
    <2> HIDE DEF k
    <2>4. CASE k = npos /\ NoEol(b, pos)
        BY <2>2, <2>4, LastLine
    <2>5. CASE k # npos /\ k \in 1..(n - 1) /\ FirstEol(b, pos, k)
        <3>1. k \in Nat /\ k >= pos
            BY <1>1, <2>5 DEF FirstEol
        <3>2. CASE k + 2 <= n
            <4>1. k + 2 \in 1..n /\ n - (k + 2) < m
                BY <1>1, <2>1, <2>2, <3>1, <3>2
            <4>2. IsSplit(b, k + 2, f[k + 2])
                BY <1>4, <4>1
            <4>3. f[pos] = <<SubSeq(b, pos, k - 1)>> \o f[k + 2]
                BY <2>2, <2>5, <3>2
            <4>4. QED BY <2>5, <3>1, <3>2, <4>2, <4>3, LineBefore
        <3>3. CASE ~(k + 2 <= n)
            <4>1. k = n - 1 /\ k - 1 = n - 2
                BY <1>1, <2>5, <3>3
            <4>2. f[pos] = <<SubSeq(b, pos, k - 1)>> \o <<>>
                BY <2>2, <2>5, <3>3
            <4>3. SubSeq(b, pos, n - 2) \in Seq(Char)
                <5>1. pos \in 1..(n + 1) /\ n - 2 \in (pos - 1)..n
                    BY <1>1, <2>2, <3>1, <4>1
                <5>2. QED BY <5>1, PartFacts
            <4>4. f[pos] = <<SubSeq(b, pos, n - 2)>>
                BY <4>1, <4>2, <4>3, Alone
            <4>5. FirstEol(b, pos, Len(b) - 1)
                BY <2>5, <4>1
            <4>6. IsSplit(b, pos, <<SubSeq(b, pos, Len(b) - 2)>>)
                BY <4>5, LastEnded
            <4>7. QED BY <4>4, <4>6
        <3>4. QED BY <3>2, <3>3
    <2>6. QED BY <2>3, <2>4, <2>5
<1> HIDE DEF G
<1>5. n \in G
    <2>1. \A m \in Nat : m \in G
        BY <1>3, <1>4, Induction
    <2>2. QED BY <1>1, <2>1
<1>6. 1 \in 1..n /\ n - 1 < n
    BY <1>1
<1>7. IsSplit(b, 1, f[1])
    BY <1>5, <1>6 DEF G
<1>8. QED BY <1>2, <1>7

-----------------------------------------------------------------------------
(* The two halves of LinesOfText.                                          *)

(* A text ends with EOL when its last two characters are one.              *)
LEMMA SuffixIs ==
    ASSUME NEW b \in Seq(Char)
    PROVE  IsSuffix(EOL, b) <=> Ends(b, 1)
<1> DEFINE n == Len(b)
           e == Reverse(EOL)
           c == Reverse(b)
<1>1. n \in Nat /\ DOMAIN b = 1..n /\ \A i \in 1..n : b[i] \in Char
    BY LenProperties, ElementOfSeq
<1>2. Len(EOL) = 2 /\ EOL \in Seq(Char) /\ EOL[1] = "CR" /\ EOL[2] = "LF"
    BY EolIsText DEF EOL
<1>3. e \in Seq(Char) /\ Len(e) = 2 /\ e[1] = "LF" /\ e[2] = "CR"
    <2>1. e \in Seq(Char) /\ Len(e) = 2 /\ \A i \in 1..2 : e[i] = EOL[2 - i + 1]
        BY <1>2, ReverseFacts
    <2> HIDE DEF e
    <2>2. e[1] = EOL[2] /\ e[2] = EOL[1]
        BY <2>1
    <2>3. QED BY <1>2, <2>1, <2>2
<1>4. c \in Seq(Char) /\ Len(c) = n /\ \A i \in 1..n : c[i] = b[n - i + 1]
    BY ReverseFacts
<1>5. IsSuffix(EOL, b) <=> Len(e) <= Len(c) /\ SubSeq(e, 1, Len(e)) = SubSeq(c, 1, Len(e))
    BY DEF IsSuffix, IsPrefix
<1> HIDE DEF e, c
<1>6. SubSeq(e, 1, 2) = e
    BY <1>3, SubSeqFull
<1>7. IsSuffix(EOL, b) <=> 2 <= n /\ e = SubSeq(c, 1, 2)
    BY <1>3, <1>4, <1>5, <1>6
<1>8. ASSUME 2 <= n PROVE e = SubSeq(c, 1, 2) <=> b[n - 1] = "CR" /\ b[n] = "LF"
    <2> DEFINE s == SubSeq(c, 1, 2)
    <2>1. 1 \in 1..(n + 1) /\ 2 \in (1 - 1)..n
        BY <1>1, <1>8
    <2>2. s \in Seq(Char) /\ Len(s) = 2 /\ s[1] = c[1] /\ s[2] = c[2]
        <3>1. /\ s \in Seq(Char) /\ Len(s) = 2 - 1 + 1
              /\ \A i \in 1..(2 - 1 + 1) : s[i] = c[1 + i - 1]
            BY <1>4, <2>1, PartFacts
        <3>2. QED BY <3>1
    <2>3. c[1] = b[n] /\ c[2] = b[n - 1]
        <3>1. 1 \in 1..n /\ 2 \in 1..n /\ n - 1 + 1 = n /\ n - 2 + 1 = n - 1
            BY <1>1, <1>8
        <3>2. QED BY <1>4, <3>1
    <2> HIDE DEF s
    <2>4. e = s <=> e[1] = s[1] /\ e[2] = s[2]
        <3>1. ASSUME e[1] = s[1], e[2] = s[2] PROVE e = s
            <4>1. \A i \in 1..Len(e) : e[i] = s[i]
                BY <1>3, <3>1
            <4>2. QED BY <1>3, <2>2, <4>1, SeqEqual
        <3>2. QED BY <3>1
    <2>5. QED BY <1>3, <2>2, <2>3, <2>4 DEF s
<1>9. Ends(b, 1) <=> 2 <= n /\ b[n - 1] = "CR" /\ b[n] = "LF"
    <2>1. (n - 1) + 1 = n /\ (n - 1 >= 1 <=> 2 <= n) /\ (2 <= n => n - 1 \in 1..(n - 1))
        BY <1>1
    <2>2. QED BY <2>1 DEF Ends, EolAt
<1>10. QED BY <1>7, <1>8, <1>9

(* Split loses nothing.                                                    *)
LEMMA Lossless == TextInv => SplitLossless
<1>1. SUFFICES ASSUME TextInv PROVE SplitLossless
    OBVIOUS
<1> DEFINE b == text
           L == Split(b)
<1>2. b \in Seq(Char) /\ Len(b) < npos
    BY <1>1, BelowNpos
<1> HIDE DEF b
<1>3. CASE b = <<>>
    <2>1. L = <<>>
        BY <1>3 DEF Split
    <2> HIDE DEF L
    <2>2. DOMAIN <<>> = {} /\ DOMAIN L = {}
        BY <2>1
    <2>3. Joined(<<>>) = <<>>
        BY JoinedNone
    <2>4. QED BY <1>3, <2>1, <2>2, <2>3 DEF SplitLossless, b, L
<1>4. CASE b # <<>>
    <2>1. IsSplit(b, 1, L)
        BY <1>2, <1>4, SplitFacts
    <2> HIDE DEF L
    <2>2. DOMAIN L = 1..Len(L)
        BY <2>1, LenProperties DEF IsSplit
    <2>3. \A i \in DOMAIN L : Find(L[i], EOL, 1) = npos
        BY <2>1, <2>2 DEF IsSplit, OneByOne
    <2>4. SubSeq(b, 1, Len(b)) = b
        BY <1>2, SubSeqFull
    <2>5. Joined(L) = IF IsSuffix(EOL, b) THEN b ELSE b \o EOL
        BY <1>2, <2>1, <2>4, SuffixIs DEF IsSplit, WholeFrom
    <2>6. QED BY <1>4, <2>3, <2>5 DEF SplitLossless, b, L
<1>5. QED BY <1>3, <1>4

(* IsBlankLine looks at four characters.                                   *)
LEMMA BlankIs ==
    ASSUME NEW b \in Seq(Char), NEW offset \in 0..Len(b)
    PROVE  IsBlankLine(offset, b) <=>
             offset >= 4 /\ EolAt(b, offset - 3) /\ EolAt(b, offset - 1)
<1> DEFINE e == EOL \o EOL
<1>1. Len(b) \in Nat /\ offset \in Nat /\ offset <= Len(b)
    BY LenProperties
<1>2. Len(EOL) = 2 /\ EOL \in Seq(Char) /\ EOL[1] = "CR" /\ EOL[2] = "LF"
    BY EolIsText DEF EOL
<1>3. e \in Seq(Char) /\ Len(e) = 4 /\ e[1] = "CR" /\ e[2] = "LF" /\ e[3] = "CR" /\ e[4] = "LF"
    <2>1. /\ e \in Seq(Char) /\ Len(e) = Len(EOL) + Len(EOL)
          /\ \A i \in 1..(Len(EOL) + Len(EOL)) :
               e[i] = IF i <= Len(EOL) THEN EOL[i] ELSE EOL[i - Len(EOL)]
        <3>1. EOL \in Seq(Char)
            BY <1>2
        <3>2. QED BY <3>1, ConcatProperties
    <2> HIDE DEF e
    <2>2. Len(e) = 4 /\ e[1] = EOL[1] /\ e[2] = EOL[2] /\ e[3] = EOL[1] /\ e[4] = EOL[2]
        BY <1>2, <2>1
    <2>3. QED BY <1>2, <2>1, <2>2
<1>4. IsBlankLine(offset, b) <=> offset >= Len(e) /\ SubSeq(b, offset - Len(e) + 1, offset) = e
    BY DEF IsBlankLine
<1> HIDE DEF e
<1>5. ASSUME offset >= 4
      PROVE  SubSeq(b, offset - 3, offset) = e <=> EolAt(b, offset - 3) /\ EolAt(b, offset - 1)
    <2> DEFINE s == SubSeq(b, offset - 3, offset)
    <2>1. offset - 3 \in 1..(Len(b) + 1) /\ offset \in ((offset - 3) - 1)..Len(b)
        BY <1>1, <1>5
    <2>2. s \in Seq(Char) /\ Len(s) = 4
          /\ s[1] = b[offset - 3] /\ s[2] = b[offset - 2] /\ s[3] = b[offset - 1] /\ s[4] = b[offset]
        <3>1. /\ s \in Seq(Char) /\ Len(s) = offset - (offset - 3) + 1
              /\ \A i \in 1..(offset - (offset - 3) + 1) : s[i] = b[(offset - 3) + i - 1]
            BY <2>1, PartFacts
        <3> HIDE DEF s
        <3>2. offset - (offset - 3) + 1 = 4
            BY <1>1
        <3>3. Len(s) = 4 /\ \A i \in 1..4 : s[i] = b[(offset - 3) + i - 1]
            BY <3>1, <3>2, Zenon
        <3>4. /\ s[1] = b[(offset - 3) + 1 - 1] /\ s[2] = b[(offset - 3) + 2 - 1]
              /\ s[3] = b[(offset - 3) + 3 - 1] /\ s[4] = b[(offset - 3) + 4 - 1]
            BY <3>3
        <3>5. /\ (offset - 3) + 1 - 1 = offset - 3 /\ (offset - 3) + 2 - 1 = offset - 2
              /\ (offset - 3) + 3 - 1 = offset - 1 /\ (offset - 3) + 4 - 1 = offset
            BY <1>1
        <3>6. QED BY <3>1, <3>3, <3>4, <3>5
    <2> HIDE DEF s
    <2>3. s = e <=> s[1] = e[1] /\ s[2] = e[2] /\ s[3] = e[3] /\ s[4] = e[4]
        <3>1. ASSUME s[1] = e[1], s[2] = e[2], s[3] = e[3], s[4] = e[4] PROVE s = e
            <4>1. \A i \in 1..Len(s) : s[i] = e[i]
                BY <2>2, <3>1
            <4>2. QED BY <1>3, <2>2, <4>1, SeqEqual
        <3>2. QED BY <3>1
    <2>4. /\ offset - 3 \in 1..(Len(b) - 1) /\ (offset - 3) + 1 = offset - 2
          /\ offset - 1 \in 1..(Len(b) - 1) /\ (offset - 1) + 1 = offset
        BY <1>1, <1>5
    <2>5. QED BY <1>3, <2>2, <2>3, <2>4 DEF EolAt, s
<1>6. offset >= 4 => offset - 4 + 1 = offset - 3
    BY <1>1
<1>7. QED BY <1>3, <1>4, <1>5, <1>6

(* A blank line at an offset is an empty last line before it.              *)
LEMMA HeadEnds == TextInv => BlankLineEndsHead
<1>1. SUFFICES ASSUME TextInv, NEW offset \in 0..Len(text)
               PROVE  LET lines == Split(SubSeq(text, 1, offset))
                      IN  IsBlankLine(offset, text) <=> Len(lines) > 1 /\ Last(lines) = <<>>
    BY DEF BlankLineEndsHead
<1> DEFINE t == text
           b == SubSeq(t, 1, offset)
           L == Split(b)
<1>2. t \in Seq(Char) /\ Len(t) < npos /\ Len(t) \in Nat /\ offset \in Nat /\ offset <= Len(t)
    BY <1>1, BelowNpos, LenProperties
<1>3. offset \in 0..Len(t)
    BY <1>1
<1> HIDE DEF t
<1>4. 1 \in 1..(Len(t) + 1) /\ offset \in (1 - 1)..Len(t) /\ offset - 1 + 1 = offset
    BY <1>2
<1>5. b \in Seq(Char) /\ Len(b) = offset
    <2>1. b \in Seq(Char) /\ Len(b) = offset - 1 + 1
        BY <1>2, <1>4, PartFacts
    <2>2. QED BY <1>4, <2>1
<1>6. \A j \in Nat : j >= 1 /\ j < offset => (EolAt(b, j) <=> EolAt(t, j))
    <2>1. SUFFICES ASSUME NEW j \in Nat, j >= 1, j < offset PROVE EolAt(b, j) <=> EolAt(t, j)
        OBVIOUS
    <2>2. EolAt(b, j) <=> j >= 1 /\ 1 + j <= offset /\ EolAt(t, 1 + j - 1)
        BY <1>2, <1>4, EolOfPart
    <2>3. 1 + j <= offset /\ 1 + j - 1 = j
        BY <1>2, <2>1
    <2>4. QED BY <2>1, <2>2, <2>3
<1> HIDE DEF b
<1>7. IsBlankLine(offset, t) <=> offset >= 4 /\ EolAt(b, offset - 3) /\ EolAt(b, offset - 1)
    <2>1. offset >= 4 => /\ offset - 3 \in Nat /\ offset - 3 >= 1 /\ offset - 3 < offset
                         /\ offset - 1 \in Nat /\ offset - 1 >= 1 /\ offset - 1 < offset
        BY <1>2
    <2>2. offset >= 4 => /\ EolAt(b, offset - 3) <=> EolAt(t, offset - 3)
                         /\ EolAt(b, offset - 1) <=> EolAt(t, offset - 1)
        BY <1>6, <2>1
    <2>3. QED BY <1>2, <1>3, <2>2, BlankIs
<1>8. CASE b = <<>>
    <2>1. L = <<>> /\ offset = 0
        BY <1>5, <1>8, EmptyIff DEF Split
    <2> HIDE DEF L
    <2>2. Len(L) = 0
        BY <2>1
    <2>3. QED BY <1>7, <2>1, <2>2 DEF L, t, b
<1>9. CASE b # <<>>
    <2>1. IsSplit(b, 1, L)
        BY <1>2, <1>5, <1>9, SplitFacts DEF npos
    <2> HIDE DEF L
    <2>2. Len(L) > 1 <=> \E k \in 1..(offset - 2) : EolAt(b, k)
        BY <1>5, <2>1 DEF IsSplit, Several
    <2>3. L[Len(L)] = <<>> <=>
            /\ offset - 1 >= 1 /\ EolAt(b, offset - 1)
            /\ offset - 1 = 1 \/ (offset - 3 >= 1 /\ EolAt(b, offset - 3))
        BY <1>5, <2>1 DEF IsSplit, BlankAtEnd, Ends
    <2>4. /\ offset - 1 = 1 => 1..(offset - 2) = {}
          /\ offset - 3 >= 1 <=> offset >= 4
          /\ offset - 3 >= 1 => offset - 3 \in 1..(offset - 2) /\ offset - 1 >= 1
        BY <1>2
    <2>5. Len(L) > 1 /\ L[Len(L)] = <<>> <=>
            offset >= 4 /\ EolAt(b, offset - 3) /\ EolAt(b, offset - 1)
        BY <2>2, <2>3, <2>4
    <2>6. Last(L) = L[Len(L)]
        BY DEF Last
    <2>7. QED BY <1>7, <2>5, <2>6 DEF L, t, b
<1>10. QED BY <1>8, <1>9

(* Split loses nothing and cuts at every line end, and what IsBlankLine    *)
(* stops at is the end of a head, for texts of any length over any         *)
(* alphabet.                                                               *)
THEOREM LinesAreText == TextSpec => []LinesOfText
<1>1. TextInv => LinesOfText
    BY Lossless, HeadEnds DEF LinesOfText
<1>2. QED BY <1>1, TextsAreTexts, PTL

-----------------------------------------------------------------------------
(* The other searches.                                                     *)

(* The first place of those a search finds, or npos.                       *)
LEMMA FirstIs ==
    ASSUME NEW T \in SUBSET Nat, \A t \in T : t < npos
    PROVE  /\ T = {} => FirstOf(T) = npos
           /\ T # {} => /\ FirstOf(T) \in T /\ FirstOf(T) # npos
                        /\ \A t \in T : FirstOf(T) <= t
<1>1. T # {} => Min(T) \in T /\ \A t \in T : Min(T) <= t
    BY Least
<1>2. T # {} => Min(T) # npos
    BY <1>1 DEF npos
<1>3. FirstOf(T) = IF T = {} THEN npos ELSE Min(T)
    BY DEF FirstOf
<1>4. QED BY <1>1, <1>2, <1>3

\* r is the first place from from on where b has one of C, or npos.
FirstIn(b, C, from, r) ==
    IF r = npos THEN \A i \in from..Len(b) : b[i] \notin C
    ELSE r \in from..Len(b) /\ b[r] \in C /\ \A i \in from..(r - 1) : b[i] \notin C

(* The first place from a position on with one of the characters.          *)
LEMMA FirstInIs ==
    ASSUME NEW b \in Seq(Char), Len(b) < npos, NEW from \in Nat, NEW C
    PROVE  FirstIn(b, C, from, FirstOf({i \in from..Len(b) : b[i] \in C}))
<1> DEFINE T == {i \in from..Len(b) : b[i] \in C}
           r == FirstOf(T)
<1>1. Len(b) \in Nat /\ npos \in Nat
    BY LenProperties DEF npos
<1>2. T \in SUBSET Nat /\ \A t \in T : t < npos
    BY <1>1
<1>3. \A i \in from..Len(b) : b[i] \in C => i \in T
    OBVIOUS
<1>4. \A t \in T : t \in from..Len(b) /\ b[t] \in C
    OBVIOUS
<1> HIDE DEF T
<1>5. /\ T = {} => r = npos
      /\ T # {} => r \in T /\ r # npos /\ \A t \in T : r <= t
    BY <1>2, FirstIs
<1> HIDE DEF r
<1>6. CASE T = {}
    BY <1>3, <1>5, <1>6 DEF FirstIn, r, T
<1>7. CASE T # {}
    <2>1. r \in from..Len(b) /\ b[r] \in C /\ r # npos
        BY <1>4, <1>5, <1>7
    <2>2. ASSUME NEW i \in from..(r - 1), b[i] \in C PROVE FALSE
        <3>1. i \in from..Len(b) /\ ~(r <= i)
            BY <1>1, <2>1
        <3>2. i \in T
            BY <1>3, <2>2, <3>1
        <3>3. QED BY <1>5, <1>7, <3>1, <3>2
    <2>3. QED BY <2>1, <2>2 DEF FirstIn, r, T
<1>8. QED BY <1>6, <1>7

\* There is only one.
LEMMA FirstInOne ==
    ASSUME NEW b \in Seq(Char), Len(b) < npos, NEW from \in Nat, NEW C, NEW r \in Nat, NEW q \in Nat,
           FirstIn(b, C, from, r), FirstIn(b, C, from, q)
    PROVE  r = q
<1>1. Len(b) \in Nat
    BY LenProperties
<1>2. r # npos /\ q # npos => r = q
    <2>1. SUFFICES ASSUME r # npos, q # npos PROVE r = q
        OBVIOUS
    <2>2. r \in from..Len(b) /\ b[r] \in C /\ \A i \in from..(r - 1) : b[i] \notin C
        BY <2>1 DEF FirstIn
    <2>3. q \in from..Len(b) /\ b[q] \in C /\ \A i \in from..(q - 1) : b[i] \notin C
        BY <2>1 DEF FirstIn
    <2>4. ~(q \in from..(r - 1)) /\ ~(r \in from..(q - 1))
        BY <2>2, <2>3
    <2>5. QED BY <2>2, <2>3, <2>4
<1>3. r = npos <=> q = npos
    BY DEF FirstIn
<1>4. QED BY <1>2, <1>3

(* The comparison with one character.                                      *)
LEMMA FindOne ==
    ASSUME NEW b \in Seq(Char), Len(b) < npos, NEW from \in Nat \ {0}, NEW c
    PROVE  FirstIn(b, {c}, from, Find(b, <<c>>, from))
<1>1. Len(b) \in Nat /\ Len(<<c>>) = 1 /\ <<c>>[1] = c
    BY LenProperties
<1>2. \A i \in from..Len(b) : IsAt(b, <<c>>, i) <=> b[i] \in {c}
    <2>1. TAKE i \in from..Len(b)
    <2>2. i \in 1..(Len(b) + 1) /\ i \in (i - 1)..Len(b) /\ i - i + 1 = 1 /\ i + 1 - 1 = i
        BY <1>1
    <2> DEFINE s == SubSeq(b, i, i)
    <2>3. s \in Seq(Char) /\ Len(s) = 1 /\ s[1] = b[i]
        <3>1. /\ s \in Seq(Char) /\ Len(s) = i - i + 1
              /\ \A j \in 1..(i - i + 1) : s[j] = b[i + j - 1]
            BY <2>2, PartFacts
        <3>2. QED BY <2>2, <3>1
    <2>4. IsAt(b, <<c>>, i) <=> s = <<c>>
        BY <1>1, <2>2 DEF IsAt
    <2> HIDE DEF s
    <2>5. s = <<c>> <=> s[1] = c
        <3>1. ASSUME s[1] = c PROVE s = <<c>>
            <4>1. c \in Char
                <5>1. 1 \in 1..Len(s)
                    BY <2>3
                <5>2. s[1] \in Char
                    BY <2>3, <5>1, ElementOfSeq
                <5>3. QED BY <3>1, <5>2
            <4> DEFINE t == <<c>>
            <4>2. t \in Seq(Char) /\ Len(t) = 1 /\ t[1] = c
                BY <4>1
            <4> HIDE DEF t
            <4>3. \A j \in 1..Len(s) : s[j] = t[j]
                BY <2>3, <3>1, <4>2
            <4>4. s = t
                BY <2>3, <4>2, <4>3, SeqEqual
            <4>5. QED BY <4>4 DEF t
        <3>2. QED BY <1>1, <3>1
    <2>6. QED BY <2>3, <2>4, <2>5
<1>3. Len(b) - Len(<<c>>) + 1 = Len(b)
    BY <1>1
<1>4. {i \in from..(Len(b) - Len(<<c>>) + 1) : IsAt(b, <<c>>, i)} = {i \in from..Len(b) : b[i] \in {c}}
    BY <1>2, <1>3
<1>5. FirstIn(b, {c}, from, FirstOf({i \in from..Len(b) : b[i] \in {c}}))
    BY FirstInIs
<1>6. QED BY <1>4, <1>5 DEF Find

(* find_first_of.                                                          *)
LEMMA FindOf ==
    ASSUME NEW b \in Seq(Char), Len(b) < npos, NEW from \in Nat, NEW C
    PROVE  FirstIn(b, C, from, FindFirstOf(b, C, from))
BY FirstInIs DEF FindFirstOf

(* find_first_not_of.                                                      *)
LEMMA FindNotOf ==
    ASSUME NEW b \in Seq(Char), Len(b) < npos, NEW from \in Nat \ {0}, NEW c
    PROVE  FirstIn(b, Char \ {c}, from, FindFirstNotOf(b, c, from))
<1>1. Len(b) \in Nat /\ \A i \in 1..Len(b) : b[i] \in Char
    BY LenProperties, ElementOfSeq
<1>2. \A i \in from..Len(b) : b[i] \in Char
    BY <1>1
<1>3. {i \in from..Len(b) : b[i] # c} = {i \in from..Len(b) : b[i] \in Char \ {c}}
    BY <1>2
<1>4. FirstIn(b, Char \ {c}, from, FirstOf({i \in from..Len(b) : b[i] \in Char \ {c}}))
    BY FirstInIs
<1>5. QED BY <1>3, <1>4 DEF FindFirstNotOf

(* A position that is a line end, after none, is what find returns.        *)
LEMMA FindEolIs ==
    ASSUME NEW b \in Seq(Char), Len(b) < npos, NEW pos \in Nat \ {0}
    PROVE  /\ (\A i \in pos..Len(b) : ~EolAt(b, i)) => Find(b, EOL, pos) = npos
           /\ \A k \in pos..Len(b) :
                EolAt(b, k) /\ (\A i \in pos..(k - 1) : ~EolAt(b, i)) => Find(b, EOL, pos) = k
<1> DEFINE r == Find(b, EOL, pos)
<1>1. Len(b) \in Nat
    BY LenProperties
<1>2. \/ r = npos /\ NoEol(b, pos)
      \/ r # npos /\ r \in 1..(Len(b) - 1) /\ FirstEol(b, pos, r)
    BY FindEol
<1> HIDE DEF r
<1>3. r # npos => r \in pos..Len(b) /\ EolAt(b, r)
    BY <1>1, <1>2 DEF FirstEol
<1>4. (\A i \in pos..Len(b) : ~EolAt(b, i)) => r = npos
    BY <1>3
<1>5. ASSUME NEW k \in pos..Len(b), EolAt(b, k), \A i \in pos..(k - 1) : ~EolAt(b, i)
      PROVE  r = k
    <2>1. k \in Nat /\ k >= pos
        BY <1>1
    <2>2. r # npos /\ FirstEol(b, pos, r)
        BY <1>2, <1>5, <2>1 DEF NoEol
    <2>3. r \in pos..Len(b) /\ EolAt(b, r) /\ \A i \in pos..(r - 1) : ~EolAt(b, i)
        BY <1>3, <2>2 DEF FirstEol
    <2>4. ~(k \in pos..(r - 1)) /\ ~(r \in pos..(k - 1))
        BY <1>5, <2>3
    <2>5. QED BY <1>1, <2>1, <2>3, <2>4
<1>6. QED BY <1>4, <1>5 DEF r

-----------------------------------------------------------------------------
(* The request line.                                                       *)

(* The first line is what stands before the first line end, if there is    *)
(* one.                                                                    *)
LEMMA FirstLine ==
    ASSUME NEW b \in Seq(Char), Len(b) < npos, Find(b, EOL, 1) # npos
    PROVE  /\ b # <<>>
           /\ Split(b)[1] = SubSeq(b, 1, Find(b, EOL, 1) - 1)
           /\ Split(b)[1] \in Seq(Char) /\ Len(Split(b)[1]) < npos
<1> DEFINE i == Find(b, EOL, 1)
           L == Split(b)
           x == L[1]
<1>1. Len(b) \in Nat /\ 1 \in Nat \ {0} /\ npos \in Nat
    BY LenProperties DEF npos
<1>2. i \in 1..(Len(b) - 1) /\ FirstEol(b, 1, i)
    BY <1>1, FindEol
<1>3. b # <<>>
    BY <1>1, <1>2, EmptyIff
<1>4. IsSplit(b, 1, L)
    BY <1>3, SplitFacts
<1> HIDE DEF i, L
<1>5. 1 \in 1..Len(L) /\ x \in Seq(Char)
    <2>1. Len(L) \in Nat \ {0} /\ L \in Seq(Seq(Char))
        BY <1>4, EmptySeq DEF IsSplit
    <2>2. 1 \in 1..Len(L)
        BY <2>1
    <2>3. QED BY <2>1, <2>2, ElementOfSeq
<1>6. StandsAt(b, 1, x)
    <2>1. Placed(b, 1, L)
        BY <1>4 DEF IsSplit
    <2>2. QED BY <1>5, <2>1 DEF Placed
<1> HIDE DEF x
<1>7. /\ Len(x) \in Nat /\ 1 + Len(x) - 1 = Len(x) /\ Len(x) <= Len(b) /\ x = SubSeq(b, 1, Len(x))
      /\ Len(x) = Len(b) \/ EolAt(b, Len(x) + 1)
      /\ \A q \in 1..Len(x) : ~EolAt(b, q)
    <2>1. Len(x) \in Nat
        BY <1>5, LenProperties
    <2>2. 1 + Len(x) - 1 = Len(x)
        BY <2>1
    <2>3. QED BY <1>6, <2>1, <2>2 DEF StandsAt
<1>8. i = Len(x) + 1
    <2>1. i \in Nat /\ EolAt(b, i) /\ i >= 1 /\ i <= Len(b) - 1 /\ \A q \in 1..(i - 1) : ~EolAt(b, q)
        BY <1>1, <1>2 DEF FirstEol
    <2>2. ~(i \in 1..Len(x))
        BY <1>7, <2>1
    <2>3. Len(x) # Len(b) /\ EolAt(b, Len(x) + 1)
        BY <1>1, <1>7, <2>1, <2>2
    <2>4. ~(Len(x) + 1 \in 1..(i - 1))
        BY <2>1, <2>3
    <2>5. QED BY <1>7, <2>1, <2>2, <2>4
<1>9. x = SubSeq(b, 1, i - 1)
    <2>1. i - 1 = Len(x)
        BY <1>7, <1>8
    <2>2. QED BY <1>7, <2>1
<1>10. Len(x) < npos
    BY <1>1, <1>7
<1>11. QED BY <1>3, <1>5, <1>9, <1>10 DEF i, L, x

(* A part of one character.                                                *)
LEMMA OnePlace ==
    ASSUME NEW x \in Seq(Char), NEW i \in 1..Len(x)
    PROVE  SubSeq(x, i, i) = <<x[i]>>
<1> DEFINE s == SubSeq(x, i, i)
           t == <<x[i]>>
<1>1. i \in 1..(Len(x) + 1) /\ i \in (i - 1)..Len(x) /\ i - i + 1 = 1 /\ i + 1 - 1 = i
    BY LenProperties
<1>2. s \in Seq(Char) /\ Len(s) = 1 /\ s[1] = x[i]
    <2>1. s \in Seq(Char) /\ Len(s) = i - i + 1 /\ \A j \in 1..(i - i + 1) : s[j] = x[i + j - 1]
        BY <1>1, PartFacts
    <2>2. QED BY <1>1, <2>1
<1>3. t \in Seq(Char) /\ Len(t) = 1 /\ t[1] = x[i]
    <2>1. x[i] \in Char
        BY ElementOfSeq
    <2>2. QED BY <2>1
<1> HIDE DEF s, t
<1>4. \A j \in 1..Len(s) : s[j] = t[j]
    BY <1>2, <1>3
<1>5. s = t
    BY <1>2, <1>3, <1>4, SeqEqual
<1>6. QED BY <1>5 DEF s, t

(* A part between two places has only what stands between them.            *)
LEMMA NoneOfPart ==
    ASSUME NEW x \in Seq(Char), NEW m \in 1..(Len(x) + 1), NEW n \in (m - 1)..Len(x), NEW C,
           \A i \in m..n : x[i] \notin C
    PROVE  NoneOf(SubSeq(x, m, n), C)
<1>1. /\ DOMAIN SubSeq(x, m, n) = 1..(n - m + 1)
      /\ \A j \in 1..(n - m + 1) : SubSeq(x, m, n)[j] = x[m + j - 1]
    BY PartFacts
<1>2. \A j \in 1..(n - m + 1) : m + j - 1 \in m..n
    BY LenProperties
<1>3. QED BY <1>1, <1>2 DEF NoneOf

(* Two words, each with the separator after it.                            *)
LEMMA TwoWords ==
    ASSUME NEW x \in Seq(Char), NEW k \in 1..Len(x), NEW z \in (k + 1)..Len(x), x[k] = "SP"
    PROVE  LET line == SubSeq(x, 1, k - 1) \o <<"SP">> \o SubSeq(x, k + 1, z - 1) \o <<x[z]>>
           IN  IsPrefix(line, x)
<1> DEFINE p1 == SubSeq(x, 1, k - 1)
           p2 == SubSeq(x, k, k)
           p3 == SubSeq(x, k + 1, z - 1)
           p4 == SubSeq(x, z, z)
           all == SubSeq(x, 1, z)
<1>1. /\ Len(x) \in Nat /\ k \in Nat /\ z \in Nat /\ 1 <= k /\ k < z /\ z <= Len(x)
      /\ (k - 1) + 1 = k /\ (z - 1) + 1 = z
    BY LenProperties
<1>2. p1 \o p2 = SubSeq(x, 1, k)
    <2>1. 1 \in 1..(Len(x) + 1) /\ k - 1 \in (1 - 1)..Len(x) /\ k \in (k - 1)..Len(x)
        BY <1>1
    <2>2. SubSeq(x, 1, k - 1) \o SubSeq(x, (k - 1) + 1, k) = SubSeq(x, 1, k)
        BY <2>1, ConcatAdjacentSubSeq
    <2>3. QED BY <1>1, <2>2
<1>3. SubSeq(x, 1, k) \o p3 = SubSeq(x, 1, z - 1)
    <2>1. 1 \in 1..(Len(x) + 1) /\ k \in (1 - 1)..Len(x) /\ z - 1 \in k..Len(x)
        BY <1>1
    <2>2. QED BY <2>1, ConcatAdjacentSubSeq
<1>4. SubSeq(x, 1, z - 1) \o p4 = all
    <2>1. 1 \in 1..(Len(x) + 1) /\ z - 1 \in (1 - 1)..Len(x) /\ z \in (z - 1)..Len(x)
        BY <1>1
    <2>2. SubSeq(x, 1, z - 1) \o SubSeq(x, (z - 1) + 1, z) = SubSeq(x, 1, z)
        BY <2>1, ConcatAdjacentSubSeq
    <2>3. QED BY <1>1, <2>2
<1>5. p2 = <<"SP">> /\ p4 = <<x[z]>>
    <2>1. k \in 1..Len(x) /\ z \in 1..Len(x)
        BY <1>1
    <2>2. QED BY <2>1, OnePlace
<1>6. ((p1 \o p2) \o p3) \o p4 = all
    BY <1>2, <1>3, <1>4
<1>7. IsPrefix(all, x)
    <2>1. 1 \in 1..(Len(x) + 1) /\ z \in (1 - 1)..Len(x) /\ z - 1 + 1 = z
        BY <1>1
    <2>2. all \in Seq(Char) /\ Len(all) = z
        <3>1. all \in Seq(Char) /\ Len(all) = z - 1 + 1
            BY <2>1, PartFacts
        <3>2. QED BY <2>1, <3>1
    <2>3. SubSeq(all, 1, Len(all)) = all
        <3> HIDE DEF all
        <3>1. QED BY <2>2, SubSeqFull
    <2>4. SubSeq(x, 1, Len(all)) = all
        BY <2>2
    <2>5. Len(all) <= Len(x)
        BY <1>1, <2>2
    <2> HIDE DEF all
    <2>6. QED BY <2>3, <2>4, <2>5 DEF IsPrefix
<1> HIDE DEF p1, p2, p3, p4, all
<1>8. IsPrefix(p1 \o <<"SP">> \o p3 \o <<x[z]>>, x)
    BY <1>5, <1>6, <1>7
<1>9. QED BY <1>8 DEF p1, p3

(* Parse takes the first two words of the request line.                    *)
LEMMA RequestLine == TextInv => ParseReadsRequestLine
<1>1. SUFFICES ASSUME TextInv PROVE ParseReadsRequestLine
    OBVIOUS
<1> DEFINE b == text
           i == Find(b, EOL, 1)
           x == Split(b)[1]
           header == IF i = npos THEN <<>> ELSE SubSeq(b, 1, i - 1)
           k == Find(header, <<"SP">>, 1)
           z == FindFirstOf(header, {"SP", "?"}, k + 1)
           taken == {[command |-> SubSeq(header, 1, k - 1),
                      path |-> SubSeq(header, k + 1, z - 1),
                      connection |-> value] : value \in ExtractField(b, <<Name>>)}
           hasLine == /\ i # npos
                      /\ \E k1, z1 \in DOMAIN x : k1 < z1 /\ x[k1] = "SP" /\ x[z1] \in {"SP", "?"}
           Good(packet) == /\ NoneOf(packet.command, {"SP"}) /\ NoneOf(packet.path, {"SP", "?"})
                           /\ \E d \in {"SP", "?"} :
                                IsPrefix(packet.command \o <<"SP">> \o packet.path \o <<d>>, x)
<1>2. b \in Seq(Char) /\ Len(b) < npos
    BY <1>1, BelowNpos
<1>3. Parse(b) = IF npos \in {i, k, z} THEN Throws ELSE taken
    BY DEF Parse
<1>4. SUFFICES /\ Parse(b) = Throws <=> ~hasLine \/ ExtractField(b, <<Name>>) = Throws
               /\ \A packet \in Parse(b) : Good(packet)
    BY DEF ParseReadsRequestLine
<1> HIDE DEF b
<1>5. CASE i = npos
    <2>1. Parse(b) = {}
        BY <1>3, <1>5 DEF Throws
    <2> HIDE DEF Good
    <2>2. QED BY <1>5, <2>1 DEF Throws
<1>6. CASE i # npos
    <2>1. x \in Seq(Char) /\ Len(x) < npos /\ header = x
        BY <1>2, <1>6, FirstLine
    <2>2. Len(x) \in Nat /\ DOMAIN x = 1..Len(x) /\ npos \in Nat
        BY <2>1, LenProperties DEF npos
    <2> HIDE DEF i, x, header
    <2>3. FirstIn(x, {"SP"}, 1, k)
        <3>1. 1 \in Nat \ {0}
            OBVIOUS
        <3>2. QED BY <2>1, <3>1, FindOne
    <2> HIDE DEF k
    <2>4. k = npos \/ k \in 1..Len(x)
        BY <2>3 DEF FirstIn
    <2>5. FirstIn(x, {"SP", "?"}, k + 1, z)
        <3>1. k + 1 \in Nat
            BY <2>2, <2>4
        <3>2. QED BY <2>1, <3>1, FindOf
    <2> HIDE DEF z
    <2>6. hasLine <=> k # npos /\ z # npos
        <3>1. ASSUME k # npos, z # npos PROVE hasLine
            <4>1. k \in 1..Len(x) /\ x[k] = "SP"
                BY <2>3, <3>1 DEF FirstIn
            <4>2. z \in (k + 1)..Len(x) /\ x[z] \in {"SP", "?"}
                BY <2>5, <3>1 DEF FirstIn
            <4>3. k \in DOMAIN x /\ z \in DOMAIN x /\ k < z
                BY <2>2, <4>1, <4>2
            <4>4. QED BY <1>6, <4>1, <4>2, <4>3
        <3>2. ASSUME NEW k1 \in DOMAIN x, NEW z1 \in DOMAIN x, k1 < z1, x[k1] = "SP",
                     x[z1] \in {"SP", "?"}
              PROVE  k # npos /\ z # npos
            <4>1. k1 \in 1..Len(x) /\ z1 \in 1..Len(x) /\ k1 \in Nat /\ z1 \in Nat
                BY <2>2
            <4>2. k # npos
                BY <2>3, <3>2, <4>1 DEF FirstIn
            <4>3. k \in 1..Len(x) /\ \A j \in 1..(k - 1) : x[j] \notin {"SP"}
                BY <2>3, <4>2 DEF FirstIn
            <4>4. z1 \in (k + 1)..Len(x)
                <5>1. ~(k1 \in 1..(k - 1))
                    BY <3>2, <4>3
                <5>2. QED BY <2>2, <3>2, <4>1, <4>3, <5>1
            <4>5. z # npos
                BY <2>5, <3>2, <4>4 DEF FirstIn
            <4>6. QED BY <4>2, <4>5
        <3>3. QED BY <3>1, <3>2
    <2>7. Parse(b) = IF hasLine THEN taken ELSE Throws
        BY <1>3, <1>6, <2>6
    <2>8. taken = {} <=> ExtractField(b, <<Name>>) = {}
        OBVIOUS
    <2>9. Parse(b) = Throws <=> ~hasLine \/ ExtractField(b, <<Name>>) = Throws
        <3> HIDE DEF taken, hasLine
        <3>1. QED BY <2>7, <2>8 DEF Throws
    <2>10. ASSUME NEW packet \in Parse(b) PROVE Good(packet)
        <3>1. hasLine /\ packet \in taken
            <4> HIDE DEF taken, hasLine
            <4>1. QED BY <2>7 DEF Throws
        <3>2. k # npos /\ z # npos
            BY <2>6, <3>1
        <3>3. packet.command = SubSeq(x, 1, k - 1) /\ packet.path = SubSeq(x, k + 1, z - 1)
            BY <2>1, <3>1
        <3>4. k \in 1..Len(x) /\ x[k] = "SP" /\ \A j \in 1..(k - 1) : x[j] \notin {"SP"}
            BY <2>3, <3>2 DEF FirstIn
        <3>5. /\ z \in (k + 1)..Len(x) /\ x[z] \in {"SP", "?"}
              /\ \A j \in (k + 1)..(z - 1) : x[j] \notin {"SP", "?"}
            BY <2>5, <3>2 DEF FirstIn
        <3>6. NoneOf(SubSeq(x, 1, k - 1), {"SP"})
            <4>1. 1 \in 1..(Len(x) + 1) /\ k - 1 \in (1 - 1)..Len(x)
                BY <2>2, <3>4
            <4>2. QED BY <2>1, <3>4, <4>1, NoneOfPart
        <3>7. NoneOf(SubSeq(x, k + 1, z - 1), {"SP", "?"})
            <4>1. k + 1 \in 1..(Len(x) + 1) /\ z - 1 \in ((k + 1) - 1)..Len(x)
                BY <2>2, <3>4, <3>5
            <4>2. QED BY <2>1, <3>5, <4>1, NoneOfPart
        <3>8. IsPrefix(SubSeq(x, 1, k - 1) \o <<"SP">> \o SubSeq(x, k + 1, z - 1) \o <<x[z]>>, x)
            BY <2>1, <3>4, <3>5, TwoWords
        <3>9. QED BY <3>3, <3>5, <3>6, <3>7, <3>8
    <2>11. QED BY <2>9, <2>10
<1>7. QED BY <1>5, <1>6

-----------------------------------------------------------------------------
(* The field.                                                              *)

(* The searches of ExtractField, when the first place of the name is where *)
(* a line begins that is a field with a value: each finds its place in     *)
(* that line.                                                              *)
LEMMA FieldAt ==
    ASSUME NEW b \in Seq(Char), Len(b) < npos, NEW s \in Nat \ {0}, NEW x \in Seq(Char),
           StandsAt(b, s, x), \A q \in 1..(s - 1) : b[q] # Name,
           Len(x) > 2, x[1] = Name, x[2] = "SP", FindFirstNotOf(x, "SP", 2) # npos
    PROVE  ExtractField(b, <<Name>>) = {SubSeq(x, FindFirstNotOf(x, "SP", 2), Len(x))}
<1> DEFINE n == Len(b)
           m == Len(x)
           e == s + m - 1
           v == FindFirstNotOf(x, "SP", 2)
           bCommand == Find(b, <<Name>>, 1)
           bSpace == Find(b, <<"SP">>, bCommand)
           bValue == FindFirstNotOf(b, "SP", bSpace)
           eValue == Find(b, EOL, bValue)
<1>1. n \in Nat /\ m \in Nat /\ npos \in Nat /\ 1 \in Nat \ {0} /\ 2 \in Nat \ {0}
    BY LenProperties DEF npos
<1>2. /\ e <= n /\ x = SubSeq(b, s, e) /\ (e = n \/ EolAt(b, e + 1))
      /\ \A q \in s..e : ~EolAt(b, q)
    BY DEF StandsAt
<1>3. /\ s \in 1..(n + 1) /\ e \in (s - 1)..n /\ e - s + 1 = m /\ m < npos
      /\ s \in 1..n /\ s + 1 \in 1..n
    BY <1>1, <1>2
<1>4. \A j \in 1..m : x[j] = b[s + j - 1]
    <2>1. \A j \in 1..(e - s + 1) : SubSeq(b, s, e)[j] = b[s + j - 1]
        BY <1>3, PartFacts
    <2>2. QED BY <1>2, <1>3, <2>1
<1>5. b[s] = Name /\ b[s + 1] = "SP"
    <2>1. 1 \in 1..m /\ 2 \in 1..m /\ s + 1 - 1 = s /\ s + 2 - 1 = s + 1
        BY <1>1
    <2>2. QED BY <1>4, <2>1
<1>6. bCommand = s
    <2>1. FirstIn(b, {Name}, 1, bCommand)
        BY <1>1, FindOne
    <2>2. FirstIn(b, {Name}, 1, s)
        BY <1>1, <1>3, <1>5 DEF FirstIn
    <2> HIDE DEF bCommand
    <2>3. bCommand \in Nat
        BY <1>1, <2>1 DEF FirstIn
    <2>4. QED BY <1>1, <2>1, <2>2, <2>3, FirstInOne
<1> HIDE DEF bCommand
<1>7. bSpace = s + 1
    <2>1. FirstIn(b, {"SP"}, s, bSpace)
        BY <1>6, FindOne
    <2>2. FirstIn(b, {"SP"}, s, s + 1)
        <3>1. s + 1 \in s..n /\ s + 1 # npos /\ s..((s + 1) - 1) = {s}
            BY <1>1, <1>3
        <3>2. QED BY <1>5, <3>1, NameAssumption DEF FirstIn
    <2> HIDE DEF bSpace
    <2>3. bSpace \in Nat /\ s + 1 \in Nat
        BY <1>1, <2>1 DEF FirstIn
    <2>4. QED BY <1>1, <2>1, <2>2, <2>3, FirstInOne
<1> HIDE DEF bSpace
<1>8. /\ v \in 2..m /\ x[v] \in Char \ {"SP"} /\ \A j \in 2..(v - 1) : x[j] \notin Char \ {"SP"}
      /\ v # npos
    <2>1. FirstIn(x, Char \ {"SP"}, 2, v)
        BY <1>1, <1>3, FindNotOf
    <2>2. QED BY <2>1 DEF FirstIn
<1> HIDE DEF v
<1>9. bValue = s + v - 1 /\ bValue # npos
    <2>1. FirstIn(b, Char \ {"SP"}, s + 1, bValue)
        <3>1. s + 1 \in Nat \ {0}
            BY <1>1
        <3>2. FirstIn(b, Char \ {"SP"}, s + 1, FindFirstNotOf(b, "SP", s + 1))
            BY <3>1, FindNotOf
        <3>3. QED BY <1>7, <3>2
    <2>2. /\ s + v - 1 \in (s + 1)..n /\ s + v - 1 # npos /\ v \in 1..m
          /\ \A q \in (s + 1)..((s + v - 1) - 1) :
               q - s + 1 \in 2..(v - 1) /\ q - s + 1 \in 1..m /\ s + (q - s + 1) - 1 = q
        BY <1>1, <1>2, <1>8
    <2>3. FirstIn(b, Char \ {"SP"}, s + 1, s + v - 1)
        <3>1. b[s + v - 1] \in Char \ {"SP"}
            BY <1>4, <1>8, <2>2
        <3>2. \A q \in (s + 1)..((s + v - 1) - 1) : b[q] \notin Char \ {"SP"}
            <4>1. TAKE q \in (s + 1)..((s + v - 1) - 1)
            <4>2. x[q - s + 1] = b[q] /\ x[q - s + 1] \notin Char \ {"SP"}
                BY <1>4, <1>8, <2>2
            <4>3. QED BY <4>2
        <3>3. QED BY <2>2, <3>1, <3>2 DEF FirstIn
    <2> HIDE DEF bValue
    <2>4. bValue \in Nat /\ s + v - 1 \in Nat /\ s + 1 \in Nat
        BY <1>1, <2>1, <2>2 DEF FirstIn
    <2>5. bValue = s + v - 1
        BY <2>1, <2>3, <2>4, FirstInOne
    <2>6. QED BY <2>2, <2>5
<1> HIDE DEF bValue
<1>10. /\ bValue \in Nat \ {0} /\ bValue >= s /\ bValue <= e /\ e - s + 1 = m
       /\ bValue - s + 1 = v
    BY <1>1, <1>8, <1>9
<1>11. (IF eValue = npos THEN n ELSE eValue - 1) = e
    <2>1. CASE e = n
        <3>1. \A q \in bValue..n : ~EolAt(b, q)
            BY <1>1, <1>2, <1>10, <2>1
        <3>2. eValue = npos
            BY <1>10, <3>1, FindEolIs
        <3>3. QED BY <2>1, <3>2
    <2>2. CASE EolAt(b, e + 1)
        <3>1. e + 1 \in 1..(n - 1)
            BY <2>2 DEF EolAt
        <3>2. e + 1 \in bValue..n /\ \A q \in bValue..((e + 1) - 1) : q \in s..e
            BY <1>1, <1>10, <3>1
        <3>3. eValue = e + 1
            BY <1>2, <1>10, <2>2, <3>2, FindEolIs
        <3>4. eValue # npos /\ (e + 1) - 1 = e
            BY <1>1, <3>1, <3>3
        <3>5. QED BY <3>3, <3>4
    <2>3. QED BY <1>2, <2>1, <2>2
<1>12. SubSeq(b, bValue, e) = SubSeq(x, v, m)
    <2> DEFINE y == SubSeq(b, bValue, e)
               w == SubSeq(x, v, m)
    <2>1. e <= n /\ v \in 2..m
        BY <1>2, <1>8
    <2>2. /\ bValue \in 1..(n + 1) /\ e \in (bValue - 1)..n
          /\ v \in 1..(m + 1) /\ m \in (v - 1)..m /\ e - bValue + 1 = m - v + 1
        BY <1>1, <1>10, <2>1
    <2>3. \A j \in 1..(m - v + 1) : v + j - 1 \in 1..m /\ s + (v + j - 1) - 1 = bValue + j - 1
        BY <1>1, <1>10, <2>1
    <2>4. /\ y \in Seq(Char) /\ Len(y) = e - bValue + 1
          /\ \A j \in 1..(e - bValue + 1) : y[j] = b[bValue + j - 1]
        BY <2>2, PartFacts
    <2>5. /\ w \in Seq(Char) /\ Len(w) = m - v + 1
          /\ \A j \in 1..(m - v + 1) : w[j] = x[v + j - 1]
        BY <2>2, PartFacts
    <2> HIDE DEF y, w
    <2>6. Len(y) = Len(w)
        BY <2>2, <2>4, <2>5
    <2>7. ASSUME NEW j \in 1..Len(y) PROVE y[j] = w[j]
        <3>1. j \in 1..(e - bValue + 1) /\ j \in 1..(m - v + 1)
            BY <2>2, <2>4
        <3>2. w[j] = b[s + (v + j - 1) - 1]
            BY <1>4, <2>5, <2>3, <3>1
        <3>3. QED BY <2>4, <2>3, <3>1, <3>2
    <2>8. y = w
        BY <2>4, <2>5, <2>6, <2>7, SeqEqual
    <2>9. QED BY <2>8 DEF y, w
<1>13. bCommand # npos
    BY <1>1, <1>3, <1>6
<1>14. ExtractField(b, <<Name>>) = {SubSeq(b, bValue, IF eValue = npos THEN n ELSE eValue - 1)}
    BY <1>9, <1>13 DEF ExtractField, bCommand, bSpace, bValue
<1>15. QED BY <1>11, <1>12, <1>14 DEF v

(* The value of a field is its own line's.                                 *)
LEMMA FieldValue == TextInv => FieldValueOfItsLine
<1>1. SUFFICES ASSUME TextInv PROVE FieldValueOfItsLine
    OBVIOUS
<1> DEFINE b == text
           L == Split(b)
           named == {i \in DOMAIN L : Name \in ToSet(L[i])}
           x == L[Min(named)]
<1>2. b \in Seq(Char) /\ Len(b) < npos
    BY <1>1, BelowNpos
<1>3. FieldLine(L) = IF named # {} /\ Len(x) > 2 /\ x[1] = Name /\ x[2] = "SP"
                         /\ FindFirstNotOf(x, "SP", 2) # npos
                      THEN x ELSE <<>>
    BY DEF FieldLine
<1>4. SUFFICES ASSUME FieldLine(L) # <<>>
               PROVE  ExtractField(b, <<Name>>) =
                        {SubSeq(FieldLine(L), FindFirstNotOf(FieldLine(L), "SP", 2), Len(FieldLine(L)))}
    BY DEF FieldValueOfItsLine
<1> HIDE DEF b
<1>5. /\ FieldLine(L) = x /\ named # {} /\ Len(x) > 2 /\ x[1] = Name /\ x[2] = "SP"
      /\ FindFirstNotOf(x, "SP", 2) # npos
    <2> HIDE DEF x, named
    <2>1. QED BY <1>3, <1>4
<1>6. IsSplit(b, 1, L)
    <2>1. b # <<>>
        <3>1. SUFFICES ASSUME b = <<>> PROVE FALSE
            OBVIOUS
        <3>2. L = <<>>
            BY <3>1 DEF Split
        <3> HIDE DEF L
        <3>3. DOMAIN L = {}
            BY <3>2
        <3>4. QED BY <1>5, <3>3
    <2>2. QED BY <1>2, <2>1, SplitFacts
<1> HIDE DEF L
<1>7. L \in Seq(Seq(Char)) /\ Len(L) \in Nat /\ DOMAIN L = 1..Len(L) /\ Placed(b, 1, L)
    BY <1>6, LenProperties DEF IsSplit
<1>8. /\ Min(named) \in 1..Len(L)
      /\ \A j \in 1..(Min(named) - 1) : Name \notin ToSet(L[j])
    <2> DEFINE N == named
    <2>1. N \in SUBSET Nat /\ N # {}
        BY <1>5, <1>7
    <2>2. \A j \in 1..Len(L) : Name \in ToSet(L[j]) => j \in N
        BY <1>7
    <2>3. \A j \in N : j \in 1..Len(L)
        BY <1>7
    <2> HIDE DEF N
    <2>4. Min(N) \in N /\ \A j \in N : Min(N) <= j
        BY <2>1, Least
    <2>5. \A j \in 1..(Min(N) - 1) : Name \notin ToSet(L[j])
        <3>1. SUFFICES ASSUME NEW j \in 1..(Min(N) - 1), Name \in ToSet(L[j]) PROVE FALSE
            OBVIOUS
        <3>2. j \in 1..Len(L) /\ ~(Min(N) <= j)
            BY <1>7, <2>3, <2>4
        <3>3. QED BY <2>2, <2>4, <3>1, <3>2
    <2>6. QED BY <2>3, <2>4, <2>5 DEF N
<1>9. PICK s \in Nat :
        /\ s >= 1 /\ StandsAt(b, s, x)
        /\ \A q \in 1..(s - 1) :
             b[q] = Name => \E j \in 1..(Min(named) - 1) : Name \in ToSet(L[j])
    <2> HIDE DEF named
    <2>1. QED BY <1>7, <1>8 DEF Placed
<1>10. x \in Seq(Char)
    <2> DEFINE j == Min(named)
    <2>1. j \in 1..Len(L)
        BY <1>8
    <2> HIDE DEF j
    <2>2. L[j] \in Seq(Char)
        BY <1>7, <2>1, ElementOfSeq
    <2>3. QED BY <2>2 DEF j
<1>11. \A q \in 1..(s - 1) : b[q] # Name
    <2> HIDE DEF named
    <2>1. QED BY <1>8, <1>9
<1> HIDE DEF x
<1>12. ExtractField(b, <<Name>>) = {SubSeq(x, FindFirstNotOf(x, "SP", 2), Len(x))}
    BY <1>2, <1>5, <1>9, <1>10, <1>11, FieldAt
<1>13. QED BY <1>5, <1>12

(* ExtractField throws without a word after a space behind the name only.  *)
LEMMA FieldThrows == TextInv => ThrowsWithoutWord
<1>1. SUFFICES ASSUME TextInv PROVE ThrowsWithoutWord
    OBVIOUS
<1> DEFINE b == text
           n == Len(b)
           i == Find(b, <<Name>>, 1)
           k == Find(b, <<"SP">>, i)
           z == FindFirstNotOf(b, "SP", k)
           e == Find(b, EOL, z)
           First(q) == b[q] = Name /\ \A j \in 1..(q - 1) : b[j] # Name
           Wordless(q) == \A c, w \in 1..n : q < c /\ c < w /\ b[c] = "SP" => b[w] = "SP"
<1>2. b \in Seq(Char) /\ n < npos
    BY <1>1, BelowNpos
<1>3. n \in Nat /\ DOMAIN b = 1..n /\ npos \in Nat \ {0} /\ \A j \in 1..n : b[j] \in Char
    BY <1>2, LenProperties, ElementOfSeq DEF npos
<1>4. ExtractField(b, <<Name>>) = Throws <=> i # npos /\ z = npos
    BY DEF ExtractField, Throws
<1> HIDE DEF b
<1>5. FirstIn(b, {Name}, 1, i)
    BY <1>2, FindOne
<1>6. i \in Nat \ {0}
    BY <1>3, <1>5 DEF FirstIn
<1> HIDE DEF i
<1>7. FirstIn(b, {"SP"}, i, k)
    BY <1>2, <1>6, FindOne
<1>8. k \in Nat \ {0}
    BY <1>3, <1>6, <1>7 DEF FirstIn
<1> HIDE DEF k
<1>9. FirstIn(b, Char \ {"SP"}, k, z)
    BY <1>2, <1>8, FindNotOf
<1> HIDE DEF z, n
<1>10. i # npos => i \in 1..n /\ First(i)
    <2>1. i # npos => i \in 1..Len(b) /\ b[i] \in {Name} /\ \A j \in 1..(i - 1) : b[j] \notin {Name}
        BY <1>5 DEF FirstIn
    <2>2. QED BY <2>1 DEF n
<1>11. ASSUME NEW q \in 1..n, First(q) PROVE q = i /\ i # npos
    <2>1. FirstIn(b, {Name}, 1, q)
        BY <1>2, <1>3, <1>11 DEF FirstIn, n
    <2>2. q = i
        <3>1. q \in Nat /\ i \in Nat /\ 1 \in Nat /\ b \in Seq(Char) /\ Len(b) < npos
            BY <1>2, <1>3, <1>6 DEF n
        <3>2. QED BY <1>5, <2>1, <3>1, FirstInOne
    <2>3. QED BY <1>2, <1>3, <2>2
<1>12. ASSUME i # npos, z = npos PROVE Wordless(i)
    <2>1. SUFFICES ASSUME NEW c \in 1..n, NEW w \in 1..n, i < c, c < w, b[c] = "SP"
                   PROVE  b[w] = "SP"
        BY DEF Wordless
    <2>2. c \in i..n
        BY <1>3, <1>6, <2>1
    <2>3. k # npos /\ k \in i..n /\ \A j \in i..(k - 1) : b[j] # "SP"
        BY <1>7, <2>1, <2>2 DEF FirstIn, n
    <2>4. k <= c
        BY <1>3, <1>6, <2>1, <2>2, <2>3
    <2>5. w \in k..n
        BY <1>3, <1>8, <2>1, <2>4
    <2>6. b[w] \notin Char \ {"SP"}
        BY <1>9, <1>12, <2>5 DEF FirstIn, n
    <2>7. QED BY <1>3, <2>6
<1>13. ASSUME i # npos, Wordless(i) PROVE z = npos
    <2>1. SUFFICES ASSUME z # npos PROVE FALSE
        OBVIOUS
    <2>2. z \in k..n /\ b[z] # "SP"
        BY <1>9, <2>1 DEF FirstIn, n
    <2>3. k # npos
        BY <1>2, <1>3, <2>2 DEF n
    <2>4. k \in i..n /\ b[k] = "SP"
        BY <1>7, <2>3 DEF FirstIn, n
    <2>5. b[i] = Name
        BY <1>10, <1>13
    <2>6. i # k /\ k # z
        BY <2>2, <2>4, <2>5, NameAssumption
    <2>7. i < k /\ k < z /\ k \in 1..n /\ z \in 1..n
        BY <1>3, <1>6, <2>2, <2>4, <2>6
    <2>8. QED BY <1>13, <2>2, <2>4, <2>7 DEF Wordless
<1>14. i # npos /\ z = npos <=> \E q \in 1..n : First(q) /\ Wordless(q)
    <2> HIDE DEF First, Wordless
    <2>1. QED BY <1>10, <1>11, <1>12, <1>13
<1>15. ExtractField(text, <<Name>>) = Throws <=>
         \E q \in DOMAIN text : First(q) /\ Wordless(q)
    BY <1>3, <1>4, <1>14 DEF b, n, i, k, z
<1>16. (\E q \in DOMAIN text : First(q) /\ Wordless(q)) <=>
         \E q \in DOMAIN text :
            /\ text[q] = Name /\ \A j \in 1..(q - 1) : text[j] # Name
            /\ \A c, w \in DOMAIN text : q < c /\ c < w /\ text[c] = "SP" => text[w] = "SP"
    BY <1>3 DEF b, n
<1>17. QED BY <1>15, <1>16 DEF ThrowsWithoutWord

(* What the worker learns from a request: Parse accepts what begins with a *)
(* request line and takes its first two words, and a field's value is its  *)
(* own line's, for requests of any length and over any alphabet; it throws *)
(* only if nothing after the name could be one.                            *)
THEOREM RequestsRead == TextSpec => []RequestRead
<1>1. TextInv => RequestRead
    BY RequestLine, FieldValue, FieldThrows DEF RequestRead
<1>2. QED BY <1>1, TextsAreTexts, PTL

-----------------------------------------------------------------------------
(* The responses and who reads them.  A stream of responses is Laid: each  *)
(* Stands with its head, its blank line, its body and two line ends behind *)
(* the one before.  A client reads from any part of it the responses that  *)
(* are whole there (ReadsAll), and each one written is laid behind the     *)
(* others (RespondKeeps).  What follows them, be it a response that was    *)
(* cut, changes none of those read before it (ReadsThrough).               *)

(* What a client reads.                                                    *)

\* One response, with f for those that follow.
Reading(s, f, p) ==
    LET first == Min(Begins(s, p))
        blank == Min(Blanks(s, first))
        length == FieldIn(s, first, blank, "Content-length").number
        conn == FieldIn(s, first, blank, "Connection").word
        next == blank + length + 1
    IN  IF Begins(s, p) = {} \/ Blanks(s, first) = {} \/ next \notin (p + 1)..(Len(s) + 1)
        THEN <<>>
        ELSE <<Meant(s[first].word, SubSeq(s, blank + 1, blank + length), conn)>>
             \o IF conn = "close" THEN <<>> ELSE f[next]

\* f reads from the places from one on.
Readings(s, f, from) ==
    /\ f = [p \in 1..(Len(s) + 1) |-> f[p]]
    /\ \A p \in from..(Len(s) + 1) : f[p] = Reading(s, f, p)

(* What is read at a place depends on later places only.                   *)
LEMMA ReadingLater ==
    ASSUME NEW s, NEW p, NEW f, NEW g,
           \A q \in (p + 1)..(Len(s) + 1) : f[q] = g[q]
    PROVE  Reading(s, f, p) = Reading(s, g, p)
<1> DEFINE first == Min(Begins(s, p))
           blank == Min(Blanks(s, first))
           length == FieldIn(s, first, blank, "Content-length").number
           next == blank + length + 1
<1>1. next \in (p + 1)..(Len(s) + 1) => f[next] = g[next]
    <2> HIDE DEF next
    <2>1. QED OBVIOUS
<1>2. QED BY <1>1, Zenon DEF Reading

(* The client's function exists.                                           *)
LEMMA ClientReadsIs ==
    ASSUME NEW s, Len(s) \in Nat
    PROVE  \E f : ClientReads(s) = f[1] /\ \A p \in 1..(Len(s) + 1) : f[p] = Reading(s, f, p)
<1> DEFINE n == Len(s) + 1
           G == {m \in Nat : m <= n => \E f : Readings(s, f, n + 1 - m)}
<1>1. n \in Nat \ {0}
    OBVIOUS
<1>2. 0 \in G
    <2> DEFINE f == [p \in 1..n |-> <<>>]
    <2>1. f = [p \in 1..n |-> f[p]] /\ (n + 1 - 0)..n = {}
        BY <1>1
    <2>2. Readings(s, f, n + 1 - 0)
        BY <2>1 DEF Readings
    <2>3. QED BY <2>2
<1>3. ASSUME NEW m \in Nat, m \in G PROVE m + 1 \in G
    <2>1. SUFFICES ASSUME m + 1 <= n PROVE \E g : Readings(s, g, n + 1 - (m + 1))
        OBVIOUS
    <2> DEFINE p == n - m
    <2>2. /\ p \in 1..n /\ n + 1 - (m + 1) = p /\ n + 1 - m = p + 1 /\ m <= n
          /\ p..n = {p} \cup (p + 1)..n /\ p \notin (p + 1)..n
        BY <1>1, <2>1
    <2>3. PICK f : Readings(s, f, p + 1)
        BY <1>3, <2>2
    <2> DEFINE g == [q \in 1..n |-> IF q = p THEN Reading(s, f, p) ELSE f[q]]
    <2> HIDE DEF p
    <2>4. \A q \in (p + 1)..n : g[q] = f[q] /\ q \in 1..n
        BY <1>1, <2>2
    <2>5. g[p] = Reading(s, f, p) /\ g = [q \in 1..n |-> g[q]]
        BY <2>2
    <2> HIDE DEF g
    <2>6. ASSUME NEW q \in p..n PROVE g[q] = Reading(s, g, q)
        <3>1. q \in 1..n /\ \A r \in (q + 1)..n : r \in (p + 1)..n
            BY <1>1, <2>2
        <3>2. Reading(s, f, q) = Reading(s, g, q)
            <4>1. \A r \in (q + 1)..(Len(s) + 1) : f[r] = g[r]
                BY <2>4, <3>1
            <4>2. QED BY <4>1, ReadingLater
        <3>3. CASE q = p
            BY <2>5, <3>2, <3>3
        <3>4. CASE q # p
            <4>1. q \in (p + 1)..n
                BY <2>2, <3>4
            <4>2. f[q] = Reading(s, f, q)
                BY <2>3, <4>1 DEF Readings
            <4>3. QED BY <2>4, <3>2, <4>1, <4>2
        <3>5. QED BY <3>3, <3>4
    <2>7. Readings(s, g, p)
        BY <2>5, <2>6 DEF Readings
    <2>8. QED BY <2>2, <2>7
<1> HIDE DEF G
<1>4. n \in G
    <2>1. \A m \in Nat : m \in G
        BY <1>2, <1>3, Induction
    <2>2. QED BY <1>1, <2>1
<1>5. \E f : Readings(s, f, 1)
    <2>1. n <= n /\ n + 1 - n = 1
        BY <1>1
    <2>2. QED BY <1>4, <2>1 DEF G
<1>6. \E f : f = [p \in 1..(Len(s) + 1) |-> Reading(s, f, p)]
    <2>1. PICK f : f = [p \in 1..(Len(s) + 1) |-> f[p]]
                   /\ \A p \in 1..(Len(s) + 1) : f[p] = Reading(s, f, p)
        BY <1>5 DEF Readings
    <2> DEFINE g == [p \in 1..(Len(s) + 1) |-> Reading(s, f, p)]
    <2>2. g = [p \in 1..(Len(s) + 1) |-> f[p]]
        BY <2>1
    <2>3. f = g
        BY <2>1, <2>2
    <2>4. QED BY <2>3
<1> DEFINE from == CHOOSE f : f = [p \in 1..(Len(s) + 1) |-> Reading(s, f, p)]
<1>7. from = [p \in 1..(Len(s) + 1) |-> Reading(s, from, p)]
    BY <1>6, Zenon
<1>8. ClientReads(s) = from[1]
    BY DEF ClientReads, Reading
<1> HIDE DEF from
<1>9. \A p \in 1..(Len(s) + 1) : from[p] = Reading(s, from, p)
    BY <1>7
<1>10. QED BY <1>8, <1>9

-----------------------------------------------------------------------------
(* A response where it stands.                                             *)

\* The units of responses, and what responses mean.
AllUnits ==
    BodyUnits \cup {Eol, Status("200"), Status("400"), Status("404"),
                    Field("Connection", "keep-alive"), Field("Connection", "close"),
                    Field("Content-Type", "text/html"), Text("c"), Text("html")}
              \cup {ContentLength(n) : n \in Nat}
Meanings ==
    {r \in [code : {"200", "400", "404"}, body : Seq(AllUnits), conn : {"keep-alive", "close"}] :
        r.code = "200" <=> r.conn = "keep-alive"}

\* The first field with the name between two places is at c.
FieldStands(s, first, last, name, c) ==
    /\ c \in first..last /\ s[c] # Eol /\ s[c].line = name
    /\ \A i \in first..(c - 1) : s[i] = Eol \/ s[i].line # name

\* The response r begins at a and has its blank line at z.
Stands(s, a, z, r) ==
    /\ s[a] # Eol /\ s[a].word = r.code
    /\ a + 1 < z /\ s[z - 1] = Eol /\ s[z] = Eol
    /\ \A i \in (a + 1)..(z - 1) : ~(s[i - 1] = Eol /\ s[i] = Eol)
    /\ \E c \in a..z :
         FieldStands(s, a, z, "Content-length", c) /\ s[c].number = Len(r.body)
    /\ \E c \in a..z : FieldStands(s, a, z, "Connection", c) /\ s[c].word = r.conn
    /\ z + Len(r.body) + 2 <= Len(s)
    /\ \A i \in 1..Len(r.body) : s[z + i] = r.body[i]
    /\ s[z + Len(r.body) + 1] = Eol /\ s[z + Len(r.body) + 2] = Eol

\* t is s as far as it has been received.
Received(t, s) ==
    /\ t \in Seq(AllUnits) /\ Len(t) <= Len(s) /\ \A i \in 1..Len(t) : t[i] = s[i]

(* What is the least of some numbers.                                      *)
LEMMA LeastIs ==
    ASSUME NEW T \in SUBSET Nat, NEW m \in T, \A x \in T : m <= x
    PROVE  Min(T) = m
<1>1. Min(T) \in T /\ \A x \in T : Min(T) <= x
    BY Least
<1>2. Min(T) \in Nat /\ m \in Nat /\ Min(T) <= m /\ m <= Min(T)
    BY <1>1
<1>3. QED BY <1>2

(* FieldIn finds the first field with the name.                            *)
LEMMA FieldInIs ==
    ASSUME NEW s, NEW a \in Nat, NEW z \in Nat, NEW name, NEW c,
           FieldStands(s, a, z, name, c)
    PROVE  FieldIn(s, a, z, name) = s[c]
<1> DEFINE at == {i \in a..z : s[i] # Eol /\ s[i].line = name}
<1>1. c \in at /\ at \in SUBSET Nat
    BY DEF FieldStands
<1>2. ASSUME NEW x \in at PROVE c <= x
    <2>1. ~(x \in a..(c - 1))
        BY DEF FieldStands
    <2>2. x \in a..z /\ c \in a..z
        BY DEF FieldStands
    <2>3. QED BY <2>1, <2>2
<1>3. Min(at) = c /\ at # {}
    <2> HIDE DEF at
    <2>1. QED BY <1>1, <1>2, LeastIs
<1>4. QED BY <1>3 DEF FieldIn

(* A field stands in what was received as it stands in the whole.          *)
LEMMA FieldReceived ==
    ASSUME NEW s, NEW t, Received(t, s), NEW a \in Nat \ {0}, NEW z \in Nat, z <= Len(t),
           NEW name, NEW c \in a..z, FieldStands(s, a, z, name, c)
    PROVE  FieldStands(t, a, z, name, c) /\ t[c] = s[c]
<1>1. Len(t) \in Nat
    BY LenProperties DEF Received
<1>2. \A i \in a..z : t[i] = s[i]
    BY <1>1 DEF Received
<1>3. \A i \in a..(c - 1) : i \in a..z
    OBVIOUS
<1>4. QED BY <1>2, <1>3 DEF FieldStands

(* The beginning of a response is found, when it was received.             *)
LEMMA BeginIs ==
    ASSUME NEW s, NEW t, Received(t, s), NEW p \in Nat \ {0}, NEW a \in Nat, p <= a,
           \A i \in p..(a - 1) : s[i] = Eol, s[a] # Eol
    PROVE  /\ Len(t) < a => Begins(t, p) = {}
           /\ a <= Len(t) => Begins(t, p) # {} /\ Min(Begins(t, p)) = a
<1>1. Len(t) \in Nat /\ \A i \in 1..Len(t) : t[i] = s[i]
    BY LenProperties DEF Received
<1>2. \A i \in p..Len(t) : i < a => t[i] = Eol
    <2>1. TAKE i \in p..Len(t)
    <2>2. HAVE i < a
    <2>3. i \in 1..Len(t) /\ i \in p..(a - 1)
        BY <1>1, <2>2
    <2>4. QED BY <1>1, <2>3
<1>3. CASE Len(t) < a
    <2>1. \A i \in p..Len(t) : i < a
        BY <1>1, <1>3
    <2>2. QED BY <1>1, <1>2, <1>3, <2>1 DEF Begins
<1>4. CASE a <= Len(t)
    <2> DEFINE T == Begins(t, p)
    <2>1. a \in p..Len(t) /\ t[a] # Eol
        BY <1>1, <1>4
    <2>2. a \in T /\ T \in SUBSET Nat /\ \A x \in T : a <= x
        BY <1>1, <1>2, <2>1 DEF Begins
    <2> HIDE DEF T
    <2>3. Min(T) = a
        BY <2>2, LeastIs
    <2>4. QED BY <1>1, <1>4, <2>2, <2>3 DEF T
<1>5. QED BY <1>1, <1>3, <1>4

(* The blank line of a response is found, when it was received.            *)
LEMMA BlankAtIs ==
    ASSUME NEW s, NEW t, Received(t, s), NEW a \in Nat \ {0}, NEW z \in Nat, a + 1 < z,
           s[z - 1] = Eol, s[z] = Eol,
           \A i \in (a + 1)..(z - 1) : ~(s[i - 1] = Eol /\ s[i] = Eol)
    PROVE  /\ Len(t) < z => Blanks(t, a) = {}
           /\ z <= Len(t) => Blanks(t, a) # {} /\ Min(Blanks(t, a)) = z
<1>1. Len(t) \in Nat /\ \A i \in 1..Len(t) : t[i] = s[i]
    BY LenProperties DEF Received
<1>2. \A i \in (a + 1)..Len(t) : i < z => ~(t[i - 1] = Eol /\ t[i] = Eol)
    <2>1. TAKE i \in (a + 1)..Len(t)
    <2>2. HAVE i < z
    <2>3. i \in 1..Len(t) /\ i - 1 \in 1..Len(t) /\ i \in (a + 1)..(z - 1)
        BY <1>1, <2>2
    <2>4. QED BY <1>1, <2>3
<1>3. CASE Len(t) < z
    <2>1. \A i \in (a + 1)..Len(t) : i < z
        BY <1>1, <1>3
    <2>2. QED BY <1>1, <1>2, <1>3, <2>1 DEF Blanks
<1>4. CASE z <= Len(t)
    <2> DEFINE T == Blanks(t, a)
    <2>1. z \in (a + 1)..Len(t) /\ t[z] = Eol /\ t[z - 1] = Eol
        <3>1. z \in 1..Len(t) /\ z - 1 \in 1..Len(t)
            BY <1>1, <1>4
        <3>2. QED BY <1>1, <1>4, <3>1
    <2>2. z \in T /\ T \in SUBSET Nat /\ \A x \in T : z <= x
        BY <1>1, <1>2, <2>1 DEF Blanks
    <2> HIDE DEF T
    <2>3. Min(T) = z
        BY <2>2, LeastIs
    <2>4. QED BY <1>1, <1>4, <2>2, <2>3 DEF T
<1>5. QED BY <1>1, <1>3, <1>4

\* What is read where the response stands whose last unit is at e.
IsRead(t, f, r, e, read) ==
    /\ Len(t) < e => read = <<>>
    /\ e <= Len(t) /\ r.conn = "close" => read = <<r>>
    /\ e <= Len(t) /\ r.conn # "close" => read = <<r>> \o f[e + 1]

(* A response is read whole, or not at all when not all of it was received.*)
LEMMA ReadsOne ==
    ASSUME NEW s, NEW t, Received(t, s), NEW f, NEW r \in Meanings,
           NEW p \in Nat \ {0}, NEW a \in Nat, NEW z \in Nat, p <= a,
           \A i \in p..(a - 1) : s[i] = Eol, Stands(s, a, z, r)
    PROVE  IsRead(t, f, r, z + Len(r.body), Reading(t, f, p))
<1> DEFINE n == Len(t)
           l == Len(r.body)
           first == Min(Begins(t, p))
           blank == Min(Blanks(t, first))
<1>1. /\ n \in Nat /\ t \in Seq(AllUnits) /\ r.body \in Seq(AllUnits) /\ l \in Nat
      /\ r = Meant(r.code, r.body, r.conn)
    <2>1. t \in Seq(AllUnits)
        BY DEF Received
    <2>2. r.body \in Seq(AllUnits) /\ r = Meant(r.code, r.body, r.conn)
        BY DEF Meanings, Meant
    <2>3. QED BY <2>1, <2>2, LenProperties
<1>2. a \in Nat \ {0} /\ a + 1 < z /\ s[a] # Eol
    BY DEF Stands
<1>3. /\ n < a => Begins(t, p) = {}
      /\ a <= n => Begins(t, p) # {} /\ first = a
    BY <1>2, BeginIs
<1>4. /\ n < z => Blanks(t, a) = {}
      /\ z <= n => Blanks(t, a) # {} /\ Min(Blanks(t, a)) = z
    BY <1>2, BlankAtIs DEF Stands
<1>5. CASE n < a
    <2>1. Reading(t, f, p) = <<>>
        BY <1>3, <1>5 DEF Reading
    <2>2. Len(t) < z + l
        BY <1>1, <1>2, <1>5
    <2>3. QED BY <1>1, <2>1, <2>2 DEF IsRead
<1>6. CASE a <= n /\ n < z
    <2>1. Reading(t, f, p) = <<>>
        BY <1>3, <1>4, <1>6 DEF Reading
    <2>2. Len(t) < z + l
        BY <1>1, <1>2, <1>6
    <2>3. QED BY <1>1, <2>1, <2>2 DEF IsRead
<1>7. CASE z <= n
    <2>1. first = a /\ Begins(t, p) # {}
        BY <1>1, <1>2, <1>3, <1>7
    <2>2. blank = z /\ Blanks(t, first) # {}
        BY <1>4, <1>7, <2>1
    <2>3. FieldIn(t, a, z, "Content-length").number = l
        <3>1. PICK c \in a..z : FieldStands(s, a, z, "Content-length", c) /\ s[c].number = l
            BY DEF Stands
        <3>2. FieldStands(t, a, z, "Content-length", c) /\ t[c] = s[c]
            BY <1>2, <1>7, <3>1, FieldReceived
        <3>3. FieldIn(t, a, z, "Content-length") = t[c]
            <4>1. a \in Nat /\ z \in Nat
                BY <1>2
            <4>2. FieldStands(t, a, z, "Content-length", c)
                BY <3>2
            <4>3. QED BY <4>1, <4>2, FieldInIs
        <3>4. QED BY <3>1, <3>2, <3>3
    <2>4. FieldIn(t, a, z, "Connection").word = r.conn
        <3>1. PICK c \in a..z : FieldStands(s, a, z, "Connection", c) /\ s[c].word = r.conn
            BY DEF Stands
        <3>2. FieldStands(t, a, z, "Connection", c) /\ t[c] = s[c]
            BY <1>2, <1>7, <3>1, FieldReceived
        <3>3. FieldIn(t, a, z, "Connection") = t[c]
            <4>1. a \in Nat /\ z \in Nat
                BY <1>2
            <4>2. FieldStands(t, a, z, "Connection", c)
                BY <3>2
            <4>3. QED BY <4>1, <4>2, FieldInIs
        <3>4. QED BY <3>1, <3>2, <3>3
    <2> HIDE DEF first, blank
    <2>5. Reading(t, f, p) =
            IF z + l + 1 \notin (p + 1)..(n + 1) THEN <<>>
            ELSE <<Meant(t[a].word, SubSeq(t, z + 1, z + l), r.conn)>>
                 \o IF r.conn = "close" THEN <<>> ELSE f[z + l + 1]
        BY <2>1, <2>2, <2>3, <2>4 DEF Reading, first, blank
    <2>6. CASE n < z + l
        <3>1. z + l + 1 \notin (p + 1)..(n + 1)
            BY <1>1, <2>6
        <3>2. Reading(t, f, p) = <<>>
            BY <2>5, <3>1
        <3>3. QED BY <1>1, <2>6, <3>2 DEF IsRead
    <2>7. CASE z + l <= n
        <3>1. z + l + 1 \in (p + 1)..(n + 1)
            BY <1>1, <1>2, <2>7
        <3>2. t[a].word = r.code
            <4>1. a \in 1..n
                BY <1>1, <1>2, <1>7
            <4>2. QED BY <4>1 DEF Received, Stands
        <3>3. SubSeq(t, z + 1, z + l) = r.body
            <4> DEFINE part == SubSeq(t, z + 1, z + l)
            <4>1. z + 1 \in 1..(n + 1) /\ z + l \in ((z + 1) - 1)..n
                  /\ (z + l) - (z + 1) + 1 = l /\ \A i \in 1..l : (z + 1) + i - 1 = z + i
                BY <1>1, <1>7, <2>7
            <4>2. part \in Seq(AllUnits) /\ Len(part) = (z + l) - (z + 1) + 1
                  /\ \A i \in 1..((z + l) - (z + 1) + 1) : part[i] = t[(z + 1) + i - 1]
                BY <1>1, <4>1, PartFacts
            <4> HIDE DEF part
            <4>3. part \in Seq(AllUnits) /\ Len(part) = l /\ \A i \in 1..l : part[i] = t[z + i]
                BY <4>1, <4>2
            <4>4. \A i \in 1..l : z + i \in 1..n
                BY <1>1, <2>7
            <4>5. \A i \in 1..l : t[z + i] = r.body[i]
                BY <4>4 DEF Received, Stands
            <4>6. part = r.body
                <5>1. /\ part \in Seq(AllUnits) /\ r.body \in Seq(AllUnits)
                      /\ Len(part) = Len(r.body) /\ \A i \in 1..Len(part) : part[i] = r.body[i]
                    BY <1>1, <4>3, <4>5
                <5>2. QED BY <5>1, SeqEqual, SMTT(30)
            <4>7. QED BY <4>6 DEF part
        <3>4. <<Meant(t[a].word, SubSeq(t, z + 1, z + l), r.conn)>> = <<r>>
            BY <1>1, <3>2, <3>3
        <3>5. ~(n < z + l)
            BY <1>1, <2>7
        <3>6. Reading(t, f, p) = <<r>> \o IF r.conn = "close" THEN <<>> ELSE f[z + l + 1]
            BY <2>5, <3>1, <3>4, Zenon
        <3>7. CASE r.conn = "close"
            <4>1. Reading(t, f, p) = <<r>> \o <<>>
                BY <3>6, <3>7
            <4>2. <<r>> \o <<>> = <<r>>
                OBVIOUS
            <4>3. QED BY <3>5, <3>7, <4>1, <4>2, Zenon DEF IsRead
        <3>8. CASE r.conn # "close"
            <4>1. Reading(t, f, p) = <<r>> \o f[z + l + 1]
                BY <3>6, <3>8, Zenon
            <4>2. QED BY <3>5, <3>8, <4>1, Zenon DEF IsRead
        <3>9. QED BY <3>7, <3>8, Zenon
    <2>8. QED BY <1>1, <2>6, <2>7
<1>8. QED BY <1>1, <1>2, <1>5, <1>6, <1>7

\* The responses ms stand one after another, from these places on.
Laid(s, ms, start) ==
    /\ start \in [1..(Len(ms) + 1) -> Nat \ {0}]
    /\ start[1] = 1 /\ start[Len(ms) + 1] = Len(s) + 1
    /\ \A k \in 1..Len(ms) : \E z \in Nat :
         Stands(s, start[k], z, ms[k]) /\ start[k + 1] = z + Len(ms[k].body) + 3

\* Only the last response closes the connection.
ClosesLast(ms) == \A k \in 1..(Len(ms) - 1) : ms[k].conn # "close"

\* The client reads the k-th response from here.
ReadFrom(start, k) == IF k = 1 THEN 1 ELSE start[k] - 2

(* Between two responses, and after the last, there are line ends only.    *)
LEMMA BetweenLaid ==
    ASSUME NEW s \in Seq(AllUnits), NEW ms \in Seq(Meanings), NEW start, Laid(s, ms, start),
           NEW k \in 1..(Len(ms) + 1)
    PROVE  /\ start[k] \in Nat \ {0} /\ ReadFrom(start, k) \in Nat \ {0}
           /\ ReadFrom(start, k) <= start[k]
           /\ \A i \in ReadFrom(start, k)..(start[k] - 1) : s[i] = Eol
<1>1. Len(ms) \in Nat /\ start[k] \in Nat \ {0} /\ start[1] = 1
    BY LenProperties DEF Laid
<1>2. CASE k = 1
    BY <1>1, <1>2 DEF ReadFrom
<1>3. CASE k # 1
    <2> DEFINE j == k - 1
    <2>1. j \in 1..Len(ms) /\ j + 1 = k
        BY <1>1, <1>3
    <2> HIDE DEF j
    <2>2. PICK z \in Nat : Stands(s, start[j], z, ms[j]) /\ start[j + 1] = z + Len(ms[j].body) + 3
        BY <2>1 DEF Laid
    <2> DEFINE l == Len(ms[j].body)
    <2>3. l \in Nat
        <3>1. ms[j] \in Meanings
            BY <2>1, ElementOfSeq
        <3>2. ms[j].body \in Seq(AllUnits)
            BY <3>1 DEF Meanings
        <3>3. QED BY <3>2, LenProperties
    <2>4. start[k] = z + l + 3 /\ s[z + l + 1] = Eol /\ s[z + l + 2] = Eol
        BY <2>1, <2>2 DEF Stands
    <2> HIDE DEF l
    <2>5. ReadFrom(start, k) = z + l + 1
        BY <1>3, <2>3, <2>4 DEF ReadFrom
    <2>6. \A i \in (z + l + 1)..(z + l + 2) : i = z + l + 1 \/ i = z + l + 2
        BY <2>3
    <2>7. start[k] - 1 = z + l + 2
        BY <2>3, <2>4
    <2>8. QED BY <2>3, <2>4, <2>5, <2>6, <2>7
<1>4. QED BY <1>2, <1>3

(* One element before others of a sequence.                                *)
LEMMA PartFrom ==
    ASSUME NEW S, NEW ms \in Seq(S), NEW k \in 1..Len(ms), NEW j \in k..Len(ms)
    PROVE  <<ms[k]>> \o SubSeq(ms, k + 1, j) = SubSeq(ms, k, j)
<1>1. /\ Len(ms) \in Nat /\ k \in Nat \ {0} /\ j \in Nat /\ k <= j /\ j <= Len(ms)
      /\ ms[k] \in S
    BY LenProperties, ElementOfSeq
<1> DEFINE x == ms[k]
           q == SubSeq(ms, k + 1, j)
           w == SubSeq(ms, k, j)
           u == <<x>> \o q
<1>2. q \in Seq(S) /\ Len(q) = j - k /\ \A i \in 1..(j - k) : q[i] = ms[k + i]
    <2>1. k + 1 \in 1..(Len(ms) + 1) /\ j \in ((k + 1) - 1)..Len(ms) /\ j - (k + 1) + 1 = j - k
          /\ \A i \in 1..(j - k) : (k + 1) + i - 1 = k + i
        BY <1>1
    <2>2. /\ q \in Seq(S) /\ Len(q) = j - (k + 1) + 1
          /\ \A i \in 1..(j - (k + 1) + 1) : q[i] = ms[(k + 1) + i - 1]
        BY <2>1, PartFacts
    <2> HIDE DEF q
    <2>3. QED BY <2>1, <2>2
<1>3. w \in Seq(S) /\ Len(w) = j - k + 1 /\ \A i \in 1..(j - k + 1) : w[i] = ms[k + i - 1]
    <2>1. k \in 1..(Len(ms) + 1) /\ j \in (k - 1)..Len(ms)
        BY <1>1
    <2>2. QED BY <2>1, PartFacts
<1> HIDE DEF q
<1>4. /\ u \in Seq(S) /\ Len(u) = Len(q) + 1 /\ u[1] = x
      /\ \A i \in 1..Len(q) : u[i + 1] = q[i]
    <2>1. x \in S /\ q \in Seq(S)
        BY <1>1, <1>2
    <2> HIDE DEF x
    <2>2. QED BY <2>1, ConsFacts
<1> HIDE DEF w, u
<1>5. Len(u) = Len(w)
    BY <1>1, <1>2, <1>3, <1>4
<1>6. ASSUME NEW i \in 1..Len(w) PROVE u[i] = w[i]
    <2>1. CASE i = 1
        <3>1. w[1] = ms[k + 1 - 1] /\ k + 1 - 1 = k
            BY <1>1, <1>3
        <3>2. QED BY <1>4, <2>1, <3>1
    <2>2. CASE i # 1
        <3>1. i - 1 \in 1..Len(q) /\ (i - 1) + 1 = i /\ i - 1 \in 1..(j - k)
            BY <1>1, <1>2, <1>3, <2>2
        <3>2. u[i] = q[i - 1] /\ q[i - 1] = ms[k + (i - 1)]
            BY <1>2, <1>4, <3>1
        <3>3. w[i] = ms[k + i - 1] /\ k + i - 1 = k + (i - 1)
            BY <1>1, <1>3, <3>1
        <3>4. QED BY <3>2, <3>3
    <2>3. QED BY <2>1, <2>2
<1>7. u = w
    BY <1>3, <1>4, <1>5, <1>6, SeqEqual
<1>8. QED BY <1>7 DEF u, w, q, x

\* From the k-th response on the client reads some of what was meant, all of
\* it when it has received everything.
ReadsOn(s, ms, start, t, f, k) ==
    ReadFrom(start, k) <= Len(t) + 1 =>
        \E j \in (k - 1)..Len(ms) :
            /\ f[ReadFrom(start, k)] = SubSeq(ms, k, j)
            /\ Len(t) = Len(s) => j = Len(ms)

(* After the last response there is nothing to read.                       *)
LEMMA ReadsLast ==
    ASSUME NEW s \in Seq(AllUnits), NEW ms \in Seq(Meanings), NEW start, Laid(s, ms, start),
           NEW t, Received(t, s), NEW f,
           \A p \in 1..(Len(t) + 1) : f[p] = Reading(t, f, p)
    PROVE  ReadsOn(s, ms, start, t, f, Len(ms) + 1)
<1> DEFINE k == Len(ms) + 1
           p == ReadFrom(start, k)
<1>1. Len(ms) \in Nat /\ k \in 1..(Len(ms) + 1) /\ Len(s) \in Nat
    BY LenProperties
<1>2. /\ p \in Nat \ {0} /\ p <= start[k] /\ start[k] = Len(s) + 1
      /\ \A i \in p..(start[k] - 1) : s[i] = Eol
    <2>1. start[k] = Len(s) + 1
        BY DEF Laid
    <2>2. QED BY <1>1, <2>1, BetweenLaid
<1>3. Len(t) \in Nat /\ Len(t) <= Len(s) /\ \A i \in 1..Len(t) : t[i] = s[i]
    BY LenProperties DEF Received
<1> HIDE DEF p
<1>4. SUFFICES ASSUME p <= Len(t) + 1 PROVE f[p] = SubSeq(ms, k, k - 1)
    <2>1. k - 1 \in (k - 1)..Len(ms) /\ k - 1 = Len(ms)
        BY <1>1
    <2>2. QED BY <1>4, <2>1 DEF ReadsOn, p
<1>5. Begins(t, p) = {}
    <2>1. ASSUME NEW i \in p..Len(t) PROVE t[i] = Eol
        <3>1. i \in 1..Len(t) /\ i \in p..(start[k] - 1)
            BY <1>1, <1>2, <1>3
        <3>2. QED BY <1>2, <1>3, <3>1
    <2>2. QED BY <2>1 DEF Begins
<1>6. f[p] = <<>>
    <2>1. p \in 1..(Len(t) + 1)
        BY <1>2, <1>3, <1>4
    <2>2. QED BY <1>5, <2>1 DEF Reading
<1>7. SubSeq(ms, k, k - 1) = <<>>
    <2>1. k > k - 1
        BY <1>1
    <2>2. QED BY <1>1, SubSeqProperties
<1>8. QED BY <1>6, <1>7

(* A response before what is read after it.                                *)
LEMMA ReadsBefore ==
    ASSUME NEW s \in Seq(AllUnits), NEW ms \in Seq(Meanings), NEW start, Laid(s, ms, start),
           ClosesLast(ms), NEW t, Received(t, s), NEW f,
           \A p \in 1..(Len(t) + 1) : f[p] = Reading(t, f, p),
           NEW k \in 1..Len(ms), ReadsOn(s, ms, start, t, f, k + 1)
    PROVE  ReadsOn(s, ms, start, t, f, k)
<1> DEFINE p == ReadFrom(start, k)
           r == ms[k]
           l == Len(r.body)
           K == Len(ms)
<1>1. K \in Nat /\ k \in 1..(K + 1) /\ k \in Nat \ {0} /\ Len(s) \in Nat /\ r \in Meanings
    BY LenProperties, ElementOfSeq
<1>2. /\ start[k] \in Nat /\ p \in Nat \ {0} /\ p <= start[k]
      /\ \A i \in p..(start[k] - 1) : s[i] = Eol
    BY <1>1, BetweenLaid
<1>3. Len(t) \in Nat /\ Len(t) <= Len(s)
    BY LenProperties DEF Received
<1>4. PICK z \in Nat : Stands(s, start[k], z, r) /\ start[k + 1] = z + l + 3
    BY DEF Laid
<1>5. l \in Nat /\ z + l + 2 <= Len(s)
    <2>1. r.body \in Seq(AllUnits)
        BY <1>1 DEF Meanings
    <2>2. QED BY <1>4, <2>1, LenProperties DEF Stands
<1> HIDE DEF p, r, l
<1>6. /\ Len(t) < z + l => Reading(t, f, p) = <<>>
      /\ z + l <= Len(t) /\ r.conn = "close" => Reading(t, f, p) = <<r>>
      /\ z + l <= Len(t) /\ r.conn # "close" => Reading(t, f, p) = <<r>> \o f[z + l + 1]
    <2> DEFINE a == start[k]
    <2>1. /\ r \in Meanings /\ p \in Nat \ {0} /\ a \in Nat /\ z \in Nat /\ p <= a
          /\ \A i \in p..(a - 1) : s[i] = Eol
          /\ Stands(s, a, z, r)
        BY <1>1, <1>2, <1>4
    <2> HIDE DEF a
    <2>2. IsRead(t, f, r, z + Len(r.body), Reading(t, f, p))
        BY <2>1, ReadsOne
    <2>3. IsRead(t, f, r, z + l, Reading(t, f, p))
        BY <2>2 DEF l
    <2>4. QED BY <2>3, Zenon DEF IsRead
<1>7. SUFFICES ASSUME p <= Len(t) + 1
               PROVE  \E j \in (k - 1)..K : f[p] = SubSeq(ms, k, j) /\ (Len(t) = Len(s) => j = K)
    BY DEF ReadsOn, p
<1>8. f[p] = Reading(t, f, p)
    BY <1>2, <1>3, <1>7
<1>9. CASE Len(t) < z + l
    <2>1. SubSeq(ms, k, k - 1) = <<>>
        <3>1. k > k - 1
            BY <1>1
        <3>2. QED BY <1>1, <3>1, SubSeqProperties
    <2>2. k - 1 \in (k - 1)..K /\ Len(t) # Len(s)
        BY <1>1, <1>3, <1>5, <1>9
    <2>3. QED BY <1>6, <1>8, <1>9, <2>1, <2>2
<1>10. CASE z + l <= Len(t)
    <2>1. CASE r.conn = "close"
        <3>1. k = K
            <4>1. ~(k \in 1..(K - 1))
                BY <2>1 DEF ClosesLast, r
            <4>2. QED BY <1>1, <4>1
        <3>2. SubSeq(ms, k, k) = <<r>>
            <4>1. /\ <<ms[k]>> \o SubSeq(ms, k + 1, k) = SubSeq(ms, k, k)
                BY <1>1, PartFrom
            <4>2. SubSeq(ms, k + 1, k) = <<>>
                <5>1. k + 1 > k
                    BY <1>1
                <5>2. QED BY <1>1, <5>1, SubSeqProperties
            <4>3. <<ms[k]>> \o <<>> = <<ms[k]>>
                OBVIOUS
            <4>4. QED BY <4>1, <4>2, <4>3 DEF r
        <3>3. f[p] = <<r>>
            BY <1>6, <1>8, <1>10, <2>1
        <3>4. f[p] = SubSeq(ms, k, k)
            BY <3>2, <3>3
        <3>5. k \in (k - 1)..K
            BY <1>1, <3>1
        <3>6. QED BY <3>1, <3>4, <3>5
    <2>2. CASE r.conn # "close"
        <3>1. k + 1 # 1 /\ (k + 1) - 1 = k /\ start[k + 1] - 2 = z + l + 1 /\ z + l + 1 <= Len(t) + 1
            BY <1>1, <1>3, <1>4, <1>5, <1>10
        <3>2. ReadFrom(start, k + 1) = z + l + 1
            BY <3>1 DEF ReadFrom
        <3>3. PICK j \in k..K : /\ f[z + l + 1] = SubSeq(ms, k + 1, j)
                                /\ Len(t) = Len(s) => j = K
            BY <3>1, <3>2 DEF ReadsOn
        <3>4. f[p] = <<r>> \o SubSeq(ms, k + 1, j)
            BY <1>6, <1>8, <1>10, <2>2, <3>3
        <3>5. <<ms[k]>> \o SubSeq(ms, k + 1, j) = SubSeq(ms, k, j)
            BY <1>1, <3>3, PartFrom
        <3>6. f[p] = SubSeq(ms, k, j)
            BY <3>4, <3>5 DEF r
        <3>7. j \in (k - 1)..K
            BY <1>1, <3>3
        <3>8. QED BY <3>3, <3>6, <3>7
    <2>3. QED BY <2>1, <2>2
<1>11. QED BY <1>3, <1>5, <1>9, <1>10

(* What is read of responses that stand one after another.                 *)
LEMMA ReadsAll ==
    ASSUME NEW s \in Seq(AllUnits), NEW ms \in Seq(Meanings), NEW start, Laid(s, ms, start),
           ClosesLast(ms), NEW t, Received(t, s)
    PROVE  \E j \in 0..Len(ms) : /\ ClientReads(t) = SubSeq(ms, 1, j)
                                 /\ Len(t) = Len(s) => j = Len(ms)
<1> DEFINE K == Len(ms)
<1>1. K \in Nat /\ Len(t) \in Nat
    BY LenProperties DEF Received
<1>2. PICK f : ClientReads(t) = f[1] /\ \A p \in 1..(Len(t) + 1) : f[p] = Reading(t, f, p)
    BY <1>1, ClientReadsIs
<1> DEFINE G == {m \in Nat : m <= K => ReadsOn(s, ms, start, t, f, K + 1 - m)}
<1>3. 0 \in G
    <2>1. ReadsOn(s, ms, start, t, f, K + 1)
        BY <1>2, ReadsLast
    <2>2. K + 1 - 0 = K + 1
        BY <1>1
    <2>3. QED BY <2>1, <2>2
<1>4. ASSUME NEW m \in Nat, m \in G PROVE m + 1 \in G
    <2>1. SUFFICES ASSUME m + 1 <= K PROVE ReadsOn(s, ms, start, t, f, K + 1 - (m + 1))
        OBVIOUS
    <2> DEFINE k == K + 1 - (m + 1)
    <2>2. k \in 1..K /\ k + 1 = K + 1 - m /\ m <= K
        BY <1>1, <2>1
    <2>3. ReadsOn(s, ms, start, t, f, k + 1)
        BY <1>4, <2>2
    <2> HIDE DEF k
    <2>4. ReadsOn(s, ms, start, t, f, k)
        BY <1>2, <2>2, <2>3, ReadsBefore
    <2>5. QED BY <2>4 DEF k
<1>5. K \in G
    <2> HIDE DEF G
    <2>1. \A m \in Nat : m \in G
        BY <1>3, <1>4, Induction
    <2>2. QED BY <1>1, <2>1
<1>6. ReadsOn(s, ms, start, t, f, 1)
    <2>1. K + 1 - K = 1 /\ K <= K
        BY <1>1
    <2>2. QED BY <1>5, <2>1
<1>7. ReadFrom(start, 1) = 1 /\ 1 <= Len(t) + 1 /\ 1 - 1 = 0
    BY <1>1 DEF ReadFrom
<1>8. QED BY <1>2, <1>6, <1>7 DEF ReadsOn

-----------------------------------------------------------------------------
(* The text of a response.                                                 *)

\* The lines of the fields, and where they stand.
FieldLines(fields) == [i \in DOMAIN fields |-> <<fields[i], Eol>>]
FieldsAt(x, o, fields, m) ==
    \A j \in 1..m : x[o + (2 * j - 1)] = fields[j] /\ x[o + 2 * j] = Eol

(* The lines of the fields in one.                                         *)
LEMMA LinesOfFields ==
    ASSUME NEW S, Eol \in S, NEW fields \in Seq(S), fields # <<>>
    PROVE  /\ FlattenSeq(FieldLines(fields)) \in Seq(S)
           /\ Len(FlattenSeq(FieldLines(fields))) = 2 * Len(fields)
           /\ FieldsAt(FlattenSeq(FieldLines(fields)), 0, fields, Len(fields))
<1> DEFINE m == Len(fields)
           g == FieldLines(fields)
<1>1. m \in Nat \ {0} /\ DOMAIN fields = 1..m /\ \A i \in 1..m : fields[i] \in S
    BY EmptySeq, LenProperties, ElementOfSeq
<1>2. /\ Len(g) = m
      /\ \A i \in 1..m : g[i] = <<fields[i], Eol>>
    <2>1. g = [i \in 1..m |-> <<fields[i], Eol>>]
        BY <1>1 DEF FieldLines
    <2>2. QED BY <1>1, <2>1
<1> HIDE DEF g
<1>3. PICK f : /\ FlattenSeq(g) = f[m]
               /\ \A i \in 1..m : f[i] = IF i = 1 THEN g[i] ELSE f[i - 1] \o g[i]
    BY <1>1, <1>2, FlattenIs
<1> DEFINE IsUpTo(i) == f[i] \in Seq(S) /\ Len(f[i]) = 2 * i /\ FieldsAt(f[i], 0, fields, i)
           G == {i \in Nat : i \in 1..m => IsUpTo(i)}
<1> HIDE DEF m
<1>4. 0 \in G
    OBVIOUS
<1>5. ASSUME NEW i \in Nat, i \in G PROVE i + 1 \in G
    <2>1. SUFFICES ASSUME i + 1 \in 1..m PROVE IsUpTo(i + 1)
        OBVIOUS
    <2>2. g[i + 1] = <<fields[i + 1], Eol>> /\ fields[i + 1] \in S
        BY <1>1, <1>2, <2>1
    <2>3. CASE i = 0
        <3>1. f[1] = <<fields[1], Eol>> /\ i + 1 = 1
            BY <1>3, <2>1, <2>2, <2>3
        <3>2. <<fields[1], Eol>> \in Seq(S) /\ Len(<<fields[1], Eol>>) = 2
            BY <2>2, <2>3
        <3>3. \A j \in 1..1 : j = 1 /\ 0 + (2 * j - 1) = 1 /\ 0 + 2 * j = 2
            OBVIOUS
        <3>4. <<fields[1], Eol>>[1] = fields[1] /\ <<fields[1], Eol>>[2] = Eol
            OBVIOUS
        <3>5. FieldsAt(f[1], 0, fields, 1)
            BY <3>1, <3>3, <3>4 DEF FieldsAt
        <3>6. f[1] \in Seq(S) /\ Len(f[1]) = 2 * 1
            BY <3>1, <3>2
        <3> HIDE DEF IsUpTo
        <3>7. IsUpTo(1)
            BY <3>5, <3>6 DEF IsUpTo
        <3>8. QED BY <3>1, <3>7
    <2>4. CASE i # 0
        <3> DEFINE x == f[i]
                   y == fields[i + 1]
                   e == Eol
        <3>1. i \in 1..m /\ i + 1 # 1 /\ (i + 1) - 1 = i
            BY <1>1, <2>1, <2>4
        <3>2. x \in Seq(S) /\ Len(x) = 2 * i /\ FieldsAt(x, 0, fields, i)
            BY <1>5, <3>1
        <3>3. f[i + 1] = x \o <<y, e>>
            BY <1>3, <2>1, <2>2, <3>1
        <3>4. x \in Seq(S) /\ y \in S /\ e \in S
            BY <2>2, <3>2
        <3> HIDE DEF x, y, e
        <3> DEFINE u == x \o <<y, e>>
        <3>5. /\ u \in Seq(S) /\ Len(u) = Len(x) + 2
              /\ \A j \in 1..Len(x) : u[j] = x[j]
              /\ u[Len(x) + 1] = y /\ u[Len(x) + 2] = e
            BY <3>4, TwoAfter
        <3> HIDE DEF u
        <3>6. FieldsAt(u, 0, fields, i + 1)
            <4>1. SUFFICES ASSUME NEW j \in 1..(i + 1)
                           PROVE  u[0 + (2 * j - 1)] = fields[j] /\ u[0 + 2 * j] = Eol
                BY DEF FieldsAt
            <4>2. CASE j = i + 1
                <5>1. 0 + (2 * j - 1) = Len(x) + 1 /\ 0 + 2 * j = Len(x) + 2
                    BY <3>2, <4>2
                <5>2. QED BY <3>5, <4>2, <5>1 DEF y, e
            <4>3. CASE j # i + 1
                <5>1. j \in 1..i /\ 0 + (2 * j - 1) \in 1..Len(x) /\ 0 + 2 * j \in 1..Len(x)
                    BY <3>2, <4>3
                <5>2. x[0 + (2 * j - 1)] = fields[j] /\ x[0 + 2 * j] = Eol
                    BY <3>2, <5>1 DEF FieldsAt
                <5>3. QED BY <3>5, <5>1, <5>2
            <4>4. QED BY <4>2, <4>3
        <3>7. Len(u) = 2 * (i + 1)
            BY <3>2, <3>5
        <3>8. f[i + 1] = u
            BY <3>3 DEF u
        <3>9. QED BY <3>5, <3>6, <3>7, <3>8
    <2>5. QED BY <2>3, <2>4
<1>6. m \in G
    <2> HIDE DEF G
    <2>1. \A i \in Nat : i \in G
        BY <1>4, <1>5, Induction
    <2>2. QED BY <1>1, <2>1
<1>7. IsUpTo(m)
    <2>1. m \in 1..m
        BY <1>1
    <2>2. QED BY <1>6, <2>1
<1>8. QED BY <1>3, <1>7 DEF g, m

\* A status line, fields and a blank line at the beginning of a text.
HeadAt(x, code, fields) ==
    /\ x[1] = Status(code) /\ x[2] = Eol
    /\ FieldsAt(x, 2, fields, Len(fields))
    /\ x[2 * Len(fields) + 3] = Eol

(* The head of a response.                                                 *)
LEMMA HeadIs ==
    ASSUME NEW S, Eol \in S, NEW code, Status(code) \in S, NEW fields \in Seq(S), fields # <<>>
    PROVE  /\ ResponseHead(code, fields) \in Seq(S)
           /\ Len(ResponseHead(code, fields)) = 2 * Len(fields) + 3
           /\ HeadAt(ResponseHead(code, fields), code, fields)
<1> DEFINE e == Eol
           b == Status(code)
           m == Len(fields)
           l == FlattenSeq(FieldLines(fields))
           a == <<b, e>>
           x == a \o l
           z == <<e>>
           h == x \o z
<1>1. e \in S /\ b \in S /\ m \in Nat \ {0}
    BY EmptySeq, LenProperties
<1>2. l \in Seq(S) /\ Len(l) = 2 * m /\ FieldsAt(l, 0, fields, m)
    BY LinesOfFields
<1>3. ResponseHead(code, fields) = h
    BY DEF ResponseHead, FieldLines
<1> HIDE DEF l, m, b, e
<1>4. a \in Seq(S) /\ Len(a) = 2 /\ a[1] = b /\ a[2] = e /\ z \in Seq(S) /\ Len(z) = 1 /\ z[1] = e
    BY <1>1
<1> HIDE DEF a, z
<1>5. /\ x \in Seq(S) /\ Len(x) = Len(a) + Len(l)
      /\ \A i \in 1..Len(a) : x[i] = a[i]
      /\ StandsFrom(x, Len(a), l)
    BY <1>2, <1>4, JoinedTexts
<1> HIDE DEF x
<1>6. /\ h \in Seq(S) /\ Len(h) = Len(x) + Len(z)
      /\ \A i \in 1..Len(x) : h[i] = x[i]
      /\ StandsFrom(h, Len(x), z)
    BY <1>4, <1>5, JoinedTexts
<1> HIDE DEF h
<1>7. Len(x) = 2 + 2 * m /\ Len(h) = 2 * m + 3
    BY <1>1, <1>2, <1>4, <1>5, <1>6
<1>8. h[1] = b /\ h[2] = e
    <2>1. 1 \in 1..Len(a) /\ 2 \in 1..Len(a) /\ 1 \in 1..Len(x) /\ 2 \in 1..Len(x)
        BY <1>1, <1>4, <1>7
    <2>2. QED BY <1>4, <1>5, <1>6, <2>1
<1>9. h[2 * m + 3] = e
    <2>1. 1 \in 1..Len(z) /\ Len(x) + 1 = 2 * m + 3
        BY <1>1, <1>4, <1>7
    <2>2. h[Len(x) + 1] = z[1]
        BY <1>6, <2>1 DEF StandsFrom
    <2>3. QED BY <1>4, <2>1, <2>2
<1>10. FieldsAt(h, 2, fields, m)
    <2>1. SUFFICES ASSUME NEW j \in 1..m
                   PROVE  h[2 + (2 * j - 1)] = fields[j] /\ h[2 + 2 * j] = Eol
        BY DEF FieldsAt
    <2>2. /\ 2 * j - 1 \in 1..Len(l) /\ 2 * j \in 1..Len(l)
          /\ 2 + (2 * j - 1) \in 1..Len(x) /\ 2 + 2 * j \in 1..Len(x)
          /\ 0 + (2 * j - 1) = 2 * j - 1 /\ 0 + 2 * j = 2 * j
        BY <1>1, <1>2, <1>7
    <2>3. l[2 * j - 1] = fields[j] /\ l[2 * j] = Eol
        BY <1>2, <2>2 DEF FieldsAt
    <2>4. x[2 + (2 * j - 1)] = l[2 * j - 1] /\ x[2 + 2 * j] = l[2 * j]
        BY <1>4, <1>5, <2>2 DEF StandsFrom
    <2>5. h[2 + (2 * j - 1)] = x[2 + (2 * j - 1)] /\ h[2 + 2 * j] = x[2 + 2 * j]
        BY <1>6, <2>2
    <2>6. QED BY <2>3, <2>4, <2>5
<1>11. HeadAt(h, code, fields)
    BY <1>8, <1>9, <1>10 DEF HeadAt, b, e, m
<1>12. QED BY <1>3, <1>6, <1>7, <1>11 DEF m

\* The first of the fields with the name.
FirstField(fields, name, c) ==
    /\ c \in 1..Len(fields) /\ fields[c].line = name
    /\ \A i \in 1..(c - 1) : fields[i].line # name

(* A field stands at an odd place of its head.                             *)
LEMMA FieldStandsAt ==
    ASSUME NEW S, NEW fields \in Seq(S), \A i \in 1..Len(fields) : fields[i] # Eol,
           NEW code, NEW x, HeadAt(x, code, fields),
           NEW name, name # "status", NEW c, FirstField(fields, name, c)
    PROVE  /\ 2 * c + 1 \in 1..(2 * Len(fields) + 3)
           /\ FieldStands(x, 1, 2 * Len(fields) + 3, name, 2 * c + 1)
           /\ x[2 * c + 1] = fields[c]
<1> DEFINE m == Len(fields)
<1>1. m \in Nat /\ c \in 1..m /\ c \in Nat
    BY LenProperties DEF FirstField
<1>2. \A j \in 1..m : x[2 * j + 1] = fields[j] /\ x[2 * j + 2] = Eol
    <2>1. TAKE j \in 1..m
    <2>2. 2 + (2 * j - 1) = 2 * j + 1 /\ 2 + 2 * j = 2 * j + 2
        OBVIOUS
    <2>3. QED BY <2>2 DEF HeadAt, FieldsAt
<1>3. 2 * c + 1 \in 1..(2 * m + 3) /\ x[2 * c + 1] = fields[c] /\ fields[c].line = name
      /\ fields[c] # Eol
    BY <1>1, <1>2 DEF FirstField
<1>4. ASSUME NEW i \in 1..((2 * c + 1) - 1) PROVE x[i] = Eol \/ x[i].line # name
    <2>0. i \in Nat /\ i >= 1
        BY <1>1
    <2>1. PICK j \in Nat : i = 2 * j \/ i = 2 * j + 1
        BY <2>0, EvenOrOdd
    <2>2. CASE i = 1
        <3>1. x[1].line = "status"
            BY DEF HeadAt, Status, Unit
        <3>2. QED BY <2>2, <3>1
    <2>3. CASE i = 2
        BY <2>3 DEF HeadAt
    <2>4. CASE i > 2 /\ i = 2 * j
        <3>1. j - 1 \in 1..m /\ 2 * (j - 1) + 2 = i
            BY <1>1, <2>4
        <3>2. QED BY <1>2, <3>1
    <2>5. CASE i > 2 /\ i = 2 * j + 1
        <3>1. j \in 1..m /\ j \in 1..(c - 1)
            BY <1>1, <2>5
        <3>2. QED BY <1>2, <2>5, <3>1 DEF FirstField
    <2>6. i = 1 \/ i = 2 \/ i > 2
        BY <2>0
    <2>7. QED BY <2>1, <2>2, <2>3, <2>4, <2>5, <2>6
<1>5. QED BY <1>3, <1>4 DEF FieldStands

(* A head has one blank line, its last.                                    *)
LEMMA OneBlank ==
    ASSUME NEW S, NEW fields \in Seq(S), \A i \in 1..Len(fields) : fields[i] # Eol,
           fields # <<>>, NEW code, NEW x, HeadAt(x, code, fields)
    PROVE  /\ x[2 * Len(fields) + 2] = Eol /\ x[2 * Len(fields) + 3] = Eol
           /\ \A i \in 2..(2 * Len(fields) + 2) : ~(x[i - 1] = Eol /\ x[i] = Eol)
<1> DEFINE m == Len(fields)
<1>1. m \in Nat \ {0}
    BY EmptySeq, LenProperties
<1>2. \A j \in 1..m : x[2 * j + 1] = fields[j] /\ x[2 * j + 2] = Eol
    <2>1. TAKE j \in 1..m
    <2>2. 2 + (2 * j - 1) = 2 * j + 1 /\ 2 + 2 * j = 2 * j + 2
        OBVIOUS
    <2>3. QED BY <2>2 DEF HeadAt, FieldsAt
<1>3. x[2 * m + 2] = Eol /\ x[2 * m + 3] = Eol
    <2>1. m \in 1..m
        BY <1>1
    <2>2. QED BY <1>2, <2>1 DEF HeadAt
<1>4. ASSUME NEW i \in 2..(2 * m + 2) PROVE ~(x[i - 1] = Eol /\ x[i] = Eol)
    <2>0. i \in Nat /\ i >= 2
        BY <1>1
    <2>1. PICK j \in Nat : i = 2 * j \/ i = 2 * j + 1
        BY <2>0, EvenOrOdd
    <2>2. CASE i = 2
        <3>1. x[1] = Status(code) /\ i - 1 = 1
            BY <2>2 DEF HeadAt
        <3>2. Status(code).line = "status" /\ Eol.line = "eol"
            BY DEF Status, Unit, Eol
        <3>3. Status(code) # Eol
            BY <3>2
        <3>4. QED BY <3>1, <3>3
    <2>3. CASE i > 2 /\ i = 2 * j
        <3>1. j - 1 \in 1..m /\ 2 * (j - 1) + 1 = i - 1
            BY <1>1, <2>3
        <3>2. QED BY <1>2, <3>1
    <2>4. CASE i > 2 /\ i = 2 * j + 1
        <3>1. j \in 1..m
            BY <1>1, <2>4
        <3>2. QED BY <1>2, <2>4, <3>1
    <2>5. i = 2 \/ i > 2
        BY <2>0
    <2>6. QED BY <2>1, <2>2, <2>3, <2>4, <2>5
<1>5. QED BY <1>3, <1>4

\* The text of a response with these fields.
ResponseText(fields, r) == ResponseHead(r.code, fields) \o r.body \o <<Eol, Eol>>

\* What the fields of a response say.
FieldsOf(fields, r) ==
    /\ fields \in Seq(AllUnits) /\ fields # <<>> /\ \A i \in 1..Len(fields) : fields[i] # Eol
    /\ \E c \in 1..Len(fields) :
         FirstField(fields, "Content-length", c) /\ fields[c].number = Len(r.body)
    /\ \E c \in 1..Len(fields) :
         FirstField(fields, "Connection", c) /\ fields[c].word = r.conn

(* A response stands at the beginning of its text.                         *)
LEMMA TextStands ==
    ASSUME NEW r \in Meanings, NEW fields, FieldsOf(fields, r)
    PROVE  LET z == 2 * Len(fields) + 3
           IN  /\ ResponseText(fields, r) \in Seq(AllUnits) /\ z \in Nat
               /\ Len(ResponseText(fields, r)) = z + Len(r.body) + 2
               /\ Stands(ResponseText(fields, r), 1, z, r)
<1> DEFINE m == Len(fields)
           z == 2 * m + 3
           l == Len(r.body)
           h == ResponseHead(r.code, fields)
           b == r.body
           e == <<Eol, Eol>>
           y == h \o b
           x == y \o e
           S == AllUnits
<1>1. /\ fields \in Seq(S) /\ fields # <<>> /\ \A i \in 1..Len(fields) : fields[i] # Eol
      /\ m \in Nat \ {0}
    <2>1. fields \in Seq(S) /\ fields # <<>> /\ \A i \in 1..Len(fields) : fields[i] # Eol
        BY DEF FieldsOf
    <2>2. QED BY <2>1, EmptySeq, LenProperties
<1>2. b \in Seq(S) /\ l \in Nat
    <2>1. b \in Seq(S)
        BY DEF Meanings
    <2>2. QED BY <2>1, LenProperties
<1>3. Eol \in S /\ Status(r.code) \in S
    <2>1. r.code = "200" \/ r.code = "400" \/ r.code = "404"
        BY DEF Meanings
    <2>2. Eol \in S /\ Status("200") \in S /\ Status("400") \in S /\ Status("404") \in S
        BY DEF AllUnits
    <2>3. QED BY <2>1, <2>2
<1>4. h \in Seq(S) /\ Len(h) = z /\ HeadAt(h, r.code, fields)
    BY <1>1, <1>3, HeadIs
<1>5. e \in Seq(S) /\ Len(e) = 2 /\ e[1] = Eol /\ e[2] = Eol
    BY <1>3
<1> HIDE DEF h, b, e, S
<1>6. /\ y \in Seq(S) /\ Len(y) = Len(h) + Len(b)
      /\ \A i \in 1..Len(h) : y[i] = h[i]
      /\ StandsFrom(y, Len(h), b)
    BY <1>2, <1>4, JoinedTexts
<1> HIDE DEF y
<1>7. /\ x \in Seq(S) /\ Len(x) = Len(y) + Len(e)
      /\ \A i \in 1..Len(y) : x[i] = y[i]
      /\ StandsFrom(x, Len(y), e)
    <2>1. y \in Seq(S) /\ e \in Seq(S)
        BY <1>5, <1>6
    <2>2. QED BY <2>1, JoinedTexts
<1>8. ResponseText(fields, r) = x
    BY DEF ResponseText, x, y, h, b, e
<1> HIDE DEF x
<1>9. /\ Len(y) = z + l /\ Len(x) = z + l + 2 /\ z \in Nat
      /\ \A i \in 1..z : i \in 1..Len(y) /\ i \in 1..Len(h)
    <2>1. Len(b) = l
        BY DEF b
    <2>2. Len(h) = z /\ Len(y) = Len(h) + Len(b) /\ Len(x) = Len(y) + 2 /\ z \in Nat
        BY <1>1, <1>4, <1>5, <1>6, <1>7
    <2> HIDE DEF l, z
    <2>3. QED BY <1>2, <2>1, <2>2
<1>10. \A i \in 1..z : x[i] = h[i]
    BY <1>6, <1>7, <1>9
<1>11. HeadAt(x, r.code, fields)
    <2>1. 1 \in 1..z /\ 2 \in 1..z /\ z \in 1..z /\ z = 2 * Len(fields) + 3
        BY <1>1, <1>9
    <2>2. \A j \in 1..m : 2 + (2 * j - 1) \in 1..z /\ 2 + 2 * j \in 1..z
        BY <1>1
    <2>3. FieldsAt(x, 2, fields, m)
        BY <1>4, <1>10, <2>2 DEF HeadAt, FieldsAt
    <2>4. x[1] = Status(r.code) /\ x[2] = Eol /\ x[z] = Eol
        BY <1>4, <1>10, <2>1 DEF HeadAt
    <2>5. QED BY <2>3, <2>4 DEF HeadAt
<1>12. /\ x[z - 1] = Eol /\ x[z] = Eol
       /\ \A i \in 2..(z - 1) : ~(x[i - 1] = Eol /\ x[i] = Eol)
    <2>1. z - 1 = 2 * m + 2
        BY <1>1
    <2>2. QED BY <1>1, <1>11, <2>1, OneBlank
<1>13. x[1] # Eol /\ x[1].word = r.code
    <2>1. x[1] = Status(r.code)
        BY <1>11 DEF HeadAt
    <2>2. Status(r.code).line = "status" /\ Eol.line = "eol" /\ Status(r.code).word = r.code
        BY DEF Status, Unit, Eol
    <2>3. Status(r.code) # Eol
        BY <2>2
    <2>4. QED BY <2>1, <2>2, <2>3
<1>14. \E c \in 1..z : FieldStands(x, 1, z, "Content-length", c) /\ x[c].number = l
    <2>1. PICK c \in 1..m : FirstField(fields, "Content-length", c) /\ fields[c].number = l
        BY DEF FieldsOf
    <2>2. "Content-length" # "status"
        OBVIOUS
    <2>3. /\ 2 * c + 1 \in 1..z /\ FieldStands(x, 1, z, "Content-length", 2 * c + 1)
          /\ x[2 * c + 1] = fields[c]
        <3>1. fields \in Seq(S) /\ \A i \in 1..Len(fields) : fields[i] # Eol
            BY <1>1
        <3>2. FirstField(fields, "Content-length", c)
            BY <2>1
        <3>3. QED BY <1>11, <2>2, <3>1, <3>2, FieldStandsAt, SMTT(60)
    <2>4. QED BY <2>1, <2>3
<1>15. \E c \in 1..z : FieldStands(x, 1, z, "Connection", c) /\ x[c].word = r.conn
    <2>1. PICK c \in 1..m : FirstField(fields, "Connection", c) /\ fields[c].word = r.conn
        BY DEF FieldsOf
    <2>2. "Connection" # "status"
        OBVIOUS
    <2>3. /\ 2 * c + 1 \in 1..z /\ FieldStands(x, 1, z, "Connection", 2 * c + 1)
          /\ x[2 * c + 1] = fields[c]
        <3>1. fields \in Seq(S) /\ \A i \in 1..Len(fields) : fields[i] # Eol
            BY <1>1
        <3>2. FirstField(fields, "Connection", c)
            BY <2>1
        <3>3. QED BY <1>11, <2>2, <3>1, <3>2, FieldStandsAt, SMTT(60)
    <2>4. QED BY <2>1, <2>3
<1>16. \A i \in 1..l : x[z + i] = r.body[i]
    <2>1. TAKE i \in 1..l
    <2>2. z + i \in 1..Len(y) /\ Len(h) + i = z + i /\ i \in 1..Len(b)
        BY <1>2, <1>4, <1>9 DEF b
    <2>3. x[z + i] = y[z + i] /\ y[Len(h) + i] = b[i]
        BY <1>6, <1>7, <2>2 DEF StandsFrom
    <2>4. QED BY <2>2, <2>3 DEF b
<1>17. x[z + l + 1] = Eol /\ x[z + l + 2] = Eol
    <2>1. 1 \in 1..Len(e) /\ 2 \in 1..Len(e)
        BY <1>5
    <2>2. x[Len(y) + 1] = e[1] /\ x[Len(y) + 2] = e[2]
        BY <1>7, <2>1 DEF StandsFrom
    <2>3. QED BY <1>5, <1>9, <2>2
<1>18. Stands(x, 1, z, r)
    <2>1. 1 + 1 < z /\ z + l + 2 <= Len(x) /\ 1 + 1 = 2
        BY <1>1, <1>2, <1>9
    <2> HIDE DEF z
    <2>2. QED BY <1>12, <1>13, <1>14, <1>15, <1>16, <1>17, <2>1 DEF Stands
<1>19. QED BY <1>7, <1>8, <1>9, <1>18 DEF S

(* A response that stands in a part stands in the whole.                   *)
LEMMA StandsInside ==
    ASSUME NEW x, NEW u, NEW o \in Nat, Len(x) \in Nat, Len(u) \in Nat, o + Len(x) <= Len(u),
           StandsFrom(u, o, x), NEW r, Len(r.body) \in Nat,
           NEW a \in Nat \ {0}, NEW z \in Nat, Stands(x, a, z, r)
    PROVE  Stands(u, o + a, o + z, r)
<1> DEFINE l == Len(r.body)
<1>1. a + 1 < z /\ z + l + 2 <= Len(x)
    BY DEF Stands
<1>2. \A i \in 1..(z + l + 2) : u[o + i] = x[i]
    BY <1>1 DEF StandsFrom
<1>3. u[o + a] = x[a] /\ u[o + z] = x[z] /\ u[(o + z) - 1] = x[z - 1]
    <2>1. /\ a \in 1..(z + l + 2) /\ z \in 1..(z + l + 2) /\ z - 1 \in 1..(z + l + 2)
          /\ (o + z) - 1 = o + (z - 1)
        BY <1>1
    <2>2. QED BY <1>2, <2>1
<1>4. \A i \in ((o + a) + 1)..((o + z) - 1) : ~(u[i - 1] = Eol /\ u[i] = Eol)
    <2>1. TAKE i \in ((o + a) + 1)..((o + z) - 1)
    <2>2. /\ i - o \in (a + 1)..(z - 1) /\ i - o \in 1..(z + l + 2)
          /\ (i - o) - 1 \in 1..(z + l + 2) /\ o + (i - o) = i /\ o + ((i - o) - 1) = i - 1
        BY <1>1
    <2>3. u[i] = x[i - o] /\ u[i - 1] = x[(i - o) - 1]
        <3>1. u[o + (i - o)] = x[i - o] /\ u[o + ((i - o) - 1)] = x[(i - o) - 1]
            BY <1>2, <2>2
        <3>2. QED BY <2>2, <3>1
    <2>4. QED BY <2>2, <2>3 DEF Stands
<1>5. ASSUME NEW name, NEW c \in a..z, FieldStands(x, a, z, name, c)
      PROVE  /\ o + c \in (o + a)..(o + z) /\ u[o + c] = x[c]
             /\ FieldStands(u, o + a, o + z, name, o + c)
    <2>1. c \in 1..(z + l + 2) /\ o + c \in (o + a)..(o + z) /\ c \in Nat
        BY <1>1
    <2>2. u[o + c] = x[c]
        BY <1>2, <2>1
    <2>3. \A i \in (o + a)..((o + c) - 1) : u[i] = Eol \/ u[i].line # name
        <3>1. TAKE i \in (o + a)..((o + c) - 1)
        <3>2. i - o \in a..(c - 1) /\ i - o \in 1..(z + l + 2) /\ o + (i - o) = i
            BY <1>1, <2>1
        <3>3. u[o + (i - o)] = x[i - o]
            BY <1>2, <3>2
        <3>4. x[i - o] = Eol \/ x[i - o].line # name
            BY <1>5, <3>2 DEF FieldStands
        <3>5. u[i] = x[i - o]
            BY <3>2, <3>3
        <3>6. QED BY <3>4, <3>5
    <2>4. QED BY <1>5, <2>1, <2>2, <2>3 DEF FieldStands
<1>6. \E c \in (o + a)..(o + z) :
        FieldStands(u, o + a, o + z, "Content-length", c) /\ u[c].number = l
    <2>1. PICK c \in a..z : FieldStands(x, a, z, "Content-length", c) /\ x[c].number = l
        BY DEF Stands
    <2>2. QED BY <1>5, <2>1
<1>7. \E c \in (o + a)..(o + z) :
        FieldStands(u, o + a, o + z, "Connection", c) /\ u[c].word = r.conn
    <2>1. PICK c \in a..z : FieldStands(x, a, z, "Connection", c) /\ x[c].word = r.conn
        BY DEF Stands
    <2>2. QED BY <1>5, <2>1
<1>8. \A i \in 1..l : u[(o + z) + i] = r.body[i]
    <2>1. TAKE i \in 1..l
    <2>2. z + i \in 1..(z + l + 2) /\ (o + z) + i = o + (z + i)
        <3>1. l \in Nat
            OBVIOUS
        <3> HIDE DEF l
        <3>2. QED BY <3>1
    <2>3. u[o + (z + i)] = x[z + i] /\ x[z + i] = r.body[i]
        BY <1>2, <2>2 DEF Stands
    <2>4. QED BY <2>2, <2>3
<1>9. u[(o + z) + l + 1] = Eol /\ u[(o + z) + l + 2] = Eol
    <2>1. /\ z + l + 1 \in 1..(z + l + 2) /\ z + l + 2 \in 1..(z + l + 2)
          /\ (o + z) + l + 1 = o + (z + l + 1) /\ (o + z) + l + 2 = o + (z + l + 2)
        <3>1. l \in Nat
            OBVIOUS
        <3> HIDE DEF l
        <3>2. QED BY <3>1
    <2>2. x[z + l + 1] = Eol /\ x[z + l + 2] = Eol
        BY DEF Stands
    <2>3. u[o + (z + l + 1)] = Eol /\ u[o + (z + l + 2)] = Eol
        BY <1>2, <2>1, <2>2
    <2>4. QED BY <2>1, <2>3
<1>10. (o + a) + 1 < o + z /\ (o + z) + l + 2 <= Len(u)
    <2>1. l \in Nat
        OBVIOUS
    <2> HIDE DEF l
    <2>2. QED BY <1>1, <2>1
<1>11. x[a] # Eol /\ x[a].word = r.code /\ x[z - 1] = Eol /\ x[z] = Eol
    BY DEF Stands
<1>12. QED BY <1>3, <1>4, <1>6, <1>7, <1>8, <1>9, <1>10, <1>11 DEF Stands

(* The next response stands behind the others.                             *)
LEMMA LaidNext ==
    ASSUME NEW s \in Seq(AllUnits), NEW ms \in Seq(Meanings), NEW start, Laid(s, ms, start),
           NEW r \in Meanings, NEW x \in Seq(AllUnits), NEW z \in Nat,
           Stands(x, 1, z, r), Len(x) = z + Len(r.body) + 2
    PROVE  \E more : Laid(s \o x, Append(ms, r), more)
<1> DEFINE K == Len(ms)
           u == s \o x
           ns == Append(ms, r)
           more == [k \in 1..(K + 2) |-> IF k = K + 2 THEN Len(u) + 1 ELSE start[k]]
<1>1. /\ K \in Nat /\ start \in [1..(K + 1) -> Nat \ {0}]
      /\ start[1] = 1 /\ start[K + 1] = Len(s) + 1
    BY LenProperties DEF Laid
<1>2. /\ u \in Seq(AllUnits) /\ Len(s) \in Nat /\ Len(x) \in Nat
      /\ Len(u) = Len(s) + Len(x)
      /\ \A i \in 1..Len(s) : u[i] = s[i]
      /\ StandsFrom(u, Len(s), x)
    BY JoinedTexts
<1>3. /\ Len(ns) = K + 1 /\ ns[K + 1] = r /\ \A k \in 1..K : ns[k] = ms[k]
    BY <1>1, AppendProperties
<1> HIDE DEF u, ns
<1>4. more \in [1..(Len(ns) + 1) -> Nat \ {0}]
    <2>1. Len(ns) + 1 = K + 2 /\ Len(u) + 1 \in Nat \ {0}
        BY <1>1, <1>2, <1>3
    <2>2. ASSUME NEW k \in 1..(K + 2), k # K + 2
          PROVE  start[k] \in Nat \ {0}
        <3>1. k \in 1..(K + 1)
            BY <1>1, <2>2
        <3>2. QED BY <1>1, <3>1
    <2>3. more \in [1..(K + 2) -> Nat \ {0}]
        BY <2>1, <2>2
    <2>4. QED BY <2>1, <2>3
<1>5. /\ more[1] = 1 /\ more[K + 1] = Len(s) + 1 /\ more[K + 2] = Len(u) + 1
      /\ \A k \in 1..K : more[k] = start[k] /\ more[k + 1] = start[k + 1]
    BY <1>1
<1> HIDE DEF more
<1>6. \A k \in 1..K : ms[k] \in Meanings /\ Len(ms[k].body) \in Nat
    <2>1. TAKE k \in 1..K
    <2>2. ms[k] \in Meanings
        BY ElementOfSeq
    <2>3. ms[k].body \in Seq(AllUnits)
        BY <2>2 DEF Meanings
    <2>4. QED BY <2>2, <2>3, LenProperties
<1>7. Len(r.body) \in Nat
    <2>1. r.body \in Seq(AllUnits)
        BY DEF Meanings
    <2>2. QED BY <2>1, LenProperties
<1>8. ASSUME NEW k \in 1..(K + 1)
      PROVE  \E y \in Nat : Stands(u, more[k], y, ns[k]) /\ more[k + 1] = y + Len(ns[k].body) + 3
    <2>1. CASE k \in 1..K
        <3>1. PICK y \in Nat : Stands(s, start[k], y, ms[k]) /\ start[k + 1] = y + Len(ms[k].body) + 3
            BY <2>1 DEF Laid
        <3>2. StandsFrom(u, 0, s)
            BY <1>2 DEF StandsFrom
        <3> DEFINE a == start[k]
                   m == ms[k]
        <3>3. a \in Nat \ {0} /\ 0 + a = a /\ 0 + y = y /\ Len(m.body) \in Nat
              /\ 0 + Len(s) <= Len(u) /\ Len(u) \in Nat
            BY <1>1, <1>2, <1>6, <2>1
        <3>4. Stands(s, a, y, m)
            BY <3>1
        <3> HIDE DEF a, m
        <3>5. Stands(u, 0 + a, 0 + y, m)
            BY <1>2, <3>2, <3>3, <3>4, StandsInside
        <3>6. Stands(u, a, y, m)
            BY <3>3, <3>5
        <3>7. QED BY <1>3, <1>5, <2>1, <3>1, <3>6 DEF a, m
    <2>2. CASE k = K + 1
        <3> DEFINE o == Len(s)
        <3>1. o \in Nat /\ o + Len(x) <= Len(u) /\ Len(u) \in Nat
            BY <1>2
        <3>a. StandsFrom(u, o, x)
            BY <1>2
        <3>b. 1 \in Nat \ {0} /\ Len(x) \in Nat
            BY <1>2
        <3> HIDE DEF o
        <3>2. Stands(u, o + 1, o + z, r)
            BY <1>7, <3>1, <3>a, <3>b, StandsInside
        <3>3. o + z \in Nat /\ more[k] = o + 1 /\ more[k + 1] = Len(u) + 1 /\ ns[k] = r
            <4>1. k + 1 = K + 2
                BY <1>1, <2>2
            <4>2. QED BY <1>3, <1>5, <2>2, <3>1, <4>1 DEF o
        <3>4. Len(u) + 1 = (o + z) + Len(r.body) + 3
            <4> DEFINE l == Len(r.body)
                       n == Len(u)
                       m == Len(x)
            <4>1. n = o + m /\ m = z + l + 2 /\ l \in Nat /\ m \in Nat
                BY <1>2, <1>7 DEF o
            <4> HIDE DEF l, n, m
            <4>2. n + 1 = (o + z) + l + 3
                BY <3>1, <4>1
            <4>3. QED BY <4>2 DEF l, n
        <3>5. QED BY <3>2, <3>3, <3>4
    <2>3. QED BY <1>1, <2>1, <2>2
<1>9. Laid(u, ns, more)
    <2>1. Len(ns) + 1 = K + 2
        BY <1>1, <1>3
    <2>2. QED BY <1>3, <1>4, <1>5, <1>8, <2>1 DEF Laid
<1>10. QED BY <1>9 DEF u, ns

-----------------------------------------------------------------------------
(* What follows the responses.                                             *)

(* Whatever the client reads, it reads a sequence.                         *)
LEMMA ReadingsAreSeqs ==
    ASSUME NEW t, Len(t) \in Nat, NEW f,
           \A p \in 1..(Len(t) + 1) : f[p] = Reading(t, f, p)
    PROVE  \E S : \A p \in 1..(Len(t) + 1) : f[p] \in Seq(S)
<1> DEFINE n == Len(t)
           MeantAt(i, b) == Meant(t[i].word,
                                  SubSeq(t, b + 1, b + FieldIn(t, i, b, "Content-length").number),
                                  FieldIn(t, i, b, "Connection").word)
           S == {MeantAt(i, b) : i \in 1..n, b \in 1..n}
           G == {m \in Nat : \A p \in 1..(n + 1) : n + 1 - p < m => f[p] \in Seq(S)}
<1>1. n \in Nat
    OBVIOUS
<1>2. 0 \in G
    <2>1. \A p \in 1..(n + 1) : ~(n + 1 - p < 0)
        BY <1>1
    <2>2. QED BY <2>1
<1>3. ASSUME NEW m \in Nat, m \in G PROVE m + 1 \in G
    <2>1. SUFFICES ASSUME NEW p \in 1..(n + 1), n + 1 - p < m + 1 PROVE f[p] \in Seq(S)
        OBVIOUS
    <2> DEFINE first == Min(Begins(t, p))
               blank == Min(Blanks(t, first))
               next == blank + FieldIn(t, first, blank, "Content-length").number + 1
               x == MeantAt(first, blank)
               conn == FieldIn(t, first, blank, "Connection").word
    <2>2. f[p] = Reading(t, f, p)
        OBVIOUS
    <2>3. CASE Begins(t, p) = {} \/ Blanks(t, first) = {} \/ next \notin (p + 1)..(n + 1)
        <3>1. f[p] = <<>>
            BY <2>2, <2>3 DEF Reading
        <3>2. QED BY <3>1
    <2>4. CASE Begins(t, p) # {} /\ Blanks(t, first) # {} /\ next \in (p + 1)..(n + 1)
        <3>1. first \in 1..n
            <4>1. Begins(t, p) \subseteq 1..n /\ Begins(t, p) \in SUBSET Nat
                BY <1>1 DEF Begins
            <4>2. QED BY <2>4, <4>1, Least
        <3> HIDE DEF first
        <3>2. blank \in 1..n
            <4>1. Blanks(t, first) \subseteq 1..n /\ Blanks(t, first) \in SUBSET Nat
                BY <1>1, <3>1 DEF Blanks
            <4>2. QED BY <2>4, <4>1, Least
        <3> HIDE DEF blank, MeantAt
        <3>3. x \in S
            BY <3>1, <3>2
        <3> HIDE DEF next, x, S
        <3>4. f[next] \in Seq(S)
            <4>1. next \in 1..(n + 1) /\ n + 1 - next < m
                BY <1>1, <2>1, <2>4
            <4>2. QED BY <1>3, <4>1
        <3>5. f[p] = <<x>> \o IF conn = "close" THEN <<>> ELSE f[next]
            BY <2>2, <2>4, Zenon DEF Reading, x, next, first, blank, MeantAt
        <3>6. (IF conn = "close" THEN <<>> ELSE f[next]) \in Seq(S)
            BY <3>4
        <3>7. QED BY <3>3, <3>5, <3>6, ConsFacts
    <2>5. QED BY <2>3, <2>4
<1> HIDE DEF G
<1>4. n + 1 \in G
    <2>1. \A m \in Nat : m \in G
        BY <1>2, <1>3, Induction
    <2>2. QED BY <1>1, <2>1
<1>5. \A p \in 1..(n + 1) : n + 1 - p < n + 1
    BY <1>1
<1>6. \A p \in 1..(n + 1) : f[p] \in Seq(S)
    <2> HIDE DEF S
    <2>1. QED BY <1>4, <1>5 DEF G
<1> HIDE DEF S, n
<1>7. QED BY <1>6, Zenon DEF n

\* From the k-th response on the client reads those that follow, and more.
ReadsOut(ms, read, k) ==
    /\ Len(ms) - k + 1 <= Len(read)
    /\ \A i \in 1..(Len(ms) - k + 1) : read[i] = ms[k + i - 1]

(* One more of the responses that are followed by others.                  *)
LEMMA ReadsOutBefore ==
    ASSUME NEW s \in Seq(AllUnits), NEW ms \in Seq(Meanings), NEW start, Laid(s, ms, start),
           NEW t \in Seq(AllUnits), Len(s) <= Len(t), \A i \in 1..Len(s) : t[i] = s[i],
           NEW k \in 1..Len(ms), ms[k].conn # "close",
           NEW S, NEW f, \A p \in 1..(Len(t) + 1) : f[p] = Reading(t, f, p) /\ f[p] \in Seq(S),
           ReadsOut(ms, f[ReadFrom(start, k + 1)], k + 1)
    PROVE  ReadsOut(ms, f[ReadFrom(start, k)], k)
<1> DEFINE p == ReadFrom(start, k)
           r == ms[k]
           l == Len(r.body)
           K == Len(ms)
           a == start[k]
<1>1. /\ K \in Nat /\ k \in 1..(K + 1) /\ k \in Nat \ {0} /\ r \in Meanings
      /\ Len(s) \in Nat /\ Len(t) \in Nat
    BY LenProperties, ElementOfSeq
<1>2. a \in Nat \ {0} /\ p \in Nat \ {0} /\ p <= a /\ \A i \in p..(a - 1) : s[i] = Eol
    BY <1>1, BetweenLaid
<1>3. PICK z \in Nat : Stands(s, a, z, r) /\ start[k + 1] = z + l + 3
    BY DEF Laid
<1>4. l \in Nat /\ z + l + 2 <= Len(s) /\ a + 1 < z
    <2>1. r.body \in Seq(AllUnits)
        BY <1>1 DEF Meanings
    <2>2. QED BY <1>3, <2>1, LenProperties DEF Stands
<1> HIDE DEF p, r, l, a
<1>5. Stands(t, a, z, r)
    <2>1. StandsFrom(t, 0, s)
        BY DEF StandsFrom
    <2>2. 0 + a = a /\ 0 + z = z /\ 0 + Len(s) <= Len(t) /\ 0 \in Nat /\ Len(r.body) \in Nat
        BY <1>1, <1>2, <1>4 DEF l
    <2>3. Stands(t, 0 + a, 0 + z, r)
        BY <1>1, <1>2, <1>3, <2>1, <2>2, StandsInside
    <2>4. QED BY <2>2, <2>3
<1>6. \A i \in p..(a - 1) : t[i] = Eol
    <2>1. TAKE i \in p..(a - 1)
    <2>2. i \in 1..Len(s)
        BY <1>1, <1>2, <1>4
    <2>3. QED BY <1>2, <2>2
<1>7. Received(t, t)
    BY <1>1 DEF Received
<1>8. IsRead(t, f, r, z + Len(r.body), Reading(t, f, p))
    BY <1>1, <1>2, <1>5, <1>6, <1>7, ReadsOne
<1> DEFINE more == f[z + l + 1]
<1>9. f[p] = <<r>> \o more
    <2>1. p \in 1..(Len(t) + 1) /\ z + l <= Len(t)
        BY <1>1, <1>2, <1>4
    <2>2. r.conn # "close"
        BY DEF r
    <2>3. QED BY <1>8, <2>1, <2>2 DEF IsRead, l
<1>10. more \in Seq(S) /\ ReadsOut(ms, more, k + 1)
    <2>1. k + 1 # 1 /\ start[k + 1] - 2 = z + l + 1 /\ z + l + 1 \in 1..(Len(t) + 1)
        BY <1>1, <1>3, <1>4
    <2>2. ReadFrom(start, k + 1) = z + l + 1
        BY <2>1 DEF ReadFrom
    <2>3. QED BY <2>1, <2>2
<1> HIDE DEF more
<1> DEFINE T == S \cup {r}
           read == <<r>> \o more
<1>11. r \in T /\ more \in Seq(T)
    <2>1. S \subseteq T
        OBVIOUS
    <2> HIDE DEF T
    <2>2. more \in Seq(T)
        BY <1>10, <2>1, SeqMonotonic
    <2>3. QED BY <2>2 DEF T
<1> HIDE DEF T
<1>12. /\ Len(read) = Len(more) + 1 /\ Len(more) \in Nat /\ read[1] = r
       /\ \A i \in 1..Len(more) : read[i + 1] = more[i]
    BY <1>11, ConsFacts
<1> HIDE DEF read
<1>13. K - k + 1 <= Len(read)
    BY <1>1, <1>10, <1>12 DEF ReadsOut
<1>14. ASSUME NEW i \in 1..(K - k + 1) PROVE read[i] = ms[k + i - 1]
    <2>1. CASE i = 1
        <3>1. k + i - 1 = k
            BY <1>1, <2>1
        <3>2. QED BY <1>12, <2>1, <3>1 DEF r
    <2>2. CASE i # 1
        <3> DEFINE j == i - 1
        <3>1. /\ j \in 1..(K - (k + 1) + 1) /\ j \in 1..Len(more) /\ j + 1 = i
              /\ (k + 1) + j - 1 = k + i - 1
            BY <1>1, <1>12, <1>13, <2>2
        <3> HIDE DEF j
        <3>2. read[j + 1] = more[j] /\ more[j] = ms[(k + 1) + j - 1]
            BY <1>10, <1>12, <3>1 DEF ReadsOut
        <3>3. QED BY <3>1, <3>2
    <2>3. QED BY <2>1, <2>2
<1>15. QED BY <1>9, <1>13, <1>14 DEF ReadsOut, p, read

(* Responses that keep the connection are read before whatever follows.    *)
LEMMA ReadsThrough ==
    ASSUME NEW s \in Seq(AllUnits), NEW ms \in Seq(Meanings), NEW start, Laid(s, ms, start),
           \A k \in 1..Len(ms) : ms[k].conn # "close",
           NEW t \in Seq(AllUnits), Len(s) <= Len(t), \A i \in 1..Len(s) : t[i] = s[i]
    PROVE  IsPrefix(ms, ClientReads(t))
<1> DEFINE K == Len(ms)
           Out(f, k) == ReadsOut(ms, f[ReadFrom(start, k)], k)
<1>1. K \in Nat /\ Len(s) \in Nat /\ Len(t) \in Nat
    BY LenProperties
<1>2. PICK f : ClientReads(t) = f[1] /\ \A p \in 1..(Len(t) + 1) : f[p] = Reading(t, f, p)
    BY <1>1, ClientReadsIs
<1>3. PICK S : \A p \in 1..(Len(t) + 1) : f[p] \in Seq(S)
    BY <1>1, <1>2, ReadingsAreSeqs
<1>4. \A p \in 1..(Len(t) + 1) : f[p] = Reading(t, f, p) /\ f[p] \in Seq(S)
    BY <1>2, <1>3
<1> DEFINE G == {m \in Nat : m <= K => Out(f, K + 1 - m)}
<1>5. 0 \in G
    <2> DEFINE p == ReadFrom(start, K + 1)
    <2>1. p \in 1..(Len(t) + 1)
        <3>1. K + 1 \in 1..(K + 1)
            BY <1>1
        <3>2. p \in Nat \ {0} /\ p <= start[K + 1] /\ start[K + 1] = Len(s) + 1
            BY <3>1, BetweenLaid DEF Laid
        <3> HIDE DEF p
        <3>3. QED BY <1>1, <3>2
    <2>2. Len(f[p]) \in Nat
        BY <1>3, <2>1, LenProperties
    <2> HIDE DEF p
    <2>3. K - (K + 1) + 1 = 0
        BY <1>1
    <2>4. ReadsOut(ms, f[p], K + 1)
        <3> DEFINE n == K - (K + 1) + 1
        <3>1. n <= Len(f[p]) /\ 1..n = {}
            BY <2>2, <2>3
        <3> HIDE DEF n
        <3>2. QED BY <3>1 DEF ReadsOut, n
    <2>5. K + 1 - 0 = K + 1
        BY <1>1
    <2>6. QED BY <2>4, <2>5 DEF p
<1>6. ASSUME NEW m \in Nat, m \in G PROVE m + 1 \in G
    <2>1. SUFFICES ASSUME m + 1 <= K PROVE Out(f, K + 1 - (m + 1))
        OBVIOUS
    <2> DEFINE k == K + 1 - (m + 1)
    <2>2. k \in 1..K /\ k + 1 = K + 1 - m /\ m <= K
        BY <1>1, <2>1
    <2>3. Out(f, k + 1)
        BY <1>6, <2>2
    <2> HIDE DEF k
    <2>4. Out(f, k)
        BY <1>4, <2>2, <2>3, ReadsOutBefore
    <2>5. QED BY <2>4 DEF k
<1>7. K \in G
    <2> HIDE DEF G
    <2>1. \A m \in Nat : m \in G
        BY <1>5, <1>6, Induction
    <2>2. QED BY <1>1, <2>1
<1>8. Out(f, 1)
    <2>1. K + 1 - K = 1 /\ K <= K
        BY <1>1
    <2>2. QED BY <1>7, <2>1
<1> DEFINE read == f[1]
<1>9. read \in Seq(S) /\ K <= Len(read) /\ \A i \in 1..K : read[i] = ms[i]
    <2>1. ReadFrom(start, 1) = 1 /\ 1 \in 1..(Len(t) + 1) /\ K - 1 + 1 = K
          /\ \A i \in 1..K : 1 + i - 1 = i
        BY <1>1 DEF ReadFrom
    <2>2. QED BY <1>3, <1>8, <2>1 DEF ReadsOut
<1> HIDE DEF read
<1> DEFINE q == SubSeq(read, 1, K)
           w == SubSeq(ms, 1, K)
<1>10. q = w
    <2> DEFINE T == S \cup Meanings
    <2>1. Len(read) \in Nat
        BY <1>9, LenProperties
    <2>2. 1 \in 1..(Len(read) + 1) /\ K \in (1 - 1)..Len(read) /\ K - 1 + 1 = K
          /\ 1 \in 1..(K + 1) /\ K \in (1 - 1)..K /\ \A i \in 1..K : 1 + i - 1 = i
        BY <1>1, <1>9, <2>1
    <2>3. q \in Seq(S) /\ Len(q) = K /\ \A i \in 1..K : q[i] = read[1 + i - 1]
        BY <1>9, <2>2, PartFacts
    <2>4. w \in Seq(Meanings) /\ Len(w) = K /\ \A i \in 1..K : w[i] = ms[1 + i - 1]
        BY <2>2, PartFacts
    <2> HIDE DEF q, w
    <2>5. S \subseteq T /\ Meanings \subseteq T
        OBVIOUS
    <2> HIDE DEF T
    <2>6. q \in Seq(T) /\ w \in Seq(T)
        BY <2>3, <2>4, <2>5, SeqMonotonic
    <2>7. \A i \in 1..Len(q) : q[i] = w[i]
        BY <1>9, <2>2, <2>3, <2>4
    <2>8. QED BY <2>3, <2>4, <2>6, <2>7, SeqEqual
<1>11. IsPrefix(ms, read)
    BY <1>9, <1>10 DEF IsPrefix, q, w
<1>12. QED BY <1>2, <1>11 DEF read

-----------------------------------------------------------------------------
(* The responses of the worker.                                            *)

\* A response that was cut, behind others that keep the connection.
CutInv ==
    \/ cut = <<>> /\ rest = <<>> /\ error = <<>>
    \/ /\ \A k \in 1..Len(sent) : sent[k].conn # "close"
       /\ error \in Seq(AllUnits)
       /\ \E r \in Meanings : \E fields :
            /\ FieldsOf(fields, r) /\ cut = <<r>>
            /\ \E n \in 0..Len(ResponseText(fields, r)) :
                 rest = SubSeq(ResponseText(fields, r), 1, n)

\* The stream consists of the responses that were written, one after another.
RespondInv ==
    /\ sent \in Seq(Meanings) /\ stream \in Seq(AllUnits) /\ ClosesLast(sent)
    /\ \E start : Laid(stream, sent, start)
    /\ CutInv

(* A connection without responses.                                         *)
LEMMA NoResponses == ResponseInit => RespondInv
<1>1. SUFFICES ASSUME ResponseInit PROVE RespondInv
    OBVIOUS
<1>2. sent = <<>> /\ stream = <<>>
    BY <1>1 DEF ResponseInit
<1>3. sent \in Seq(Meanings) /\ stream \in Seq(AllUnits) /\ Len(sent) = 0 /\ Len(stream) = 0
    BY <1>2
<1>4. ClosesLast(sent)
    BY <1>3 DEF ClosesLast
<1> DEFINE start == [k \in 1..1 |-> 1]
<1>5. start \in [1..(Len(sent) + 1) -> Nat \ {0}] /\ start[1] = 1
    BY <1>3
<1> HIDE DEF start
<1>6. Laid(stream, sent, start)
    BY <1>3, <1>5 DEF Laid
<1>7. CutInv
    BY <1>1 DEF ResponseInit, CutInv
<1>8. QED BY <1>3, <1>4, <1>6, <1>7 DEF RespondInv

(* In the loop every response has kept the connection.                     *)
LEMMA NoneCloses ==
    ASSUME RespondInv, InLoop
    PROVE  \A k \in 1..Len(sent) : sent[k].conn # "close"
<1>1. sent \in Seq(Meanings) /\ ClosesLast(sent) /\ (sent # <<>> => Last(sent).code = "200")
    BY DEF RespondInv, InLoop
<1>2. Len(sent) \in Nat
    BY <1>1, LenProperties
<1>3. SUFFICES ASSUME NEW k \in 1..Len(sent) PROVE sent[k].conn # "close"
    OBVIOUS
<1>4. CASE k = Len(sent)
    <2>1. sent # <<>>
        BY <1>1, <1>3, EmptySeq
    <2>2. sent[k].code = "200"
        BY <1>1, <1>4, <2>1 DEF Last
    <2>3. sent[k] \in Meanings
        BY <1>1, <1>3, ElementOfSeq
    <2>4. QED BY <2>2, <2>3 DEF Meanings
<1>5. CASE k # Len(sent)
    <2>1. k \in 1..(Len(sent) - 1)
        BY <1>2, <1>5
    <2>2. QED BY <1>1, <2>1 DEF ClosesLast
<1>6. QED BY <1>4, <1>5

(* One more response closes nothing but the last.                          *)
LEMMA ClosesAppended ==
    ASSUME NEW ms \in Seq(Meanings), \A k \in 1..Len(ms) : ms[k].conn # "close",
           NEW r \in Meanings
    PROVE  Append(ms, r) \in Seq(Meanings) /\ ClosesLast(Append(ms, r))
<1>1. /\ Append(ms, r) \in Seq(Meanings) /\ Len(Append(ms, r)) = Len(ms) + 1 /\ Len(ms) \in Nat
      /\ \A k \in 1..Len(ms) : Append(ms, r)[k] = ms[k]
    BY AppendProperties, LenProperties
<1>2. QED BY <1>1 DEF ClosesLast

(* Every response that is written whole keeps the stream in order.         *)
LEMMA WriteKeeps ==
    ASSUME RespondInv, NEW r \in Meanings, NEW fields, FieldsOf(fields, r),
           Write(r, ResponseText(fields, r))
    PROVE  RespondInv'
<1> DEFINE x == ResponseText(fields, r)
           z == 2 * Len(fields) + 3
           s == stream
           ms == sent
<1>1. x \in Seq(AllUnits) /\ z \in Nat /\ Stands(x, 1, z, r) /\ Len(x) = z + Len(r.body) + 2
    BY TextStands
<1>2. /\ ms \in Seq(Meanings) /\ s \in Seq(AllUnits) /\ ClosesLast(ms)
      /\ sent' = Append(ms, r) /\ stream' = s \o x
    BY DEF RespondInv, Write
<1>3. PICK start : Laid(s, ms, start)
    BY DEF RespondInv
<1> HIDE DEF x, z, s, ms
<1>4. \E more : Laid(s \o x, Append(ms, r), more)
    BY <1>1, <1>2, <1>3, LaidNext
<1>5. s \o x \in Seq(AllUnits)
    BY <1>1, <1>2, ConcatProperties
<1>6. Append(ms, r) \in Seq(Meanings) /\ ClosesLast(Append(ms, r))
    <2>1. InLoop
        BY DEF Write
    <2>2. \A k \in 1..Len(ms) : ms[k].conn # "close"
        BY <2>1, NoneCloses DEF ms
    <2>3. QED BY <1>2, <2>2, ClosesAppended
<1>7. cut = <<>> /\ rest = <<>> /\ error = <<>>
    <2>1. CutInv /\ cut = <<>>
        BY DEF RespondInv, Write, InLoop
    <2>2. \A x1 : <<x1>> # <<>>
        OBVIOUS
    <2>3. QED BY <2>1, <2>2 DEF CutInv
<1>8. CutInv'
    BY <1>7 DEF CutInv, Write
<1>9. QED BY <1>2, <1>4, <1>5, <1>6, <1>8 DEF RespondInv

(* The fields of the three responses.                                      *)
LEMMA FieldsOf200 ==
    ASSUME NEW body \in Seq(AllUnits), NEW r, r = Meant("200", body, "keep-alive")
    PROVE  /\ r \in Meanings
           /\ FieldsOf(<<ContentLength(Len(body)), Field("Connection", "keep-alive"),
                         Field("Content-Type", "text/html")>>, r)
<1> DEFINE f1 == ContentLength(Len(body))
           f2 == Field("Connection", "keep-alive")
           f3 == Field("Content-Type", "text/html")
           fields == <<f1, f2, f3>>
<1>1. r \in Meanings /\ r.body = body /\ r.conn = "keep-alive"
    BY DEF Meanings, Meant
<1>2. Len(body) \in Nat
    BY LenProperties
<1>3. f1 \in AllUnits /\ f2 \in AllUnits /\ f3 \in AllUnits
    BY <1>2 DEF AllUnits
<1>4. /\ f1.line = "Content-length" /\ f1.number = Len(body)
      /\ f2.line = "Connection" /\ f2.word = "keep-alive" /\ f3.line = "Content-Type"
      /\ Eol.line = "eol"
    BY DEF ContentLength, Field, Unit, Eol
<1>5. f1 # Eol /\ f2 # Eol /\ f3 # Eol
    BY <1>4
<1> HIDE DEF f1, f2, f3
<1>6. /\ fields \in Seq(AllUnits) /\ Len(fields) = 3 /\ fields # <<>>
      /\ fields[1] = f1 /\ fields[2] = f2 /\ fields[3] = f3
    BY <1>3
<1> HIDE DEF fields
<1>7. \A i \in 1..Len(fields) : fields[i] # Eol
    BY <1>5, <1>6
<1>8. FirstField(fields, "Content-length", 1) /\ fields[1].number = Len(body)
    BY <1>4, <1>6 DEF FirstField
<1>9. FirstField(fields, "Connection", 2) /\ fields[2].word = "keep-alive"
    BY <1>4, <1>6 DEF FirstField
<1>10. 1 \in 1..Len(fields) /\ 2 \in 1..Len(fields)
    BY <1>6
<1>11. FieldsOf(fields, r)
    BY <1>1, <1>6, <1>7, <1>8, <1>9, <1>10 DEF FieldsOf
<1>12. QED BY <1>1, <1>11 DEF fields, f1, f2, f3

(* The two of an error; its text is a part of the program.                 *)
LEMMA FieldsOf400 ==
    ASSUME NEW r, r = Meant("400", BadRequest, "close")
    PROVE  /\ r \in Meanings
           /\ FieldsOf(<<Field("Connection", "close"), ContentLength(11)>>, r)
<1> DEFINE f1 == Field("Connection", "close")
           f2 == ContentLength(11)
           fields == <<f1, f2>>
<1>1. BadRequest \in Seq(AllUnits) /\ Len(BadRequest) = 11
    <2>1. Text("c") \in AllUnits
        BY DEF AllUnits
    <2>2. QED BY <2>1 DEF BadRequest
<1>2. r \in Meanings /\ r.body = BadRequest /\ r.conn = "close"
    BY <1>1 DEF Meanings, Meant
<1>3. f1 \in AllUnits /\ f2 \in AllUnits
    BY DEF AllUnits
<1>4. /\ f2.line = "Content-length" /\ f2.number = 11
      /\ f1.line = "Connection" /\ f1.word = "close" /\ Eol.line = "eol"
    BY DEF ContentLength, Field, Unit, Eol
<1>5. f1 # Eol /\ f2 # Eol
    BY <1>4
<1> HIDE DEF f1, f2
<1>6. /\ fields \in Seq(AllUnits) /\ Len(fields) = 2 /\ fields # <<>>
      /\ fields[1] = f1 /\ fields[2] = f2
    BY <1>3
<1> HIDE DEF fields
<1>7. \A i \in 1..Len(fields) : fields[i] # Eol
    BY <1>5, <1>6
<1>8. FirstField(fields, "Content-length", 2) /\ fields[2].number = 11
    BY <1>4, <1>6 DEF FirstField
<1>9. FirstField(fields, "Connection", 1) /\ fields[1].word = "close"
    BY <1>4, <1>6 DEF FirstField
<1>10. 1 \in 1..Len(fields) /\ 2 \in 1..Len(fields)
    BY <1>6
<1>11. FieldsOf(fields, r)
    BY <1>1, <1>2, <1>6, <1>7, <1>8, <1>9, <1>10 DEF FieldsOf
<1>12. QED BY <1>2, <1>11 DEF fields, f1, f2

(* A file that is not there.                                               *)
LEMMA FieldsOf404 ==
    ASSUME NEW r, r = Meant("404", NotFound, "close")
    PROVE  /\ r \in Meanings
           /\ FieldsOf(<<Field("Content-Type", "text/html"), ContentLength(Len(NotFound)),
                         Field("Connection", "close")>>, r)
<1> DEFINE f1 == Field("Content-Type", "text/html")
           f2 == ContentLength(Len(NotFound))
           f3 == Field("Connection", "close")
           fields == <<f1, f2, f3>>
<1>1. NotFound \in Seq(AllUnits) /\ Len(NotFound) \in Nat
    <2>1. Text("html") \in AllUnits
        BY DEF AllUnits
    <2>2. QED BY <2>1 DEF NotFound
<1>2. r \in Meanings /\ r.body = NotFound /\ r.conn = "close"
    BY <1>1 DEF Meanings, Meant
<1>3. f1 \in AllUnits /\ f2 \in AllUnits /\ f3 \in AllUnits
    BY <1>1 DEF AllUnits
<1>4. /\ f2.line = "Content-length" /\ f2.number = Len(NotFound)
      /\ f3.line = "Connection" /\ f3.word = "close" /\ f1.line = "Content-Type"
      /\ Eol.line = "eol"
    BY DEF ContentLength, Field, Unit, Eol
<1>5. f1 # Eol /\ f2 # Eol /\ f3 # Eol
    BY <1>4
<1> HIDE DEF f1, f2, f3
<1>6. /\ fields \in Seq(AllUnits) /\ Len(fields) = 3 /\ fields # <<>>
      /\ fields[1] = f1 /\ fields[2] = f2 /\ fields[3] = f3
    BY <1>3
<1> HIDE DEF fields
<1>7. \A i \in 1..Len(fields) : fields[i] # Eol
    BY <1>5, <1>6
<1>8. FirstField(fields, "Content-length", 2) /\ fields[2].number = Len(NotFound)
    BY <1>4, <1>6 DEF FirstField
<1>9. FirstField(fields, "Connection", 3) /\ fields[3].word = "close"
    BY <1>4, <1>6 DEF FirstField
<1>10. 2 \in 1..Len(fields) /\ 3 \in 1..Len(fields)
    BY <1>6
<1>11. FieldsOf(fields, r)
    BY <1>2, <1>6, <1>7, <1>8, <1>9, <1>10 DEF FieldsOf
<1>12. QED BY <1>2, <1>11 DEF fields, f1, f2, f3

(* A file is put together from units.                                      *)
LEMMA FilesAreUnits == \A body \in BoundedSeq(BodyUnits, MaxBody) : body \in Seq(AllUnits)
<1>1. TAKE body \in BoundedSeq(BodyUnits, MaxBody)
<1>2. body \in Seq(BodyUnits)
    BY ResponseAssumption DEF BoundedSeq, SeqOf
<1>3. BodyUnits \subseteq AllUnits
    BY DEF AllUnits
<1>4. QED BY <1>2, <1>3, SeqMonotonic

(* Whatever the worker responds, the stream stays in order.                *)
LEMMA RespondKeeps == RespondInv /\ Respond => RespondInv'
<1>1. CASE RespondInv /\ Respond200
    <2>1. PICK body \in BoundedSeq(BodyUnits, MaxBody) :
            Write(Meant("200", body, "keep-alive"), Create200(body, "text/html", TRUE))
        BY <1>1 DEF Respond200
    <2> DEFINE r == Meant("200", body, "keep-alive")
               fields == <<ContentLength(Len(body)), Field("Connection", "keep-alive"),
                           Field("Content-Type", "text/html")>>
    <2>2. body \in Seq(AllUnits)
        BY FilesAreUnits
    <2>3. r \in Meanings /\ FieldsOf(fields, r)
        BY <2>2, FieldsOf200
    <2>4. Create200(body, "text/html", TRUE) = ResponseText(fields, r)
        BY DEF Create200, ResponseText, getKeepAliveString, Meant
    <2> HIDE DEF r, fields
    <2>5. Write(r, ResponseText(fields, r))
        BY <2>1, <2>4 DEF r
    <2>6. QED BY <1>1, <2>3, <2>5, WriteKeeps
<1>2. CASE RespondInv /\ Respond400
    <2> DEFINE r == Meant("400", BadRequest, "close")
               fields == <<Field("Connection", "close"), ContentLength(11)>>
    <2>1. r \in Meanings /\ FieldsOf(fields, r)
        BY FieldsOf400
    <2>2. Create400(FALSE) = ResponseText(fields, r)
        BY DEF Create400, ResponseText, getKeepAliveString, Meant
    <2>3. Write(r, Create400(FALSE))
        BY <1>2 DEF Respond400
    <2> HIDE DEF r, fields
    <2>4. Write(r, ResponseText(fields, r))
        BY <2>2, <2>3
    <2>5. QED BY <1>2, <2>1, <2>4, WriteKeeps
<1>3. CASE RespondInv /\ Respond404
    <2> DEFINE r == Meant("404", NotFound, "close")
               fields == <<Field("Content-Type", "text/html"), ContentLength(Len(NotFound)),
                           Field("Connection", "close")>>
    <2>1. r \in Meanings /\ FieldsOf(fields, r)
        BY FieldsOf404
    <2>2. Create404(FALSE) = ResponseText(fields, r)
        BY DEF Create404, ResponseText, getKeepAliveString, Meant
    <2>3. Write(r, Create404(FALSE))
        BY <1>3 DEF Respond404
    <2> HIDE DEF r, fields
    <2>4. Write(r, ResponseText(fields, r))
        BY <2>2, <2>3
    <2>5. QED BY <1>3, <2>1, <2>4, WriteKeeps
<1>4. CASE RespondInv /\ Respond200Fails
    <2>1. PICK body \in BoundedSeq(BodyUnits, MaxBody) :
            LET answer == Create200(body, "text/html", TRUE)
                error404 == Create404(FALSE)
            IN  /\ InLoop /\ Len(sent) + 1 < MaxResponses
                /\ cut' = <<Meant("200", body, "keep-alive")>>
                /\ \E n \in 1..Len(answer), m \in 0..Len(error404) :
                     /\ n = Len(answer) => m = 0
                     /\ rest' = SubSeq(answer, 1, n) /\ error' = SubSeq(error404, 1, m)
                /\ UNCHANGED <<sent, stream>>
        BY <1>4 DEF Respond200Fails
    <2> DEFINE r == Meant("200", body, "keep-alive")
               fields == <<ContentLength(Len(body)), Field("Connection", "keep-alive"),
                           Field("Content-Type", "text/html")>>
               e == Create404(FALSE)
               x == ResponseText(fields, r)
    <2>2. body \in Seq(AllUnits)
        BY FilesAreUnits
    <2>3. r \in Meanings /\ FieldsOf(fields, r)
        BY <2>2, FieldsOf200
    <2>4. Create200(body, "text/html", TRUE) = ResponseText(fields, r)
        BY DEF Create200, ResponseText, getKeepAliveString, Meant
    <2>5. e \in Seq(AllUnits)
        <3> DEFINE q == Meant("404", NotFound, "close")
                   its == <<Field("Content-Type", "text/html"), ContentLength(Len(NotFound)),
                            Field("Connection", "close")>>
        <3>1. q \in Meanings /\ FieldsOf(its, q)
            BY FieldsOf404
        <3>2. Create404(FALSE) = ResponseText(its, q)
            BY DEF Create404, ResponseText, getKeepAliveString, Meant
        <3> HIDE DEF q, its
        <3>3. QED BY <3>1, <3>2, TextStands
    <2> HIDE DEF r, fields, e
    <2>6. x \in Seq(AllUnits)
        BY <2>3, TextStands
    <2> HIDE DEF x
    <2>7. PICK n \in 1..Len(x), m \in 0..Len(e) : rest' = SubSeq(x, 1, n) /\ error' = SubSeq(e, 1, m)
        BY <2>1, <2>4 DEF x, e
    <2>8. /\ cut' = <<r>> /\ sent' = sent /\ stream' = stream
          /\ \A k \in 1..Len(sent) : sent[k].conn # "close"
        BY <1>4, <2>1, NoneCloses DEF r
    <2>9. error' \in Seq(AllUnits) /\ n \in 0..Len(x)
        <3>1. Len(e) \in Nat /\ Len(x) \in Nat
            BY <2>5, <2>6, LenProperties
        <3>2. 1 \in 1..(Len(e) + 1) /\ m \in (1 - 1)..Len(e) /\ n \in 0..Len(x)
            BY <3>1
        <3>3. SubSeq(e, 1, m) \in Seq(AllUnits)
            BY <2>5, <3>2, PartFacts
        <3>4. QED BY <2>7, <3>2, <3>3
    <2>10. CutInv'
        <3>1. \E k \in 0..Len(ResponseText(fields, r)) :
                rest' = SubSeq(ResponseText(fields, r), 1, k)
            BY <2>7, <2>9 DEF x
        <3>2. QED BY <2>3, <2>8, <2>9, <3>1 DEF CutInv
    <2>11. QED BY <1>4, <2>8, <2>10 DEF RespondInv
<1>5. QED BY <1>1, <1>2, <1>3, <1>4 DEF Respond

-----------------------------------------------------------------------------
(* The two readers.                                                        *)

(* A client understands whatever comes first of responses one after        *)
(* another.                                                                *)
LEMMA PartUnderstood ==
    ASSUME NEW s \in Seq(AllUnits), NEW ms \in Seq(Meanings), NEW start, Laid(s, ms, start),
           ClosesLast(ms), NEW t, Received(t, s)
    PROVE  IsPrefix(ClientReads(t), ms) /\ (Len(t) = Len(s) => ClientReads(t) = ms)
<1>1. PICK j \in 0..Len(ms) : ClientReads(t) = SubSeq(ms, 1, j) /\ (Len(t) = Len(s) => j = Len(ms))
    BY ReadsAll
<1>2. QED BY <1>1, FirstOnesArePrefix

(* The first units of a stream have been received.                         *)
LEMMA FirstReceived ==
    ASSUME NEW s \in Seq(AllUnits), NEW n \in 0..Len(s)
    PROVE  Received(SubSeq(s, 1, n), s) /\ Len(SubSeq(s, 1, n)) = n
<1> DEFINE t == SubSeq(s, 1, n)
<1>1. Len(s) \in Nat /\ n \in Nat /\ n <= Len(s) /\ 1 \in 1..(Len(s) + 1)
      /\ n \in (1 - 1)..Len(s) /\ n - 1 + 1 = n
    BY LenProperties
<1>2. t \in Seq(AllUnits) /\ Len(t) = n /\ \A i \in 1..n : t[i] = s[1 + i - 1]
    BY <1>1, PartFacts
<1> HIDE DEF t
<1>3. Received(t, s)
    BY <1>1, <1>2 DEF Received
<1>4. QED BY <1>2, <1>3 DEF t

(* With no response cut, the client understands all of the stream and      *)
(* whatever comes first of it.                                             *)
LEMMA WholeUnderstood == RespondInv /\ cut = <<>> => ClientReadsWhatWasMeant
<1>1. SUFFICES ASSUME RespondInv, cut = <<>> PROVE ClientReadsWhatWasMeant
    OBVIOUS
<1>2. sent \in Seq(Meanings) /\ stream \in Seq(AllUnits) /\ ClosesLast(sent)
    BY <1>1 DEF RespondInv
<1>3. PICK start : Laid(stream, sent, start)
    BY <1>1 DEF RespondInv
<1>4. rest = <<>> /\ error = <<>>
    <2>1. \A r : <<r>> # <<>>
        OBVIOUS
    <2>2. CutInv
        BY <1>1 DEF RespondInv
    <2>3. QED BY <1>1, <2>1, <2>2 DEF CutInv
<1>5. stream \o rest = stream /\ stream \o rest \o error = stream /\ sent \o cut = sent
    BY <1>1, <1>2, <1>4
<1>6. Len(stream) \in Nat /\ Len(sent) \in Nat
    BY <1>2, LenProperties
<1>7. ClientReads(stream) = sent
    <2>1. Received(stream, stream)
        BY <1>2, <1>6 DEF Received
    <2>2. QED BY <1>2, <1>3, <2>1, PartUnderstood
<1>8. ASSUME NEW n \in 0..Len(stream)
      PROVE  IsPrefix(ClientReads(SubSeq(stream, 1, n)), sent)
    BY <1>2, <1>3, FirstReceived, PartUnderstood
<1>9. IsPrefix(sent, sent)
    <2>1. Len(sent) \in 0..Len(sent)
        BY <1>6
    <2>2. QED BY <1>2, <2>1, FirstOnesArePrefix
<1>10. QED BY <1>5, <1>7, <1>8, <1>9 DEF ClientReadsWhatWasMeant

(* With a response cut, the client has none of it or all of it from its    *)
(* part, and those before it whatever follows.                             *)
LEMMA CutUnderstood == RespondInv /\ cut # <<>> => ClientReadsWhatWasMeant
<1>1. SUFFICES ASSUME RespondInv, cut # <<>> PROVE ClientReadsWhatWasMeant
    OBVIOUS
<1>2. sent \in Seq(Meanings) /\ stream \in Seq(AllUnits)
    BY <1>1 DEF RespondInv
<1>3. PICK start : Laid(stream, sent, start)
    BY <1>1 DEF RespondInv
<1>4. /\ \A k \in 1..Len(sent) : sent[k].conn # "close"
      /\ error \in Seq(AllUnits)
      /\ \E r \in Meanings : \E fields :
           /\ FieldsOf(fields, r) /\ cut = <<r>>
           /\ \E n \in 0..Len(ResponseText(fields, r)) :
                rest = SubSeq(ResponseText(fields, r), 1, n)
    BY <1>1 DEF RespondInv, CutInv
<1>response. PICK r \in Meanings : \E fields :
        /\ FieldsOf(fields, r) /\ cut = <<r>>
        /\ \E n \in 0..Len(ResponseText(fields, r)) :
             rest = SubSeq(ResponseText(fields, r), 1, n)
    BY <1>4
<1>5. PICK fields :
        /\ FieldsOf(fields, r) /\ cut = <<r>>
        /\ \E n \in 0..Len(ResponseText(fields, r)) :
             rest = SubSeq(ResponseText(fields, r), 1, n)
    BY <1>response
<1> DEFINE x == ResponseText(fields, r)
           z == 2 * Len(fields) + 3
           u == stream \o x
           v == stream \o rest
<1>6. x \in Seq(AllUnits) /\ z \in Nat /\ Stands(x, 1, z, r) /\ Len(x) = z + Len(r.body) + 2
    BY <1>5, TextStands
<1>7. PICK n \in 0..Len(x) : rest = SubSeq(x, 1, n)
    BY <1>5
<1> HIDE DEF x, z
<1>8. Received(rest, x) /\ rest \in Seq(AllUnits) /\ Len(rest) <= Len(x)
      /\ \A i \in 1..Len(rest) : rest[i] = x[i]
    <2>1. Received(rest, x)
        BY <1>6, <1>7, FirstReceived
    <2>2. QED BY <2>1 DEF Received
<1>9. PICK more : Laid(u, Append(sent, r), more)
    BY <1>2, <1>3, <1>6, LaidNext
<1>10. Append(sent, r) \in Seq(Meanings) /\ ClosesLast(Append(sent, r))
    BY <1>2, <1>4, ClosesAppended
<1>11. sent \o cut = Append(sent, r)
    BY <1>2, <1>5
<1>12. /\ u \in Seq(AllUnits) /\ Len(stream) \in Nat /\ Len(x) \in Nat
       /\ Len(u) = Len(stream) + Len(x)
       /\ \A i \in 1..Len(stream) : u[i] = stream[i]
       /\ StandsFrom(u, Len(stream), x)
    BY <1>2, <1>6, JoinedTexts
<1>13. /\ v \in Seq(AllUnits) /\ Len(rest) \in Nat /\ Len(v) = Len(stream) + Len(rest)
       /\ \A i \in 1..Len(stream) : v[i] = stream[i]
       /\ StandsFrom(v, Len(stream), rest)
    BY <1>2, <1>8, JoinedTexts
<1> HIDE DEF u, v
<1>14. ASSUME NEW m \in 0..Len(v) PROVE IsPrefix(ClientReads(SubSeq(v, 1, m)), Append(sent, r))
    <2> DEFINE t == SubSeq(v, 1, m)
    <2>1. Received(t, v) /\ Len(t) = m
        BY <1>13, FirstReceived
    <2> HIDE DEF t
    <2>2. t \in Seq(AllUnits) /\ m \in Nat /\ m <= Len(v) /\ Len(v) <= Len(u)
          /\ \A i \in 1..m : t[i] = v[i]
        BY <1>8, <1>12, <1>13, <2>1 DEF Received
    <2>3. ASSUME NEW i \in 1..m PROVE v[i] = u[i]
        <3>1. CASE i <= Len(stream)
            BY <1>12, <1>13, <3>1
        <3>2. CASE i > Len(stream)
            <4> DEFINE j == i - Len(stream)
            <4>1. j \in 1..Len(rest) /\ j \in 1..Len(x) /\ Len(stream) + j = i
                BY <1>8, <1>12, <1>13, <2>2, <3>2
            <4> HIDE DEF j
            <4>2. v[Len(stream) + j] = rest[j] /\ u[Len(stream) + j] = x[j]
                BY <1>12, <1>13, <4>1 DEF StandsFrom
            <4>3. QED BY <1>8, <4>1, <4>2
        <3>3. QED BY <1>12, <3>1, <3>2
    <2>4. Received(t, u)
        BY <1>12, <1>13, <2>1, <2>2, <2>3 DEF Received
    <2>5. QED BY <1>9, <1>10, <1>12, <2>4, PartUnderstood DEF t
<1> DEFINE w == v \o error
<1>15. IsPrefix(sent, ClientReads(w))
    <2>1. /\ w \in Seq(AllUnits) /\ Len(error) \in Nat /\ Len(w) = Len(v) + Len(error)
          /\ \A i \in 1..Len(v) : w[i] = v[i]
        BY <1>4, <1>13, JoinedTexts
    <2> HIDE DEF w
    <2>2. Len(stream) <= Len(w) /\ \A i \in 1..Len(stream) : i \in 1..Len(v)
        BY <1>12, <1>13, <2>1
    <2>3. \A i \in 1..Len(stream) : w[i] = stream[i]
        BY <1>13, <2>1, <2>2
    <2>4. QED BY <1>2, <1>3, <1>4, <2>1, <2>2, <2>3, ReadsThrough
<1>16. QED BY <1>1, <1>11, <1>14, <1>15 DEF ClientReadsWhatWasMeant, v, w

(* A client understands what the worker responds.                          *)
LEMMA ClientUnderstands == RespondInv => ClientReadsWhatWasMeant
    BY WholeUnderstood, CutUnderstood

(* The last response ends the stream with its two line ends.               *)
LEMMA EndIsFound == RespondInv => ReadPacketFindsEnd
<1>1. SUFFICES ASSUME RespondInv, stream # <<>>
               PROVE  Len(stream) > 1
                      /\ SubSeq(stream, Len(stream) - 1, Len(stream)) = <<Eol, Eol>>
    BY DEF ReadPacketFindsEnd
<1> DEFINE n == Len(stream)
           K == Len(sent)
<1>2. sent \in Seq(Meanings) /\ stream \in Seq(AllUnits)
    BY <1>1 DEF RespondInv
<1>3. n \in Nat /\ n # 0 /\ K \in Nat
    BY <1>1, <1>2, LenProperties, EmptySeq
<1>4. PICK start : Laid(stream, sent, start)
    BY <1>1 DEF RespondInv
<1>5. start[1] = 1 /\ start[K + 1] = n + 1
    BY <1>4 DEF Laid
<1>6. K \in 1..K
    <2>1. K # 0
        BY <1>3, <1>5
    <2>2. QED BY <1>3, <2>1
<1> DEFINE r == sent[K]
           l == Len(r.body)
<1>7. l \in Nat
    <2>1. r \in Meanings
        BY <1>2, <1>6, ElementOfSeq
    <2>2. r.body \in Seq(AllUnits)
        BY <2>1 DEF Meanings
    <2>3. QED BY <2>2, LenProperties
<1>8. PICK z \in Nat : Stands(stream, start[K], z, r) /\ start[K + 1] = z + l + 3
    BY <1>4, <1>6 DEF Laid
<1>9. stream[z + l + 1] = Eol /\ stream[z + l + 2] = Eol
    BY <1>8 DEF Stands
<1> HIDE DEF n, K, r, l
<1>10. n > 1 /\ n - 1 = z + l + 1 /\ n = z + l + 2
    BY <1>3, <1>5, <1>7, <1>8
<1> DEFINE a == n - 1
           p == SubSeq(stream, a, n)
<1>11. /\ a \in 1..(Len(stream) + 1) /\ n \in (a - 1)..Len(stream)
       /\ n - a + 1 = 2 /\ a + 1 - 1 = a /\ a + 2 - 1 = n
       /\ stream[a] = Eol /\ stream[n] = Eol
    BY <1>3, <1>9, <1>10 DEF n
<1> HIDE DEF a
<1>12. /\ p \in Seq(AllUnits) /\ Len(p) = n - a + 1
       /\ \A i \in 1..(n - a + 1) : p[i] = stream[a + i - 1]
    <2>1. /\ stream \in Seq(AllUnits)
          /\ a \in 1..(Len(stream) + 1) /\ n \in (a - 1)..Len(stream)
        BY <1>2, <1>11
    <2>2. QED BY <2>1, PartFacts, ZenonT(60)
<1> HIDE DEF p
<1>13. Len(p) = 2 /\ p[1] = Eol /\ p[2] = Eol
    <2>1. p[1] = stream[a + 1 - 1] /\ p[2] = stream[a + 2 - 1]
        BY <1>11, <1>12
    <2>2. QED BY <1>11, <1>12, <2>1
<1>14. p = <<Eol, Eol>>
    <2> DEFINE e == Eol
               w == <<e, e>>
    <2>1. e \in AllUnits
        BY DEF AllUnits
    <2> HIDE DEF e
    <2>2. w \in Seq(AllUnits) /\ Len(w) = 2 /\ w[1] = e /\ w[2] = e
        BY <2>1
    <2> HIDE DEF w
    <2>3. Len(p) = Len(w) /\ \A i \in 1..Len(p) : p[i] = w[i]
        BY <1>13, <2>2 DEF e
    <2>4. p = w
        BY <1>12, <2>2, <2>3, SeqEqual
    <2>5. QED BY <2>4 DEF w, e
<1>15. QED BY <1>10, <1>14 DEF n, p, a

(* What the worker responds is understood: a client that goes by the       *)
(* Content-length reads from any part of the stream it has received a      *)
(* prefix of the responses that were meant, from all of it all of them,    *)
(* and the program's own Read finds the end of every one that was written  *)
(* in full; for files of any units, line ends and status lines among them, *)
(* and of any length.  Behind a 200 whose write failed comes a 404 that    *)
(* may be read as its body: the responses before that 200 are read as they *)
(* were meant all the same.                                                *)
THEOREM ResponsesRead == ResponseSpec => []ResponsesUnderstood
<1>1. RespondInv /\ [Respond]_responseVars => RespondInv'
    <2>1. CASE RespondInv /\ Respond
        BY <2>1, RespondKeeps
    <2>2. CASE RespondInv /\ UNCHANGED responseVars
        BY <2>2 DEF RespondInv, CutInv, responseVars
    <2>3. QED BY <2>1, <2>2
<1>2. RespondInv => ResponsesUnderstood
    BY ClientUnderstands, EndIsFound DEF ResponsesUnderstood
<1>3. QED BY <1>1, <1>2, NoResponses, PTL DEF ResponseSpec

-----------------------------------------------------------------------------
(* The start of main.                                                      *)

\* What LoadConfig makes of an entry it accepts, and what is listened on.
PortOf(e) ==
    IF e["port"].type = "boolean" THEN (IF e["port"].value THEN 1 ELSE 0)
    ELSE ToInt(e["port"].value)
OptionOf(e) ==
    Option(e["ipfamily"].value, e["address"].value, PortOf(e),
           e["directory"].value, secureToBool(e["secure"].value))
ListenerOf(o) ==
    [family |-> "AF_INET", address |-> o.address, port |-> htons(o.port), isSecure |-> o.isSecure]

\* An entry that is converted.
Complete(e) == DOMAIN e = Keys /\ e["port"].type \in {"number", "boolean"}

Configured == {OptionOf(e) : e \in Range(file.entries)}

-----------------------------------------------------------------------------
(* The inductive invariant: so far the options are those of the first      *)
(* entries, each of them complete, and the listeners those of the first    *)
(* options.                                                                *)

LoadedInv ==
    /\ entry \in 1..(Len(file.entries) + 1)
    /\ m_options \in Seq(Configured) /\ Len(m_options) = entry - 1
    /\ \A i \in 1..(entry - 1) :
         Complete(file.entries[i]) /\ m_options[i] = OptionOf(file.entries[i])

ListeningInv ==
    /\ listening \in Seq({ListenerOf(o) : o \in Configured})
    /\ Len(listening) <= Len(m_options)
    /\ \A i \in 1..Len(listening) :
         listening[i] = ListenerOf(m_options[i]) /\ m_options[i].family = "ip4"

\* inet_pton writes past the end for one of the entries.
Overrun ==
    \E e \in Range(file.entries) :
        DOMAIN e = Keys /\ e["ipfamily"].value # "ip4" /\ e["address"].value \in Texts6

StartInv ==
    /\ FileOK(file)
    /\ pc \in {"getopt", "config", "listen", "exception", "serving", "undefined"}
    /\ pc = "getopt" => entry = 1 /\ m_options = <<>>
    /\ pc \in {"getopt", "config"} => listening = <<>>
    /\ pc = "config" => file.kind = "list"
    /\ pc \in {"listen", "serving"} =>
         \/ /\ file = Absent /\ m_options = <<command>>
            /\ listening \in {<<>>, <<ListenerOf(command)>>}
         \/ file.kind = "list" /\ LoadedInv /\ entry = Len(file.entries) + 1 /\ ListeningInv
    /\ pc = "config" => LoadedInv
    /\ pc = "serving" => Len(listening) = Len(m_options) /\ m_options # <<>>
    /\ pc = "undefined" => file.kind = "list" /\ (file.entries = <<>> \/ Overrun)
    /\ command.family = "ip4"

(* An entry that is converted has all the keys.                            *)
LEMMA ConvertedEntry ==
    ASSUME FileOK(file), file.kind = "list", NEW i \in DOMAIN file.entries, i = entry, Converts
    PROVE  /\ Complete(file.entries[i])
           /\ file.entries[i] \in Range(file.entries)
           /\ Port = PortOf(file.entries[i])
<1>1. file.entries[i] \in Range(file.entries)
    BY DEF Range
<1>2. DOMAIN file.entries[i] \subseteq Keys
    BY <1>1 DEF FileOK, Absent, Garbage
<1>3. ASSUME NEW key \in Keys PROVE key \in DOMAIN file.entries[i]
    <2>1. CASE key = "port"
        <3>1. TypeOf("port") # "null"
            BY DEF Converts
        <3>2. QED BY <2>1, <3>1 DEF TypeOf, Entry
    <2>2. CASE key # "port"
        <3>1. TypeOf(key) # "null"
            BY <2>2 DEF Converts
        <3>2. QED BY <3>1 DEF TypeOf, Entry
    <2>3. QED BY <2>1, <2>2
<1>4. Port = PortOf(file.entries[i])
    <2>1. "port" \in DOMAIN Entry
        BY <1>3 DEF Keys, Entry
    <2>2. QED BY <2>1 DEF Port, PortOf, TypeOf, Entry
<1>5. file.entries[i]["port"].type \in {"number", "boolean"}
    <2>1. "port" \in DOMAIN Entry
        BY <1>3 DEF Keys, Entry
    <2>2. QED BY <2>1 DEF Converts, TypeOf, Entry
<1>6. QED BY <1>1, <1>2, <1>3, <1>4, <1>5 DEF Complete

(* The entries are a sequence.                                             *)
LEMMA EntriesFacts ==
    ASSUME FileOK(file), file.kind = "list"
    PROVE  /\ file.entries \in Seq(Range(file.entries))
           /\ Len(file.entries) \in Nat /\ DOMAIN file.entries = 1..Len(file.entries)
<1>1. file.entries \in Seq(Range(file.entries))
    BY DEF FileOK, Absent, Garbage
<1>2. QED BY <1>1, LenProperties

(* Every step keeps the invariant.                                         *)
LEMMA StartStep ==
    ASSUME StartInv, Next
    PROVE  StartInv'
<1>1. file' = file
    BY DEF Next, GetOpt, NoConfig, OpenConfig, LoadEntry, EntryThrows, ConfigRead, Listen,
           ListenOverruns, ListenThrows, CreateThreads
<1>2. CASE GetOpt
    <2>1. command'.family = command.family
        BY <1>2 DEF GetOpt, Set, StartInv
    <2>2. QED BY <1>2, <2>1 DEF GetOpt, Goes, StartInv
<1>3. CASE NoConfig
    BY <1>3 DEF NoConfig, Goes, StartInv
<1>4. CASE OpenConfig
    <2>1. pc = "getopt" /\ entry = 1 /\ m_options = <<>> /\ listening = <<>> /\ file # Absent
        BY <1>4 DEF OpenConfig, Goes, StartInv
    <2>2. UNCHANGED <<file, entry, m_options, listening, command>>
        BY <1>4 DEF OpenConfig
    <2>3. CASE file = Garbage
        <3>1. pc' = "exception"
            BY <1>4, <2>3 DEF OpenConfig, Goes
        <3>2. QED BY <2>2, <3>1 DEF StartInv
    <2>4. CASE file # Garbage
        <3>1. pc' = "config" /\ file.kind = "list"
            BY <1>4, <2>1, <2>4 DEF OpenConfig, Goes, StartInv, FileOK
        <3>2. LoadedInv
            <4>1. Len(file.entries) \in Nat
                BY <3>1, EntriesFacts DEF StartInv
            <4>2. 1 \in 1..(Len(file.entries) + 1) /\ \A i \in 1..(1 - 1) : FALSE
                BY <4>1
            <4>3. <<>> \in Seq(Configured) /\ Len(<<>>) = 1 - 1
                OBVIOUS
            <4>4. QED BY <2>1, <4>2, <4>3 DEF LoadedInv
        <3>3. LoadedInv'
            BY <2>2, <3>2 DEF LoadedInv, Configured
        <3>4. QED BY <2>1, <2>2, <3>1, <3>3 DEF StartInv
    <2>5. QED BY <2>3, <2>4
<1>5. CASE LoadEntry
    <2>1. /\ pc = "config" /\ pc' = "config" /\ Converts /\ entry <= Len(file.entries)
          /\ entry' = entry + 1 /\ UNCHANGED <<file, listening, command>>
          /\ file.kind = "list" /\ LoadedInv /\ listening = <<>>
        BY <1>5 DEF LoadEntry, Goes, StartInv
    <2>2. Len(file.entries) \in Nat /\ DOMAIN file.entries = 1..Len(file.entries)
        BY <2>1, EntriesFacts DEF StartInv
    <2>3. entry \in 1..Len(file.entries) /\ entry \in DOMAIN file.entries /\ entry \in Nat
        BY <2>1, <2>2 DEF LoadedInv
    <2> DEFINE e == file.entries[entry]
    <2>4. Complete(e) /\ e \in Range(file.entries) /\ Port = PortOf(e)
        BY <2>1, <2>3, ConvertedEntry DEF StartInv
    <2>5. m_options' = Append(m_options, OptionOf(e))
        BY <1>5, <2>4 DEF LoadEntry, OptionOf, Entry
    <2>6. OptionOf(e) \in Configured /\ m_options \in Seq(Configured) /\ Len(m_options) = entry - 1
        BY <2>1, <2>4 DEF Configured, LoadedInv
    <2> HIDE DEF e
    <2>7. /\ Append(m_options, OptionOf(e)) \in Seq(Configured)
          /\ Len(Append(m_options, OptionOf(e))) = Len(m_options) + 1
          /\ \A i \in 1..Len(m_options) : Append(m_options, OptionOf(e))[i] = m_options[i]
          /\ Append(m_options, OptionOf(e))[Len(m_options) + 1] = OptionOf(e)
        BY <2>6, AppendProperties
    <2>8. /\ m_options' \in Seq(Configured) /\ Len(m_options') = entry
          /\ \A i \in 1..(entry - 1) : m_options'[i] = m_options[i]
          /\ m_options'[entry] = OptionOf(e)
        BY <2>3, <2>5, <2>6, <2>7
    <2>9. \A i \in 1..entry :
            Complete(file.entries[i]) /\ m_options'[i] = OptionOf(file.entries[i])
        <3>1. TAKE i \in 1..entry
        <3>2. CASE i = entry
            BY <2>4, <2>8, <3>2 DEF e
        <3>3. CASE i # entry
            <4>1. i \in 1..(entry - 1)
                BY <2>3, <3>3
            <4>2. QED BY <2>1, <2>8, <4>1 DEF LoadedInv
        <3>4. QED BY <3>2, <3>3
    <2>10. entry' \in 1..(Len(file.entries) + 1) /\ entry' - 1 = entry
        BY <2>1, <2>2, <2>3
    <2>11. LoadedInv'
        BY <2>1, <2>8, <2>9, <2>10 DEF LoadedInv, Configured
    <2>12. QED BY <2>1, <2>11 DEF StartInv
<1>6. CASE EntryThrows
    BY <1>6 DEF EntryThrows, Goes, StartInv
<1>7. CASE ConfigRead
    <2>1. /\ pc = "config" /\ pc' = "listen" /\ entry > Len(file.entries)
          /\ UNCHANGED <<entry, m_options, listening, file, command>>
          /\ file.kind = "list" /\ LoadedInv /\ listening = <<>>
        BY <1>7 DEF ConfigRead, Goes, StartInv
    <2>2. entry = Len(file.entries) + 1
        <3>1. Len(file.entries) \in Nat
            BY <2>1, EntriesFacts DEF StartInv
        <3>2. entry \in 1..(Len(file.entries) + 1)
            BY <2>1 DEF LoadedInv
        <3>3. QED BY <2>1, <3>1, <3>2
    <2>3. ListeningInv
        <3>1. Len(m_options) \in Nat
            BY <2>1, LenProperties DEF LoadedInv
        <3>2. QED BY <2>1, <3>1 DEF ListeningInv
    <2>4. LoadedInv' /\ ListeningInv'
        BY <2>1, <2>3 DEF LoadedInv, ListeningInv, Configured
    <2>5. QED BY <2>1, <2>2, <2>4 DEF StartInv
<1>8. CASE Listen
    <2>1. /\ pc = "listen" /\ pc' = "listen" /\ Len(listening) < Len(m_options)
          /\ UNCHANGED <<entry, m_options, file, command>>
          /\ listening' = Append(listening, ListenerOf(m_options[Len(listening) + 1]))
          /\ m_options[Len(listening) + 1].family = "ip4"
        BY <1>8 DEF Listen, Goes, ListenerOf, Current, Family
    <2>2. CASE file = Absent
        <3>1. m_options = <<command>> /\ listening \in {<<>>, <<ListenerOf(command)>>}
            BY <2>1, <2>2 DEF StartInv, Absent
        <3>2. listening = <<>>
            BY <2>1, <3>1
        <3>3. m_options[Len(listening) + 1] = command
            BY <3>1, <3>2
        <3>4. listening' = <<ListenerOf(command)>>
            BY <2>1, <3>2, <3>3
        <3>5. QED BY <2>1, <2>2, <3>1, <3>4 DEF StartInv
    <2>3. CASE file # Absent
        <3>1. file.kind = "list" /\ LoadedInv /\ entry = Len(file.entries) + 1 /\ ListeningInv
            BY <2>1, <2>3 DEF StartInv
        <3> DEFINE S == {ListenerOf(o) : o \in Configured}
                   o == m_options[Len(listening) + 1]
        <3>2. listening \in Seq(S) /\ Len(listening) \in Nat /\ Len(m_options) \in Nat
            BY <3>1, LenProperties DEF ListeningInv, LoadedInv
        <3>3. o \in Configured
            <4>1. Len(listening) + 1 \in 1..Len(m_options) /\ m_options \in Seq(Configured)
                BY <2>1, <3>1, <3>2 DEF LoadedInv
            <4>2. QED BY <4>1, ElementOfSeq
        <3>4. ListenerOf(o) \in S
            BY <3>3
        <3> HIDE DEF S, o
        <3>5. /\ Append(listening, ListenerOf(o)) \in Seq(S)
              /\ Len(Append(listening, ListenerOf(o))) = Len(listening) + 1
              /\ \A i \in 1..Len(listening) : Append(listening, ListenerOf(o))[i] = listening[i]
              /\ Append(listening, ListenerOf(o))[Len(listening) + 1] = ListenerOf(o)
            BY <3>2, <3>4, AppendProperties
        <3>6. listening' \in Seq(S) /\ Len(listening') = Len(listening) + 1
            BY <2>1, <3>5 DEF o
        <3>7. \A i \in 1..(Len(listening) + 1) :
                listening'[i] = ListenerOf(m_options[i]) /\ m_options[i].family = "ip4"
            <4>1. TAKE i \in 1..(Len(listening) + 1)
            <4>2. CASE i = Len(listening) + 1
                BY <2>1, <3>5, <4>2 DEF o
            <4>3. CASE i # Len(listening) + 1
                <5>1. i \in 1..Len(listening)
                    BY <3>2, <4>3
                <5>2. listening'[i] = listening[i]
                    BY <2>1, <3>5, <5>1 DEF o
                <5>3. QED BY <3>1, <5>1, <5>2 DEF ListeningInv
            <4>4. QED BY <4>2, <4>3
        <3>8. Len(listening) + 1 <= Len(m_options)
            BY <2>1, <3>2
        <3>9. ListeningInv'
            BY <2>1, <3>6, <3>7, <3>8 DEF ListeningInv, Configured, S
        <3>10. LoadedInv'
            BY <2>1, <3>1 DEF LoadedInv, Configured
        <3>11. QED BY <2>1, <3>1, <3>9, <3>10 DEF StartInv
    <2>4. QED BY <2>2, <2>3
<1>9. CASE CreateThreads
    <2>1. /\ pc = "listen" /\ Len(listening) = Len(m_options)
          /\ UNCHANGED <<entry, m_options, file, command, listening>>
          /\ pc' = IF m_options = <<>> THEN "undefined" ELSE "serving"
        BY <1>9 DEF CreateThreads, Goes
    <2>2. (LoadedInv => LoadedInv') /\ (ListeningInv => ListeningInv')
        BY <2>1 DEF LoadedInv, ListeningInv, Configured
    <2>3. CASE file = Absent
        <3>1. pc' = "serving"
            BY <2>1, <2>3 DEF StartInv, Absent
        <3>2. QED BY <2>1, <2>3, <3>1 DEF StartInv, Absent
    <2>4. CASE file # Absent
        <3>1. file.kind = "list" /\ LoadedInv /\ entry = Len(file.entries) + 1 /\ ListeningInv
            BY <2>1, <2>4 DEF StartInv
        <3>2. CASE m_options = <<>>
            <4>1. Len(file.entries) = 0
                BY <3>1, <3>2, EntriesFacts DEF StartInv, LoadedInv
            <4>2. file.entries = <<>>
                BY <3>1, <4>1, EntriesFacts, EmptySeq DEF StartInv
            <4>3. QED BY <2>1, <3>1, <3>2, <4>2 DEF StartInv
        <3>3. CASE m_options # <<>>
            BY <2>1, <2>2, <3>1, <3>3 DEF StartInv
        <3>4. QED BY <3>2, <3>3
    <2>5. QED BY <2>3, <2>4
<1>10. CASE ListenOverruns
    <2>1. /\ pc = "listen" /\ pc' = "undefined" /\ Len(listening) < Len(m_options)
          /\ UNCHANGED <<entry, m_options, file, command, listening>>
          /\ Current.family # "ip4" /\ Current.address \in Texts6
        BY <1>10 DEF ListenOverruns, Goes, Family, inet_pton
    <2>2. CASE file = Absent
        <3>1. m_options = <<command>> /\ listening \in {<<>>, <<ListenerOf(command)>>}
            BY <2>1, <2>2 DEF StartInv, Absent
        <3>2. Current = command
            BY <2>1, <3>1 DEF Current
        <3>3. QED BY <2>1, <3>2 DEF StartInv
    <2>3. CASE file # Absent
        <3>1. file.kind = "list" /\ LoadedInv /\ entry = Len(file.entries) + 1 /\ ListeningInv
            BY <2>1, <2>3 DEF StartInv
        <3> DEFINE n == Len(listening) + 1
        <3>2. n \in 1..(entry - 1) /\ n \in DOMAIN file.entries
            <4>1. Len(listening) \in Nat /\ Len(m_options) = entry - 1
                BY <3>1, LenProperties DEF ListeningInv, LoadedInv
            <4>2. Len(file.entries) \in Nat /\ DOMAIN file.entries = 1..Len(file.entries)
                BY <3>1, EntriesFacts DEF StartInv
            <4>3. QED BY <2>1, <3>1, <4>1, <4>2
        <3>3. Complete(file.entries[n]) /\ Current = OptionOf(file.entries[n])
            BY <3>1, <3>2 DEF LoadedInv, Current
        <3>4. file.entries[n] \in Range(file.entries)
            BY <3>2 DEF Range
        <3> HIDE DEF n
        <3>5. Overrun
            BY <2>1, <3>3, <3>4 DEF Overrun, Complete, OptionOf, Option
        <3>6. Overrun'
            BY <2>1, <3>5 DEF Overrun
        <3>7. QED BY <2>1, <3>1, <3>6 DEF StartInv
    <2>4. QED BY <2>2, <2>3
<1>11. CASE ListenThrows
    BY <1>11 DEF ListenThrows, Goes, StartInv
<1>12. QED
    BY <1>2, <1>3, <1>4, <1>5, <1>6, <1>7, <1>8, <1>9, <1>10, <1>11 DEF Next

(* Quotient and remainder.                                                 *)
LEMMA Division ==
    ASSUME NEW y \in Int, NEW p \in Nat, p > 0
    PROVE  y \div p \in Int /\ y % p \in 0..(p - 1) /\ y = p * (y \div p) + (y % p)
OBVIOUS

(* A multiple leaves no remainder.                                         *)
LEMMA Multiples ==
    ASSUME NEW p \in Nat, p > 0, NEW m \in Int
    PROVE  (p * m) % p = 0
<1> DEFINE y == p * m
           q == y \div p
           s == y % p
<1>1. y \in Int /\ q \in Int /\ s \in 0..(p - 1) /\ y = p * q + s
    OBVIOUS
<1>2. p * (m - q) = s
    <2>1. p * (m - q) = p * m - p * q
        BY <1>1
    <2>2. QED BY <1>1, <2>1
<1> HIDE DEF q, s
<1>3. ~(m - q >= 1)
    <2>1. SUFFICES ASSUME m - q >= 1 PROVE FALSE
        OBVIOUS
    <2>2. p * (m - q) >= p * 1
        BY <1>1, <2>1
    <2>3. QED BY <1>1, <1>2, <2>2
<1>4. ~(m - q <= -1)
    <2>1. SUFFICES ASSUME m - q <= -1 PROVE FALSE
        OBVIOUS
    <2>2. p * (m - q) <= p * (-1)
        BY <1>1, <2>1
    <2>3. QED BY <1>1, <1>2, <2>2
<1>5. m - q = 0
    BY <1>1, <1>3, <1>4
<1>6. s = 0
    BY <1>2, <1>5
<1>7. QED BY <1>6 DEF s

(* The conversions keep a port's low bits.                                 *)
LEMMA LowBits ==
    ASSUME NEW x \in Int
    PROVE  /\ htons(ToInt(x)) \in 0..(PortSize - 1)
           /\ (htons(ToInt(x)) - x) % PortSize = 0
<1>1. PICK n \in Nat : IntHalf = n * PortSize /\ n > 0
    BY OptionsAssumption
<1> DEFINE r == (x + IntHalf) % (2 * IntHalf)
           q == (x + IntHalf) \div (2 * IntHalf)
           t == ToInt(x)
           u == t \div PortSize
           h == htons(t)
<1>2. IntHalf \in Nat /\ IntHalf > 0 /\ PortSize \in Nat /\ PortSize > 0
    BY <1>1, OptionsAssumption
<1>3. q \in Int /\ r \in Int /\ x + IntHalf = (2 * IntHalf) * q + r
    BY <1>2
<1>4. t \in Int /\ t = r - IntHalf
    <2>1. t = r - IntHalf
        BY DEF ToInt
    <2> HIDE DEF r, q, t
    <2>2. QED BY <1>2, <1>3, <2>1
<1> HIDE DEF r, q, t
<1>5. u \in Int /\ h \in 0..(PortSize - 1) /\ t = PortSize * u + h
    BY <1>2, <1>4, Division, Zenon DEF htons
<1> HIDE DEF u, h
<1>6. h - x = -((2 * IntHalf) * q) - PortSize * u
    BY <1>2, <1>3, <1>4, <1>5
<1>7. (2 * IntHalf) * q = PortSize * (2 * n * q)
    BY <1>1, <1>2, <1>3
<1>8. h - x = PortSize * (-(2 * n * q) - u)
    BY <1>1, <1>2, <1>3, <1>5, <1>6, <1>7
<1>9. -(2 * n * q) - u \in Int
    BY <1>1, <1>3, <1>5
<1>10. (PortSize * (-(2 * n * q) - u)) % PortSize = 0
    BY <1>2, <1>9, Multiples
<1>11. QED BY <1>5, <1>8, <1>10 DEF h, t

(* What is listened on is what the entry says.                             *)
LEMMA PortIsKept ==
    ASSUME NEW e, Complete(e), e["port"].type = "number" => e["port"].value \in Int
    PROVE  PortKept(e, htons(PortOf(e)))
<1>1. CASE e["port"].type = "boolean"
    <2>1. 1 % PortSize = 1 /\ 0 % PortSize = 0
        BY OptionsAssumption
    <2>2. QED BY <1>1, <2>1 DEF PortKept, PortOf, htons
<1>2. CASE e["port"].type # "boolean"
    <2>1. e["port"].value \in Int
        BY <1>2 DEF Complete
    <2>2. PortOf(e) = ToInt(e["port"].value)
        BY <1>2 DEF PortOf
    <2>3. QED BY <1>2, <2>1, <2>2, LowBits DEF PortKept
<1>3. QED BY <1>1, <1>2

(* A config.json is all there is: each entry is one listener with its own  *)
(* family, address, port (the low bits of its number) and security, or the *)
(* program does not serve; only a list without an entry (GetDirectory(0))  *)
(* and an entry of an IPv6 address (inet_pton) get to undefined behaviour. *)
THEOREM StartsAsConfigured == Spec => []StartedAsConfigured
<1>1. Init => StartInv
    BY OptionsAssumption DEF Init, StartInv, Default, Option
<1>2. StartInv /\ [Next]_vars => StartInv'
    <2>1. SUFFICES ASSUME StartInv, UNCHANGED vars PROVE StartInv'
        BY StartStep
    <2>2. /\ UNCHANGED <<pc, command, file, entry, m_options, listening>>
          /\ LoadedInv' = LoadedInv /\ ListeningInv' = ListeningInv /\ Overrun' = Overrun
        BY <2>1 DEF vars, LoadedInv, ListeningInv, Configured, Overrun
    <2>3. QED BY <2>1, <2>2 DEF StartInv
<1>3. StartInv => StartedAsConfigured
    <2>1. SUFFICES ASSUME StartInv PROVE ConfigDecides /\ UndefinedStart
        BY DEF StartedAsConfigured
    <2>2. ConfigDecides
        <3>1. SUFFICES ASSUME pc = "serving", file.kind = "list"
                       PROVE  /\ Len(listening) = Len(file.entries)
                              /\ \A l \in DOMAIN listening :
                                   LET e == file.entries[l]
                                   IN  /\ DOMAIN e = Keys
                                       /\ e["ipfamily"].value = "ip4"
                                       /\ listening[l].family = "AF_INET"
                                       /\ listening[l].address = e["address"].value
                                       /\ PortKept(e, listening[l].port)
                                       /\ listening[l].isSecure <=> e["secure"].value = "true"
                                       /\ m_options[l].directory = e["directory"].value
            BY DEF ConfigDecides
        <3>2. LoadedInv /\ ListeningInv /\ entry = Len(file.entries) + 1
            BY <2>1, <3>1 DEF StartInv, Absent
        <3>3. Len(file.entries) \in Nat /\ Len(m_options) = Len(file.entries)
            BY <2>1, <3>1, <3>2, EntriesFacts DEF StartInv, LoadedInv
        <3>4. Len(listening) = Len(m_options) /\ DOMAIN listening = 1..Len(listening)
            BY <2>1, <3>1, <3>2, LenProperties DEF StartInv, ListeningInv
        <3>5. ASSUME NEW l \in DOMAIN listening
              PROVE  /\ Complete(file.entries[l]) /\ m_options[l].family = "ip4"
                     /\ file.entries[l] \in Range(file.entries)
                     /\ listening[l] = ListenerOf(OptionOf(file.entries[l]))
                     /\ m_options[l] = OptionOf(file.entries[l])
            <4>1. l \in 1..(entry - 1) /\ l \in 1..Len(listening)
                BY <3>2, <3>3, <3>4
            <4>2. l \in DOMAIN file.entries
                BY <2>1, <3>1, <3>3, <3>4, EntriesFacts DEF StartInv
            <4>3. QED BY <3>2, <4>1, <4>2 DEF LoadedInv, ListeningInv, Range
        <3>6. \A e : /\ ListenerOf(OptionOf(e)).family = "AF_INET"
                     /\ OptionOf(e).family = e["ipfamily"].value
                     /\ ListenerOf(OptionOf(e)).port = htons(PortOf(e))
                     /\ ListenerOf(OptionOf(e)).address = e["address"].value
                     /\ ListenerOf(OptionOf(e)).isSecure <=> e["secure"].value = "true"
                     /\ OptionOf(e).directory = e["directory"].value
            BY DEF ListenerOf, OptionOf, Option, secureToBool
        <3>7. \A e \in Range(file.entries) :
                e["port"].type = "number" /\ DOMAIN e = Keys => e["port"].value \in Int
            BY <2>1, <3>1 DEF StartInv, FileOK, Absent, Garbage, Keys
        <3>8. ASSUME NEW l \in DOMAIN listening
              PROVE  PortKept(file.entries[l], listening[l].port)
            <4>1. Complete(file.entries[l]) /\ file.entries[l] \in Range(file.entries)
                BY <3>5
            <4>2. listening[l].port = htons(PortOf(file.entries[l]))
                BY <3>5, <3>6
            <4>3. QED BY <3>7, <4>1, <4>2, PortIsKept DEF Complete
        <3>9. ASSUME NEW l \in DOMAIN listening
              PROVE  /\ DOMAIN file.entries[l] = Keys
                     /\ file.entries[l]["ipfamily"].value = "ip4"
                     /\ listening[l].family = "AF_INET"
                     /\ listening[l].address = file.entries[l]["address"].value
                     /\ listening[l].isSecure <=> file.entries[l]["secure"].value = "true"
                     /\ m_options[l].directory = file.entries[l]["directory"].value
            <4> DEFINE f == file.entries[l]
            <4>1. /\ Complete(f) /\ m_options[l].family = "ip4"
                  /\ listening[l] = ListenerOf(OptionOf(f)) /\ m_options[l] = OptionOf(f)
                BY <3>5
            <4> HIDE DEF f
            <4>2. QED BY <3>6, <4>1 DEF Complete, f
        <3>10. QED BY <3>3, <3>4, <3>8, <3>9
    <2>3. UndefinedStart
        <3>1. ASSUME pc = "undefined"
              PROVE  file.kind = "list" /\ (file.entries = <<>> \/ Overrun)
            BY <2>1, <3>1 DEF StartInv
        <3>2. ASSUME pc = "serving", file.kind = "list"
              PROVE  file.entries # <<>> /\ ~Overrun
            <4>1. /\ LoadedInv /\ ListeningInv /\ entry = Len(file.entries) + 1
                  /\ Len(listening) = Len(m_options) /\ m_options # <<>>
                BY <2>1, <3>2 DEF StartInv, Absent
            <4>2. Len(file.entries) \in Nat /\ DOMAIN file.entries = 1..Len(file.entries)
                BY <2>1, <3>2, EntriesFacts DEF StartInv
            <4>3. Len(m_options) = Len(file.entries)
                BY <4>1, <4>2 DEF LoadedInv
            <4>4. file.entries # <<>>
                <5>1. Len(m_options) # 0
                    BY <4>1, EmptySeq DEF LoadedInv
                <5>2. QED BY <4>3, <5>1
            <4>5. ASSUME NEW e \in Range(file.entries) PROVE e["ipfamily"].value = "ip4"
                <5>1. PICK l \in 1..Len(file.entries) : e = file.entries[l]
                    BY <4>2 DEF Range
                <5>2. m_options[l] = OptionOf(e) /\ m_options[l].family = "ip4"
                    BY <4>1, <4>2, <4>3, <5>1 DEF LoadedInv, ListeningInv
                <5>3. QED BY <5>2 DEF OptionOf, Option
            <4>6. QED BY <4>4, <4>5 DEF Overrun
        <3>3. QED BY <3>1, <3>2 DEF UndefinedStart, Overrun
    <2>4. QED BY <2>2, <2>3
<1>4. QED BY <1>1, <1>2, <1>3, PTL DEF Spec
=============================================================================
