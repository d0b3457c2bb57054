-------------------------- MODULE JsonTextsProofs --------------------------
(***************************************************************************)
(* Theorems about the lexer and the input adapters of json.hpp.            *)
(***************************************************************************)
EXTENDS JsonTexts, SequenceLemmas, TLAPS

\* The members of a lexer, and what a function that returns leaves in it.
IsLexer(l) ==
    DOMAIN l = {"ia", "taken", "current", "next_unget", "chars_read", "token_string",
                "token_buffer", "token", "value"}

LEMMA GetFacts ==
    ASSUME NEW l, IsLexer(l), l.taken \in Int, l.next_unget \in BOOLEAN, l.chars_read \in Int
    PROVE  LET g == get(l) IN
           /\ IsLexer(g)
           /\ g.ia = l.ia /\ g.taken = IF l.next_unget THEN l.taken ELSE l.taken + 1
           /\ g.current = CharAt(g.ia, g.taken)
           /\ g.next_unget = FALSE
           /\ g.chars_read = l.chars_read + 1
           /\ g.token = l.token
           /\ g.token_buffer = l.token_buffer
           /\ g.token_string = IF g.current = EOF THEN l.token_string ELSE Append(l.token_string, g.current)
    BY DEF IsLexer, get

LEMMA UngetFacts ==
    ASSUME NEW l, IsLexer(l), l.taken \in Int, l.next_unget \in BOOLEAN, l.chars_read \in Int
    PROVE  LET g == unget(l) IN
           /\ IsLexer(g)
           /\ g.ia = l.ia /\ g.taken = l.taken
           /\ g.current = l.current
           /\ g.next_unget = TRUE
           /\ g.chars_read = l.chars_read - 1
           /\ g.token = l.token
           /\ g.token_buffer = l.token_buffer
           /\ g.token_string = IF g.current = EOF THEN l.token_string ELSE Front(l.token_string)
    BY DEF IsLexer, unget

LEMMA ReturnsFacts ==
    ASSUME NEW l, IsLexer(l), NEW token, NEW value
    PROVE  LET g == Returns(l, token, value) IN
           /\ IsLexer(g)
           /\ g.ia = l.ia /\ g.taken = l.taken
           /\ g.current = l.current
           /\ g.next_unget = l.next_unget
           /\ g.chars_read = l.chars_read
           /\ g.token = token
           /\ g.value = value
           /\ g.token_buffer = l.token_buffer
           /\ g.token_string = l.token_string
    BY DEF IsLexer, Returns

LEMMA AddFacts ==
    ASSUME NEW l, IsLexer(l), NEW c
    PROVE  LET g == add(l, c) IN
           /\ IsLexer(g)
           /\ g.ia = l.ia /\ g.taken = l.taken
           /\ g.current = l.current
           /\ g.next_unget = l.next_unget
           /\ g.chars_read = l.chars_read
           /\ g.token = l.token
           /\ g.token_buffer = Append(l.token_buffer, c)
           /\ g.token_string = l.token_string
    BY DEF IsLexer, add

LEMMA ResetFacts ==
    ASSUME NEW l, IsLexer(l)
    PROVE  LET g == reset(l) IN
           /\ IsLexer(g)
           /\ g.ia = l.ia /\ g.taken = l.taken
           /\ g.current = l.current
           /\ g.next_unget = l.next_unget
           /\ g.chars_read = l.chars_read
           /\ g.token = l.token
           /\ g.token_buffer = <<>>
           /\ g.token_string = <<l.current>>
    BY DEF IsLexer, reset

-----------------------------------------------------------------------------
(* What every function of the lexer keeps.                                 *)

\* How much of the text has been read, and where the quoted part begins.
ReadOf(b, l) == IF l.chars_read <= Len(b) THEN l.chars_read ELSE Len(b)
Start(b, l) == ReadOf(b, l) - Len(l.token_string)

\* The token's text is the last part of what has been read.
Quotes(b, l) ==
    /\ l.token_string \in Seq(Int)
    /\ Start(b, l) >= 0
    /\ \A i \in DOMAIN l.token_string : l.token_string[i] = b[Start(b, l) + i]
    /\ ~l.next_unget /\ l.taken \in 1..Len(b) => Len(l.token_string) >= 1

Kept(b, l) ==
    /\ IsLexer(l) /\ l.ia = b
    /\ l.taken \in Nat /\ l.next_unget \in BOOLEAN /\ (l.next_unget => l.taken >= 1)
    /\ l.chars_read = IF l.next_unget THEN l.taken - 1 ELSE l.taken
    /\ l.current = CharAt(b, l.taken)
    /\ b \in Seq(Nat) => Quotes(b, l)

\* A text that ends within a pair of surrogates is never read past its end.
Cut(b) == b # <<>> /\ b[Len(b)] \in Surrogates
Ahead(b, l) == Cut(b) => l.taken < Len(b) \/ (l.taken = Len(b) /\ l.next_unget)
Within(b, l) == Cut(b) => l.taken <= Len(b)

\* One that can be read on, one that has just been read, one that is a token.
Open(b, l) == Kept(b, l) /\ Ahead(b, l)
Read(b, l) == Kept(b, l) /\ Within(b, l) /\ ~l.next_unget /\ l.taken >= 1
Good(b, l) == Kept(b, l) /\ Within(b, l) /\ (Ends(l) \/ Ahead(b, l))

\* Reading goes on, and so does the place that is quoted from.
Leads(b, l, m) ==
    m.chars_read >= l.chars_read /\ (b \in Seq(Nat) => Start(b, m) >= Start(b, l))

LEMMA KeptTypes ==
    ASSUME NEW b \in Seq(Int), NEW l, Kept(b, l)
    PROVE  /\ IsLexer(l) /\ l.ia = b /\ Len(b) \in Nat /\ DOMAIN b = 1..Len(b)
           /\ l.taken \in Nat /\ l.next_unget \in BOOLEAN /\ l.chars_read \in Nat
           /\ l.current \in Int
           /\ ReadOf(b, l) \in Nat
           /\ b \in Seq(Nat) => Start(b, l) \in Nat
<1>1. Len(b) \in Nat /\ DOMAIN b = 1..Len(b)
    BY LenProperties
<1>2. l.chars_read \in Nat
    BY DEF Kept
<1>3. l.current \in Int
    BY <1>1, ElementOfSeq DEF Kept, CharAt, EOF
<1>4. ReadOf(b, l) \in Nat
    BY <1>1, <1>2 DEF ReadOf
<1>5. b \in Seq(Nat) => Start(b, l) \in Nat
    <2>1. SUFFICES ASSUME b \in Seq(Nat) PROVE Start(b, l) \in Nat
        OBVIOUS
    <2>2. Len(l.token_string) \in Nat
        BY <2>1, LenProperties DEF Kept, Quotes
    <2>3. Start(b, l) \in Int
        BY <2>2, <1>4 DEF Start
    <2>4. QED BY <2>1, <2>3 DEF Kept, Quotes
<1>6. QED BY <1>1, <1>2, <1>3, <1>4, <1>5 DEF Kept

LEMMA LeadsOn ==
    ASSUME NEW b \in Seq(Int), NEW l, NEW m, NEW n, Kept(b, l), Kept(b, m), Kept(b, n),
           Leads(b, l, m), Leads(b, m, n)
    PROVE  Leads(b, l, n)
<1>1. /\ l.chars_read \in Nat /\ m.chars_read \in Nat /\ n.chars_read \in Nat
      /\ b \in Seq(Nat) => Start(b, l) \in Nat /\ Start(b, m) \in Nat /\ Start(b, n) \in Nat
    BY KeptTypes
<1>2. QED BY <1>1 DEF Leads

\* What Quotes is about.
SameText(l, m) ==
    /\ m.ia = l.ia /\ m.taken = l.taken /\ m.current = l.current
    /\ m.next_unget = l.next_unget /\ m.chars_read = l.chars_read
    /\ m.token_string = l.token_string

LEMMA SameKept ==
    ASSUME NEW b \in Seq(Int), NEW l, NEW m, Kept(b, l), IsLexer(m), SameText(l, m)
    PROVE  /\ Kept(b, m) /\ Leads(b, l, m) /\ Leads(b, m, l)
           /\ Ahead(b, l) => Ahead(b, m)
           /\ Within(b, l) => Within(b, m)
<1>1. ReadOf(b, m) = ReadOf(b, l) /\ Start(b, m) = Start(b, l)
    BY DEF SameText, ReadOf, Start
<1>2. Quotes(b, l) => Quotes(b, m)
    BY <1>1 DEF SameText, Quotes
<1>3. Kept(b, m)
    BY <1>2 DEF SameText, Kept
<1>4. l.chars_read \in Nat /\ (b \in Seq(Nat) => Start(b, l) \in Nat)
    BY KeptTypes
<1>5. Leads(b, l, m) /\ Leads(b, m, l)
    BY <1>1, <1>4 DEF Leads, SameText
<1>6. QED BY <1>3, <1>5 DEF SameText, Ahead, Within

LEMMA ReturnsKept ==
    ASSUME NEW b \in Seq(Int), NEW l, Kept(b, l), NEW token, NEW value
    PROVE  LET m == Returns(l, token, value) IN
           /\ Kept(b, m) /\ Leads(b, l, m) /\ SameText(l, m)
           /\ m.token = token /\ m.value = value /\ m.token_buffer = l.token_buffer
           /\ Ahead(b, l) => Open(b, m)
           /\ Within(b, l) => Within(b, m)
<1> DEFINE m == Returns(l, token, value)
<1>1. IsLexer(l)
    BY DEF Kept
<1>2. IsLexer(m) /\ SameText(l, m) /\ m.token = token /\ m.value = value
      /\ m.token_buffer = l.token_buffer
    BY <1>1, ReturnsFacts DEF SameText
<1> HIDE DEF m
<1>3. QED BY <1>2, SameKept DEF m, Open

LEMMA AddKept ==
    ASSUME NEW b \in Seq(Int), NEW l, Kept(b, l), NEW c
    PROVE  LET m == add(l, c) IN
           /\ Kept(b, m) /\ Leads(b, l, m) /\ SameText(l, m) /\ m.token = l.token
           /\ m.token_buffer = Append(l.token_buffer, c)
           /\ Ahead(b, l) => Open(b, m)
           /\ Within(b, l) => Within(b, m)
<1> DEFINE m == add(l, c)
<1>1. IsLexer(l)
    BY DEF Kept
<1>2. IsLexer(m) /\ SameText(l, m) /\ m.token = l.token
      /\ m.token_buffer = Append(l.token_buffer, c)
    BY <1>1, AddFacts DEF SameText
<1> HIDE DEF m
<1>3. QED BY <1>2, SameKept DEF m, Open

\* What is not a surrogate is not the end of a text that is cut.
LEMMA ReadIsOpen ==
    ASSUME NEW b \in Seq(Int), NEW l, Read(b, l), l.current \notin Surrogates
    PROVE  Open(b, l)
<1>1. /\ Len(b) \in Nat /\ DOMAIN b = 1..Len(b) /\ l.taken \in Nat
    BY KeptTypes DEF Read
<1>2. SUFFICES ASSUME Cut(b), l.taken = Len(b) PROVE FALSE
    BY <1>1 DEF Read, Open, Ahead, Within
<1>3. Len(b) >= 1 /\ l.current = b[Len(b)]
    BY <1>1, <1>2 DEF Read, Kept, CharAt
<1>4. QED BY <1>2, <1>3 DEF Cut

\* The byte read next is quoted.
LEMMA GetQuotes ==
    ASSUME NEW b \in Seq(Nat), NEW l, NEW g, Kept(b, l), Quotes(b, l),
           g.taken = IF l.next_unget THEN l.taken ELSE l.taken + 1,
           g.chars_read = l.chars_read + 1, g.taken = g.chars_read,
           g.current = CharAt(b, g.taken),
           g.token_string = IF g.current = EOF THEN l.token_string
                            ELSE Append(l.token_string, g.current)
    PROVE  Quotes(b, g) /\ Start(b, g) = Start(b, l)
<1> DEFINE s == l.token_string
           n == Len(s)
           from == Start(b, l)
           k == g.taken
<1>1. Len(b) \in Nat /\ DOMAIN b = 1..Len(b)
    BY LenProperties
<1>2. s \in Seq(Int) /\ n \in Nat /\ DOMAIN s = 1..n
    BY LenProperties DEF Quotes
<1>3. l.chars_read \in Nat /\ k = l.chars_read + 1 /\ k \in Nat
    BY DEF Kept
<1>4. CASE k \in 1..Len(b)
    <2>1. g.current = b[k] /\ b[k] \in Nat
        BY <1>1, <1>4, ElementOfSeq DEF CharAt
    <2>2. g.current # EOF /\ g.token_string = Append(s, b[k])
        BY <2>1 DEF EOF
    <2>3. b[k] \in Int
        BY <2>1
    <2>4. /\ Append(s, b[k]) \in Seq(Int) /\ Len(Append(s, b[k])) = n + 1
          /\ DOMAIN Append(s, b[k]) = 1..(n + 1)
          /\ Append(s, b[k])[n + 1] = b[k]
          /\ \A i \in 1..n : Append(s, b[k])[i] = s[i]
        BY <1>2, <2>3, AppendProperties, LenProperties
    <2>5. from = l.chars_read - n
        BY <1>1, <1>3, <1>4 DEF Start, ReadOf
    <2>6. Start(b, g) = k - (n + 1)
        BY <1>1, <1>4, <2>2, <2>4 DEF Start, ReadOf
    <2>7. from \in Int /\ Start(b, g) = from /\ from + (n + 1) = k
        BY <1>2, <1>3, <2>5, <2>6
    <2>8. \A i \in 1..n : s[i] = b[from + i]
        BY <1>2 DEF Quotes
    <2> HIDE DEF s, n, from, k
    <2>9. \A i \in 1..(n + 1) : Append(s, b[k])[i] = b[from + i]
        <3>1. TAKE i \in 1..(n + 1)
        <3>2. CASE i = n + 1
            BY <2>4, <2>7, <3>2
        <3>3. CASE i # n + 1
            <4>1. i \in 1..n
                BY <1>2, <3>3
            <4>2. QED BY <4>1, <2>4, <2>8
        <3>4. QED BY <3>2, <3>3
    <2>10. from >= 0 /\ n + 1 >= 1
        BY <1>2 DEF Quotes, from
    <2>11. QED BY <2>2, <2>4, <2>7, <2>9, <2>10 DEF Quotes, from
<1>5. CASE k \notin 1..Len(b)
    <2>1. g.current = EOF /\ g.token_string = s
        BY <1>1, <1>5 DEF CharAt
    <2>2. k > Len(b) /\ ReadOf(b, g) = Len(b) /\ ReadOf(b, l) = Len(b)
        BY <1>1, <1>3, <1>5 DEF ReadOf
    <2>3. Start(b, g) = from
        BY <2>1, <2>2 DEF Start
    <2>4. QED BY <1>5, <2>1, <2>3 DEF Quotes
<1>6. QED BY <1>4, <1>5

LEMMA GetRead ==
    ASSUME NEW b \in Seq(Int), NEW l, Open(b, l)
    PROVE  LET g == get(l) IN
           /\ Read(b, g) /\ Leads(b, l, g) /\ g.chars_read = l.chars_read + 1
           /\ g.token = l.token /\ g.token_buffer = l.token_buffer
           /\ b \in Seq(Nat) => Start(b, g) = Start(b, l)
<1> DEFINE g == get(l)
<1>1. /\ Len(b) \in Nat /\ DOMAIN b = 1..Len(b) /\ IsLexer(l) /\ l.ia = b
      /\ l.taken \in Nat /\ l.next_unget \in BOOLEAN /\ l.chars_read \in Nat
      /\ b \in Seq(Nat) => Start(b, l) \in Nat
    BY KeptTypes DEF Open
<1>2. /\ IsLexer(g)
      /\ g.ia = l.ia /\ g.taken = IF l.next_unget THEN l.taken ELSE l.taken + 1
      /\ g.current = CharAt(g.ia, g.taken)
      /\ g.next_unget = FALSE
      /\ g.chars_read = l.chars_read + 1
      /\ g.token = l.token
      /\ g.token_buffer = l.token_buffer
      /\ g.token_string = IF g.current = EOF THEN l.token_string ELSE Append(l.token_string, g.current)
    <2>1. l.taken \in Int /\ l.chars_read \in Int
        BY <1>1
    <2>2. QED BY <1>1, <2>1, GetFacts
<1> HIDE DEF g
<1>3. g.taken = g.chars_read /\ g.taken \in Nat /\ g.taken >= 1
    BY <1>1, <1>2 DEF Open, Kept
<1>4. b \in Seq(Nat) => Quotes(b, g) /\ Start(b, g) = Start(b, l)
    BY <1>1, <1>2, <1>3, GetQuotes DEF Open, Kept
<1>5. Kept(b, g)
    BY <1>1, <1>2, <1>3, <1>4 DEF Kept
<1>6. Within(b, g)
    BY <1>1, <1>2 DEF Open, Ahead, Within
<1>7. Leads(b, l, g)
    BY <1>1, <1>2, <1>4 DEF Leads
<1>8. QED BY <1>2, <1>3, <1>4, <1>5, <1>6, <1>7 DEF Read, g

\* Where a byte has been read, if it is in the text.
LEMMA ReadPlace ==
    ASSUME NEW b \in Seq(Nat), NEW l, Read(b, l)
    PROVE  /\ l.taken = l.chars_read /\ l.taken \in Nat /\ l.taken >= 1 /\ Len(b) \in Nat
           /\ l.current # EOF => l.taken \in 1..Len(b) /\ l.current = b[l.taken]
           /\ l.current = EOF => l.taken > Len(b)
<1>1. Len(b) \in Nat /\ DOMAIN b = 1..Len(b) /\ \A i \in 1..Len(b) : b[i] \in Nat
    BY LenProperties, ElementOfSeq
<1>2. l.taken = l.chars_read /\ l.taken \in Nat /\ l.taken >= 1
    BY DEF Read, Kept
<1>3. l.current # EOF => l.taken \in 1..Len(b) /\ l.current = b[l.taken]
    BY <1>1 DEF Read, Kept, CharAt
<1>4. l.current = EOF => l.taken > Len(b)
    BY <1>1, <1>2 DEF Read, Kept, CharAt, EOF
<1>5. QED BY <1>1, <1>2, <1>3, <1>4

\* A byte that is given back is not quoted any longer.
LEMMA UngetQuotes ==
    ASSUME NEW b \in Seq(Nat), NEW l, NEW g, Read(b, l), Quotes(b, l),
           g.next_unget = TRUE, g.chars_read = l.chars_read - 1,
           g.token_string = IF l.current = EOF THEN l.token_string ELSE Front(l.token_string)
    PROVE  Quotes(b, g) /\ Start(b, g) = Start(b, l)
<1> DEFINE s == l.token_string
           n == Len(s)
           from == Start(b, l)
<1>1. /\ l.taken = l.chars_read /\ l.taken \in Nat /\ l.taken >= 1 /\ Len(b) \in Nat
      /\ l.current # EOF => l.taken \in 1..Len(b)
      /\ l.current = EOF => l.taken > Len(b)
    BY ReadPlace
<1>2. s \in Seq(Int) /\ n \in Nat /\ DOMAIN s = 1..n /\ from >= 0
    BY LenProperties DEF Quotes
<1>3. CASE l.current # EOF
    <2>1. n >= 1
        BY <1>1, <1>3 DEF Quotes, Read
    <2>2. s # <<>>
        BY <2>1, EmptySeq
    <2>3. /\ Front(s) \in Seq(Int) /\ Len(Front(s)) \in Nat
          /\ DOMAIN Front(s) = 1..Len(Front(s)) /\ DOMAIN Front(s) = DOMAIN s \ {n}
          /\ \A i \in DOMAIN Front(s) : Front(s)[i] = s[i]
        BY <1>2, <2>2, SequenceFacts, PlaceFacts, LenProperties
    <2> DEFINE m == Len(Front(s))
    <2>4. m = n - 1
        <3>1. \A i \in 1..(n - 1) : s[i] \in Int
            BY <1>2, ElementOfSeq
        <3>2. QED BY <1>2, <2>1, <3>1, SubSeqProperties DEF Front
    <2>5. Start(b, g) = (l.chars_read - 1) - m /\ from = l.chars_read - n
        BY <1>1, <1>3 DEF Start, ReadOf
    <2>6. Start(b, g) = from
        <3> HIDE DEF m, n, s, from
        <3>1. l.chars_read \in Int /\ n \in Int
            BY <1>1, <1>2
        <3>2. (l.chars_read - 1) - (n - 1) = l.chars_read - n
            BY <3>1
        <3>3. QED BY <2>4, <2>5, <3>2
    <2>7. \A i \in DOMAIN Front(s) : Front(s)[i] = b[from + i]
        BY <2>3 DEF Quotes
    <2>8. QED BY <1>2, <1>3, <2>3, <2>6, <2>7 DEF Quotes
<1>4. CASE l.current = EOF
    <2>1. ReadOf(b, g) = Len(b) /\ ReadOf(b, l) = Len(b)
        BY <1>1, <1>4 DEF ReadOf
    <2>2. Start(b, g) = from
        BY <1>4, <2>1 DEF Start
    <2>3. QED BY <1>4, <2>2 DEF Quotes
<1>5. QED BY <1>3, <1>4

LEMMA UngetOpen ==
    ASSUME NEW b \in Seq(Int), NEW l, Read(b, l)
    PROVE  LET g == unget(l) IN
           /\ Open(b, g) /\ g.chars_read = l.chars_read - 1
           /\ b \in Seq(Nat) => Start(b, g) = Start(b, l)
           /\ g.token = l.token /\ g.token_buffer = l.token_buffer
<1> DEFINE g == unget(l)
<1>1. /\ Len(b) \in Nat /\ IsLexer(l) /\ l.ia = b
      /\ l.taken \in Nat /\ l.next_unget \in BOOLEAN /\ l.chars_read \in Nat
    BY KeptTypes DEF Read
<1>2. /\ IsLexer(g)
      /\ g.ia = l.ia /\ g.taken = l.taken /\ g.current = l.current
      /\ g.next_unget = TRUE
      /\ g.chars_read = l.chars_read - 1
      /\ g.token = l.token
      /\ g.token_buffer = l.token_buffer
      /\ g.token_string = IF g.current = EOF THEN l.token_string ELSE Front(l.token_string)
    <2>1. l.taken \in Int /\ l.chars_read \in Int
        BY <1>1
    <2>2. QED BY <1>1, <2>1, UngetFacts
<1> HIDE DEF g
<1>3. b \in Seq(Nat) => Quotes(b, g) /\ Start(b, g) = Start(b, l)
    BY <1>2, UngetQuotes DEF Read, Kept
<1>4. Kept(b, g)
    BY <1>1, <1>2, <1>3 DEF Read, Kept
<1>5. Ahead(b, g)
    BY <1>1, <1>2 DEF Read, Ahead, Within, Cut
<1>6. QED BY <1>2, <1>3, <1>4, <1>5 DEF Open, g

\* A token begins with the byte that is current.
LEMMA ResetRead ==
    ASSUME NEW b \in Seq(Int), NEW l, Read(b, l), l.current # EOF
    PROVE  LET g == reset(l) IN
           /\ Read(b, g) /\ Leads(b, l, g) /\ g.chars_read = l.chars_read
           /\ g.current = l.current /\ g.token = l.token /\ g.token_buffer = <<>>
           /\ Open(b, l) => Open(b, g)
<1> DEFINE g == reset(l)
<1>1. /\ Len(b) \in Nat /\ IsLexer(l) /\ l.ia = b /\ l.current \in Int
      /\ l.taken \in Nat /\ l.next_unget \in BOOLEAN /\ l.chars_read \in Nat
    BY KeptTypes DEF Read
<1>2. /\ IsLexer(g)
      /\ g.ia = l.ia /\ g.taken = l.taken
      /\ g.current = l.current
      /\ g.next_unget = l.next_unget
      /\ g.chars_read = l.chars_read
      /\ g.token = l.token
      /\ g.token_buffer = <<>>
      /\ g.token_string = <<l.current>>
    BY <1>1, ResetFacts
<1> HIDE DEF g
<1>3. ASSUME b \in Seq(Nat)
      PROVE  Quotes(b, g) /\ Start(b, g) >= Start(b, l)
    <2>1. /\ l.taken = l.chars_read /\ l.taken \in 1..Len(b) /\ l.current = b[l.taken]
        BY <1>3, ReadPlace
    <2>2. Quotes(b, l)
        BY <1>3 DEF Read, Kept
    <2>3. Len(l.token_string) \in Nat /\ Len(l.token_string) >= 1
        BY <2>1, <2>2, LenProperties DEF Quotes, Read
    <2>4. /\ <<l.current>> \in Seq(Int) /\ Len(<<l.current>>) = 1
          /\ DOMAIN <<l.current>> = {1} /\ <<l.current>>[1] = l.current
        BY <1>1
    <2>5. Start(b, g) = l.taken - 1
        BY <1>1, <1>2, <2>1, <2>4 DEF Start, ReadOf
    <2>6. Start(b, l) = l.taken - Len(l.token_string)
        BY <1>1, <2>1 DEF Start, ReadOf
    <2>7. Start(b, g) >= Start(b, l) /\ Start(b, g) >= 0 /\ Start(b, g) + 1 = l.taken
        BY <1>1, <2>1, <2>3, <2>5, <2>6
    <2>8. \A i \in {1} : <<l.current>>[i] = b[Start(b, g) + i]
        BY <2>1, <2>4, <2>7
    <2>9. QED BY <1>2, <2>4, <2>7, <2>8 DEF Quotes
<1>4. Kept(b, g)
    BY <1>1, <1>2, <1>3 DEF Read, Kept
<1>5. Read(b, g) /\ (Open(b, l) => Open(b, g))
    BY <1>2, <1>4 DEF Read, Within, Open, Ahead
<1>6. Leads(b, l, g)
    BY <1>1, <1>2, <1>3 DEF Leads
<1>7. QED BY <1>2, <1>5, <1>6 DEF g

-----------------------------------------------------------------------------
(* The functions of the lexer, each of which fails or can be read on from. *)

Goes(b, l, m) == Kept(b, m) /\ Within(b, m) /\ Leads(b, l, m) /\ (Failed(m) \/ Open(b, m))

LEMMA GoesOn ==
    ASSUME NEW b \in Seq(Int), NEW l, NEW m, NEW n, Kept(b, l), Kept(b, m), Leads(b, l, m),
           Goes(b, m, n)
    PROVE  Goes(b, l, n)
    BY LeadsOn DEF Goes

LEMMA OpenGoes ==
    ASSUME NEW b \in Seq(Int), NEW l, NEW m, Open(b, m), Leads(b, l, m)
    PROVE  Goes(b, l, m)
<1>1. Within(b, m)
    <2>1. m.taken \in Nat /\ Len(b) \in Nat
        BY KeptTypes DEF Open
    <2>2. QED BY <2>1 DEF Open, Ahead, Within
<1>2. QED BY <1>1 DEF Goes, Open

LEMMA FailsGoes ==
    ASSUME NEW b \in Seq(Int), NEW l, Kept(b, l), Within(b, l)
    PROVE  Goes(b, l, Fails(l)) /\ Failed(Fails(l))
    BY ReturnsKept DEF Goes, Fails, Failed

LEMMA CodepointAdded ==
    ASSUME NEW b \in Seq(Int), NEW l, Open(b, l), NEW codepoint
    PROVE  LET m == AddCodepoint(l, codepoint) IN
           /\ Goes(b, l, m) /\ Open(b, m) /\ m.token = l.token
           /\ m.token_buffer = l.token_buffer \o Utf8(codepoint)
<1> DEFINE m == AddCodepoint(l, codepoint)
<1>1. IsLexer(l)
    BY DEF Open, Kept
<1>2. IsLexer(m) /\ SameText(l, m) /\ m.token = l.token
      /\ m.token_buffer = l.token_buffer \o Utf8(codepoint)
    BY <1>1 DEF IsLexer, SameText, AddCodepoint
<1> HIDE DEF m
<1>3. Kept(b, m) /\ Leads(b, l, m) /\ Ahead(b, m)
    BY <1>2, SameKept DEF Open
<1>4. Open(b, m)
    BY <1>3 DEF Open
<1>5. QED BY <1>2, <1>3, <1>4, OpenGoes DEF m

LEMMA AddGoes ==
    ASSUME NEW b \in Seq(Int), NEW l, Open(b, l), NEW c
    PROVE  Goes(b, l, add(l, c)) /\ Open(b, add(l, c)) /\ add(l, c).token = l.token
<1>1. Kept(b, add(l, c)) /\ Leads(b, l, add(l, c)) /\ Open(b, add(l, c)) /\ add(l, c).token = l.token
    BY AddKept DEF Open
<1>2. QED BY <1>1, OpenGoes

\* A surrogate is no byte.
LEMMA NoSurrogate ==
    /\ \A c \in Int : c < \hD800 => c \notin Surrogates
    /\ Backslash \notin Surrogates /\ \h75 \notin Surrogates
    /\ \A c \in DOMAIN SimpleEscapes : c \notin Surrogates
    /\ \A c \in LowSurrogates : c # -1
<1>1. \A c \in Int : c < \hD800 => c \notin Surrogates
    BY DEF Surrogates
<1>2. Backslash \notin Surrogates /\ \h75 \notin Surrogates
    BY <1>1 DEF Backslash
<1>3. \A c \in DOMAIN SimpleEscapes : c \notin Surrogates
    <2>1. DOMAIN SimpleEscapes = {Quote, Backslash, \h2F, \h62, \h66, \h6E, \h72, \h74}
        BY DEF SimpleEscapes
    <2>2. QED BY <1>1, <2>1 DEF Quote, Backslash
<1>4. \A c \in LowSurrogates : c # -1
    BY DEF LowSurrogates
<1>5. QED BY <1>1, <1>2, <1>3, <1>4

LEMMA HexIsNoSurrogate ==
    ASSUME NEW c \in Int, HexDigit(c) # -1
    PROVE  c \notin Surrogates
<1>1. SUFFICES ASSUME c \in Surrogates PROVE HexDigit(c) = -1
    OBVIOUS
<1>2. c >= \hD800
    BY <1>1 DEF Surrogates
<1>3. c \notin Digits /\ c \notin \h41..\h46 /\ c \notin \h61..\h66
    BY <1>2 DEF Digits, Zero
<1>4. QED BY <1>3, Zenon DEF HexDigit

\* A digit of the four after \u.
CodepointTurn(l, before, n) ==
    LET g == get(before[1])
        digit == HexDigit(g.current)
    IN  IF n = 0 THEN <<l, 0>>
        ELSE IF before[2] = -1 THEN before
        ELSE <<g, IF digit = -1 THEN -1 ELSE before[2] * 16 + digit>>

(* get_codepoint is the last of its turns.                                  *)
LEMMA CodepointTurns ==
    ASSUME NEW l
    PROVE  \E after : /\ get_codepoint(l) = after[4]
                     /\ \A n \in 0..4 : after[n] = CodepointTurn(l, after[n - 1], n)
<1> DEFINE G == {m \in Nat : \E f : f = [n \in 0..m |-> CodepointTurn(l, f[n - 1], n)]}
<1>1. 0 \in G
    <2> DEFINE f == [n \in 0..0 |-> CodepointTurn(l, <<>>, n)]
    <2>1. 0..0 = {0}
        OBVIOUS
    <2>2. f[0] = CodepointTurn(l, <<>>, 0) /\ CodepointTurn(l, <<>>, 0) = CodepointTurn(l, f[0 - 1], 0)
        BY DEF CodepointTurn
    <2>3. \A n \in 0..0 : f[n] = CodepointTurn(l, f[n - 1], n)
        BY <2>1, <2>2
    <2> HIDE DEF f
    <2>4. f = [n \in 0..0 |-> f[n]]
        BY DEF f
    <2>5. f = [n \in 0..0 |-> CodepointTurn(l, f[n - 1], n)]
        BY <2>3, <2>4
    <2>6. QED BY <2>5
<1>2. ASSUME NEW m \in Nat, m \in G PROVE m + 1 \in G
    <2>1. PICK f : f = [n \in 0..m |-> CodepointTurn(l, f[n - 1], n)]
        BY <1>2
    <2>2. \A n \in 0..m : f[n] = CodepointTurn(l, f[n - 1], n)
        BY <2>1
    <2> DEFINE g == [n \in 0..(m + 1) |-> IF n = m + 1 THEN CodepointTurn(l, f[m], n) ELSE f[n]]
    <2>3. \A n \in 0..m : g[n] = f[n]
        OBVIOUS
    <2>4. g[m + 1] = CodepointTurn(l, f[m], m + 1)
        OBVIOUS
    <2> HIDE DEF g
    <2>5. ASSUME NEW n \in 0..(m + 1) PROVE g[n] = CodepointTurn(l, g[n - 1], n)
        <3>1. CASE n = 0
            <4>1. CodepointTurn(l, f[n - 1], n) = CodepointTurn(l, g[n - 1], n)
                BY <3>1 DEF CodepointTurn
            <4>2. n \in 0..m
                BY <3>1
            <4>3. QED BY <4>1, <4>2, <2>2, <2>3
        <3>2. CASE n # 0 /\ n # m + 1
            <4>1. n \in 0..m /\ n - 1 \in 0..m
                BY <3>2
            <4>2. QED BY <4>1, <2>2, <2>3
        <3>3. CASE n # 0 /\ n = m + 1
            <4>1. m \in 0..m /\ n - 1 = m
                BY <3>3
            <4>2. g[m] = f[m]
                BY <4>1, <2>3
            <4>3. QED BY <3>3, <4>1, <4>2, <2>4
        <3>4. QED BY <3>1, <3>2, <3>3
    <2>6. g = [n \in 0..(m + 1) |-> g[n]]
        BY DEF g
    <2>7. g = [n \in 0..(m + 1) |-> CodepointTurn(l, g[n - 1], n)]
        BY <2>5, <2>6
    <2>8. QED BY <2>7
<1>3. \E f : f = [n \in 0..4 |-> CodepointTurn(l, f[n - 1], n)]
    <2> HIDE DEF G
    <2>1. \A m \in Nat : m \in G
        BY <1>1, <1>2, Induction
    <2>2. QED BY <2>1 DEF G
<1> DEFINE after == CHOOSE f : f = [n \in 0..4 |-> CodepointTurn(l, f[n - 1], n)]
<1>4. after = [n \in 0..4 |-> CodepointTurn(l, after[n - 1], n)]
    BY <1>3, Zenon
<1>5. get_codepoint(l) = after[4]
    BY DEF get_codepoint, CodepointTurn
<1> HIDE DEF after
<1>6. \A n \in 0..4 : after[n] = CodepointTurn(l, after[n - 1], n)
    BY <1>4
<1>7. QED BY <1>5, <1>6

(* Induction up to a bound.                                                *)
LEMMA InductionTo ==
    ASSUME NEW N \in Nat, NEW G, 0 \in G, \A n \in 0..(N - 1) : n \in G => n + 1 \in G
    PROVE  \A n \in 0..N : n \in G
<1> DEFINE H == {n \in Nat : n \in 0..N => n \in G}
<1>1. 0 \in H
    OBVIOUS
<1>2. \A n \in Nat : n \in H => n + 1 \in H
    <2>1. SUFFICES ASSUME NEW n \in Nat, n \in H, n + 1 \in 0..N PROVE n + 1 \in G
        OBVIOUS
    <2>2. n \in 0..(N - 1) /\ n \in 0..N
        BY <2>1
    <2>3. QED BY <2>1, <2>2
<1> HIDE DEF H
<1>3. \A n \in Nat : n \in H
    BY <1>1, <1>2, Induction
<1>4. QED BY <1>3 DEF H

LEMMA CodepointGoes ==
    ASSUME NEW b \in Seq(Int), NEW l, Open(b, l)
    PROVE  LET r == get_codepoint(l) IN
           /\ Kept(b, r[1]) /\ Within(b, r[1]) /\ Leads(b, l, r[1])
           /\ r[1].token = l.token
           /\ r[2] # -1 => Open(b, r[1])
<1> DEFINE Was(r) == /\ Kept(b, r[1]) /\ Within(b, r[1]) /\ Leads(b, l, r[1])
                     /\ r[1].token = l.token
                     /\ r[2] # -1 => Open(b, r[1])
<1>1. PICK after : /\ get_codepoint(l) = after[4]
                   /\ \A n \in 0..4 : after[n] = CodepointTurn(l, after[n - 1], n)
    BY CodepointTurns
<1>2. after[0] = <<l, 0>>
    BY <1>1 DEF CodepointTurn
<1>3. Was(after[0])
    <2>1. Goes(b, l, l)
        <3>1. l.chars_read \in Nat /\ (b \in Seq(Nat) => Start(b, l) \in Nat)
            BY KeptTypes DEF Open
        <3>2. Leads(b, l, l)
            BY <3>1 DEF Leads
        <3>3. QED BY <3>2, OpenGoes
    <2>2. QED BY <1>2, <2>1 DEF Goes
<1>4. ASSUME NEW n \in 0..3, Was(after[n])
      PROVE  Was(after[n + 1])
    <2> DEFINE before == after[n]
               g == get(before[1])
               digit == HexDigit(g.current)
    <2>1. after[n + 1] = IF before[2] = -1 THEN before
                         ELSE <<g, IF digit = -1 THEN -1 ELSE before[2] * 16 + digit>>
        <3>1. n + 1 \in 0..4 /\ (n + 1) - 1 = n /\ n + 1 # 0
            OBVIOUS
        <3>2. after[n + 1] = CodepointTurn(l, after[n], n + 1)
            BY <1>1, <3>1
        <3>3. QED BY <3>1, <3>2 DEF CodepointTurn
    <2>2. CASE before[2] = -1
        BY <1>4, <2>1, <2>2
    <2>3. CASE before[2] # -1
        <3>1. Open(b, before[1])
            BY <1>4, <2>3
        <3>2. Read(b, g) /\ Leads(b, before[1], g) /\ g.token = before[1].token
            BY <3>1, GetRead
        <3>3. Kept(b, g) /\ Within(b, g) /\ Leads(b, l, g) /\ g.token = l.token
            BY <1>4, <3>2, LeadsOn DEF Read, Open
        <3>4. digit # -1 => Open(b, g)
            <4>1. g.current \in Int
                BY <3>3, KeptTypes
            <4>2. QED BY <3>2, <4>1, HexIsNoSurrogate, ReadIsOpen
        <3> DEFINE r == after[n + 1]
        <3>5. r[1] = g /\ (r[2] # -1 => digit # -1)
            <4> HIDE DEF g, digit
            <4>1. QED BY <2>1, <2>3
        <3>6. QED BY <3>3, <3>4, <3>5
    <2>4. QED BY <2>2, <2>3
<1>5. Was(after[1]) /\ Was(after[2]) /\ Was(after[3]) /\ Was(after[4])
    <2> HIDE DEF Was
    <2>1. Was(after[0 + 1])
        BY <1>3, <1>4
    <2>2. Was(after[1 + 1])
        BY <2>1, <1>4
    <2>3. Was(after[2 + 1])
        BY <2>2, <1>4
    <2>4. Was(after[3 + 1])
        BY <2>3, <1>4
    <2>5. QED BY <2>1, <2>2, <2>3, <2>4
<1>6. QED BY <1>1, <1>5

\* A byte that is what the lexer looks for is no surrogate.
LEMMA GetIsOpen ==
    ASSUME NEW b \in Seq(Int), NEW l, Open(b, l)
    PROVE  LET g == get(l) IN
           /\ Kept(b, g) /\ Within(b, g) /\ Leads(b, l, g) /\ g.token = l.token /\ g.current \in Int
           /\ Goes(b, l, Fails(g))
           /\ g.current \notin Surrogates => Open(b, g) /\ Goes(b, l, g)
<1> DEFINE g == get(l)
<1>1. Read(b, g) /\ Leads(b, l, g) /\ g.token = l.token
    BY GetRead
<1> HIDE DEF g
<1>2. Kept(b, g) /\ Within(b, g) /\ g.current \in Int
    BY <1>1, KeptTypes DEF Read
<1>3. Goes(b, g, Fails(g))
    BY <1>2, FailsGoes
<1>4. Goes(b, l, Fails(g))
    BY <1>1, <1>2, <1>3, GoesOn DEF Open
<1>5. g.current \notin Surrogates => Open(b, g) /\ Goes(b, l, g)
    BY <1>1, ReadIsOpen, OpenGoes
<1>6. QED BY <1>1, <1>2, <1>4, <1>5 DEF g

LEMMA SecondGoes ==
    ASSUME NEW b \in Seq(Int), NEW l, Open(b, l), NEW high
    PROVE  Goes(b, l, SecondEscape(l, high))
<1> DEFINE backslash == get(l)
           u == get(backslash)
           second == get_codepoint(u)
<1>1. /\ Goes(b, l, Fails(backslash))
      /\ backslash.current = Backslash => Open(b, backslash) /\ Goes(b, l, backslash)
    BY GetIsOpen, NoSurrogate
<1>2. CASE backslash.current # Backslash
    <2>1. SecondEscape(l, high) = Fails(backslash)
        BY <1>2 DEF SecondEscape
    <2>2. QED BY <1>1, <2>1
<1>3. CASE backslash.current = Backslash /\ u.current # \h75
    <2>1. SecondEscape(l, high) = Fails(u)
        BY <1>3 DEF SecondEscape
    <2>2. Goes(b, backslash, Fails(u))
        BY <1>1, <1>3, GetIsOpen
    <2>3. Goes(b, l, Fails(u))
        BY <1>1, <1>3, <2>2, GoesOn DEF Open, Goes
    <2>4. QED BY <2>1, <2>3
<1>4. CASE backslash.current = Backslash /\ u.current = \h75
    <2>1. SecondEscape(l, high) = AddPair(second[1], high, second[2])
        BY <1>4 DEF SecondEscape
    <2>2. Open(b, u) /\ Goes(b, backslash, u)
        BY <1>1, <1>4, GetIsOpen, NoSurrogate
    <2>3. Goes(b, l, u)
        BY <1>1, <1>4, <2>2, GoesOn DEF Open, Goes
    <2>4. /\ Kept(b, second[1]) /\ Within(b, second[1]) /\ Leads(b, u, second[1])
          /\ second[2] # -1 => Open(b, second[1])
        BY <2>2, CodepointGoes
    <2> HIDE DEF second, u, backslash
    <2>5. Leads(b, l, second[1])
        BY <2>2, <2>3, <2>4, LeadsOn DEF Goes, Open
    <2>6. Goes(b, second[1], AddPair(second[1], high, second[2]))
        <3>1. CASE second[2] \notin LowSurrogates
            BY <2>4, <3>1, FailsGoes DEF AddPair
        <3>2. CASE second[2] \in LowSurrogates
            <4>1. second[2] # -1
                BY <3>2, NoSurrogate
            <4>2. QED BY <2>4, <3>2, <4>1, CodepointAdded DEF AddPair
        <3>3. QED BY <3>1, <3>2
    <2>7. QED BY <2>1, <2>4, <2>5, <2>6, GoesOn DEF Open
<1>5. QED BY <1>2, <1>3, <1>4

LEMMA UnicodeGoes ==
    ASSUME NEW b \in Seq(Int), NEW l, Open(b, l)
    PROVE  Goes(b, l, UnicodeEscape(l))
<1> DEFINE first == get_codepoint(l)
<1>1. /\ Kept(b, first[1]) /\ Within(b, first[1]) /\ Leads(b, l, first[1])
      /\ first[2] # -1 => Open(b, first[1])
    BY CodepointGoes
<1>2. UnicodeEscape(l) =
        IF first[2] = -1 \/ first[2] \in LowSurrogates THEN Fails(first[1])
        ELSE IF first[2] \in HighSurrogates THEN SecondEscape(first[1], first[2])
        ELSE AddCodepoint(first[1], first[2])
    BY DEF UnicodeEscape
<1> HIDE DEF first
<1>3. CASE first[2] = -1 \/ first[2] \in LowSurrogates
    <2>1. Goes(b, first[1], UnicodeEscape(l))
        BY <1>1, <1>2, <1>3, FailsGoes
    <2>2. QED BY <1>1, <2>1, GoesOn DEF Open
<1>4. CASE ~(first[2] = -1 \/ first[2] \in LowSurrogates) /\ first[2] \in HighSurrogates
    <2>1. Goes(b, first[1], UnicodeEscape(l))
        BY <1>1, <1>2, <1>4, SecondGoes
    <2>2. QED BY <1>1, <2>1, GoesOn DEF Open
<1>5. CASE ~(first[2] = -1 \/ first[2] \in LowSurrogates) /\ first[2] \notin HighSurrogates
    <2>1. Goes(b, first[1], UnicodeEscape(l))
        BY <1>1, <1>2, <1>5, CodepointAdded
    <2>2. QED BY <1>1, <2>1, GoesOn DEF Open
<1>6. QED BY <1>3, <1>4, <1>5

LEMMA EscapeGoes ==
    ASSUME NEW b \in Seq(Int), NEW l, Open(b, l)
    PROVE  Goes(b, l, Escape(l))
<1> DEFINE g == get(l)
<1>1. /\ Kept(b, l) /\ Kept(b, g) /\ Leads(b, l, g) /\ Goes(b, l, Fails(g))
      /\ g.current \notin Surrogates => Open(b, g)
    BY GetIsOpen DEF Open
<1>2. CASE g.current = \h75
    <2>1. Escape(l) = UnicodeEscape(g)
        BY <1>2 DEF Escape
    <2>2. Open(b, g)
        BY <1>1, <1>2, NoSurrogate
    <2>3. Goes(b, g, Escape(l))
        BY <2>1, <2>2, UnicodeGoes
    <2> HIDE DEF g
    <2>4. QED BY <1>1, <2>3, GoesOn
<1>3. CASE g.current # \h75 /\ g.current \in DOMAIN SimpleEscapes
    <2>1. Escape(l) = add(g, SimpleEscapes[g.current])
        BY <1>3 DEF Escape
    <2>3. Open(b, g)
        BY <1>1, <1>3, NoSurrogate
    <2>4. Goes(b, g, Escape(l))
        BY <2>1, <2>3, AddGoes
    <2> HIDE DEF g
    <2>5. QED BY <1>1, <2>4, GoesOn
<1>4. CASE g.current # \h75 /\ g.current \notin DOMAIN SimpleEscapes
    <2>1. Escape(l) = Fails(g)
        BY <1>4 DEF Escape
    <2>2. QED BY <1>1, <2>1
<1>5. QED BY <1>2, <1>3, <1>4

\* A byte of the rest of a character.
RangeTurn(l, ranges, before, n) ==
    LET g == get(before)
    IN  IF n = 0 THEN add(l, l.current)
        ELSE IF Done(before) THEN before
        ELSE IF g.current \in ranges[n] THEN add(g, g.current) ELSE Fails(g)

(* next_byte_in_range is the last of its turns.                             *)
LEMMA RangeTurns ==
    ASSUME NEW l, NEW ranges, Len(ranges) \in Nat
    PROVE  \E after : /\ next_byte_in_range(l, ranges) = after[Len(ranges)]
                     /\ \A n \in 0..Len(ranges) : after[n] = RangeTurn(l, ranges, after[n - 1], n)
<1> DEFINE G == {m \in Nat : \E f : f = [n \in 0..m |-> RangeTurn(l, ranges, f[n - 1], n)]}
<1>1. 0 \in G
    <2> DEFINE f == [n \in 0..0 |-> RangeTurn(l, ranges, <<>>, n)]
    <2>1. 0..0 = {0}
        OBVIOUS
    <2>2. f[0] = RangeTurn(l, ranges, <<>>, 0) /\ RangeTurn(l, ranges, <<>>, 0) = RangeTurn(l, ranges, f[0 - 1], 0)
        BY DEF RangeTurn
    <2>3. \A n \in 0..0 : f[n] = RangeTurn(l, ranges, f[n - 1], n)
        BY <2>1, <2>2
    <2> HIDE DEF f
    <2>4. f = [n \in 0..0 |-> f[n]]
        BY DEF f
    <2>5. f = [n \in 0..0 |-> RangeTurn(l, ranges, f[n - 1], n)]
        BY <2>3, <2>4
    <2>6. QED BY <2>5
<1>2. ASSUME NEW m \in Nat, m \in G PROVE m + 1 \in G
    <2>1. PICK f : f = [n \in 0..m |-> RangeTurn(l, ranges, f[n - 1], n)]
        BY <1>2
    <2>2. \A n \in 0..m : f[n] = RangeTurn(l, ranges, f[n - 1], n)
        BY <2>1
    <2> DEFINE g == [n \in 0..(m + 1) |-> IF n = m + 1 THEN RangeTurn(l, ranges, f[m], n) ELSE f[n]]
    <2>3. \A n \in 0..m : g[n] = f[n]
        OBVIOUS
    <2>4. g[m + 1] = RangeTurn(l, ranges, f[m], m + 1)
        OBVIOUS
    <2> HIDE DEF g
    <2>5. ASSUME NEW n \in 0..(m + 1) PROVE g[n] = RangeTurn(l, ranges, g[n - 1], n)
        <3>1. CASE n = 0
            <4>1. RangeTurn(l, ranges, f[n - 1], n) = RangeTurn(l, ranges, g[n - 1], n)
                BY <3>1 DEF RangeTurn
            <4>2. n \in 0..m
                BY <3>1
            <4>3. QED BY <4>1, <4>2, <2>2, <2>3
        <3>2. CASE n # 0 /\ n # m + 1
            <4>1. n \in 0..m /\ n - 1 \in 0..m
                BY <3>2
            <4>2. QED BY <4>1, <2>2, <2>3
        <3>3. CASE n # 0 /\ n = m + 1
            <4>1. m \in 0..m /\ n - 1 = m
                BY <3>3
            <4>2. g[m] = f[m]
                BY <4>1, <2>3
            <4>3. QED BY <3>3, <4>1, <4>2, <2>4
        <3>4. QED BY <3>1, <3>2, <3>3
    <2>6. g = [n \in 0..(m + 1) |-> g[n]]
        BY DEF g
    <2>7. g = [n \in 0..(m + 1) |-> RangeTurn(l, ranges, g[n - 1], n)]
        BY <2>5, <2>6
    <2>8. QED BY <2>7
<1>3. \E f : f = [n \in 0..Len(ranges) |-> RangeTurn(l, ranges, f[n - 1], n)]
    <2> HIDE DEF G
    <2>1. \A m \in Nat : m \in G
        BY <1>1, <1>2, Induction
    <2>2. QED BY <2>1 DEF G
<1> DEFINE after == CHOOSE f : f = [n \in 0..Len(ranges) |-> RangeTurn(l, ranges, f[n - 1], n)]
<1>4. after = [n \in 0..Len(ranges) |-> RangeTurn(l, ranges, after[n - 1], n)]
    BY <1>3, Zenon
<1>5. next_byte_in_range(l, ranges) = after[Len(ranges)]
    BY DEF next_byte_in_range, RangeTurn
<1> HIDE DEF after
<1>6. \A n \in 0..Len(ranges) : after[n] = RangeTurn(l, ranges, after[n - 1], n)
    BY <1>4
<1>7. QED BY <1>5, <1>6

\* A character of a string.
StringTurn(l, before, n) ==
    IF n = 0 THEN reset(l) ELSE IF Done(before) THEN before ELSE InString(get(before))

(* scan_string is the last of its turns.                                    *)
LEMMA StringTurns ==
    ASSUME NEW l, Turns(l) \in Nat
    PROVE  \E after : /\ scan_string(l) = after[Turns(l)]
                     /\ \A n \in 0..Turns(l) : after[n] = StringTurn(l, after[n - 1], n)
<1> DEFINE G == {m \in Nat : \E f : f = [n \in 0..m |-> StringTurn(l, f[n - 1], n)]}
<1>1. 0 \in G
    <2> DEFINE f == [n \in 0..0 |-> StringTurn(l, <<>>, n)]
    <2>1. 0..0 = {0}
        OBVIOUS
    <2>2. f[0] = StringTurn(l, <<>>, 0) /\ StringTurn(l, <<>>, 0) = StringTurn(l, f[0 - 1], 0)
        BY DEF StringTurn
    <2>3. \A n \in 0..0 : f[n] = StringTurn(l, f[n - 1], n)
        BY <2>1, <2>2
    <2> HIDE DEF f
    <2>4. f = [n \in 0..0 |-> f[n]]
        BY DEF f
    <2>5. f = [n \in 0..0 |-> StringTurn(l, f[n - 1], n)]
        BY <2>3, <2>4
    <2>6. QED BY <2>5
<1>2. ASSUME NEW m \in Nat, m \in G PROVE m + 1 \in G
    <2>1. PICK f : f = [n \in 0..m |-> StringTurn(l, f[n - 1], n)]
        BY <1>2
    <2>2. \A n \in 0..m : f[n] = StringTurn(l, f[n - 1], n)
        BY <2>1
    <2> DEFINE g == [n \in 0..(m + 1) |-> IF n = m + 1 THEN StringTurn(l, f[m], n) ELSE f[n]]
    <2>3. \A n \in 0..m : g[n] = f[n]
        OBVIOUS
    <2>4. g[m + 1] = StringTurn(l, f[m], m + 1)
        OBVIOUS
    <2> HIDE DEF g
    <2>5. ASSUME NEW n \in 0..(m + 1) PROVE g[n] = StringTurn(l, g[n - 1], n)
        <3>1. CASE n = 0
            <4>1. StringTurn(l, f[n - 1], n) = StringTurn(l, g[n - 1], n)
                BY <3>1 DEF StringTurn
            <4>2. n \in 0..m
                BY <3>1
            <4>3. QED BY <4>1, <4>2, <2>2, <2>3
        <3>2. CASE n # 0 /\ n # m + 1
            <4>1. n \in 0..m /\ n - 1 \in 0..m
                BY <3>2
            <4>2. QED BY <4>1, <2>2, <2>3
        <3>3. CASE n # 0 /\ n = m + 1
            <4>1. m \in 0..m /\ n - 1 = m
                BY <3>3
            <4>2. g[m] = f[m]
                BY <4>1, <2>3
            <4>3. QED BY <3>3, <4>1, <4>2, <2>4
        <3>4. QED BY <3>1, <3>2, <3>3
    <2>6. g = [n \in 0..(m + 1) |-> g[n]]
        BY DEF g
    <2>7. g = [n \in 0..(m + 1) |-> StringTurn(l, g[n - 1], n)]
        BY <2>5, <2>6
    <2>8. QED BY <2>7
<1>3. \E f : f = [n \in 0..Turns(l) |-> StringTurn(l, f[n - 1], n)]
    <2> HIDE DEF G
    <2>1. \A m \in Nat : m \in G
        BY <1>1, <1>2, Induction
    <2>2. QED BY <2>1 DEF G
<1> DEFINE after == CHOOSE f : f = [n \in 0..Turns(l) |-> StringTurn(l, f[n - 1], n)]
<1>4. after = [n \in 0..Turns(l) |-> StringTurn(l, after[n - 1], n)]
    BY <1>3, Zenon
<1>5. scan_string(l) = after[Turns(l)]
    BY DEF scan_string, StringTurn
<1> HIDE DEF after
<1>6. \A n \in 0..Turns(l) : after[n] = StringTurn(l, after[n - 1], n)
    BY <1>4
<1>7. QED BY <1>5, <1>6

LEMMA RangeGoes ==
    ASSUME NEW b \in Seq(Int), NEW l, Open(b, l), NEW ranges, Len(ranges) \in Nat,
           \A n \in 1..Len(ranges) : \A c \in ranges[n] : c \notin Surrogates
    PROVE  Goes(b, l, next_byte_in_range(l, ranges))
<1>1. PICK after : /\ next_byte_in_range(l, ranges) = after[Len(ranges)]
                   /\ \A n \in 0..Len(ranges) :
                         after[n] = RangeTurn(l, ranges, after[n - 1], n)
    <2>1. Len(ranges) \in Nat
        OBVIOUS
    <2>2. QED BY ONLY <2>1, RangeTurns
<1> DEFINE G == {n \in Nat : Goes(b, l, after[n])}
<1>2. 0 \in G
    <2>1. after[0] = add(l, l.current)
        BY <1>1 DEF RangeTurn
    <2>2. QED BY <2>1, AddGoes
<1>3. ASSUME NEW n \in 0..(Len(ranges) - 1), n \in G PROVE n + 1 \in G
    <2> DEFINE before == after[n]
               g == get(before)
    <2>1. n + 1 \in 1..Len(ranges) /\ n + 1 \in 0..Len(ranges) /\ (n + 1) - 1 = n /\ n + 1 # 0
        OBVIOUS
    <2>2. after[n + 1] = IF Done(before) THEN before
                         ELSE IF g.current \in ranges[n + 1] THEN add(g, g.current) ELSE Fails(g)
        BY <1>1, <2>1 DEF RangeTurn
    <2>3. Goes(b, l, before)
        BY <1>3
    <2>4. CASE Done(before)
        BY <2>1, <2>2, <2>3, <2>4
    <2>5. CASE ~Done(before)
        <3>1. Open(b, before)
            BY <2>3, <2>5 DEF Goes, Failed, Done
        <3>2. /\ Kept(b, g) /\ Leads(b, before, g) /\ Goes(b, before, Fails(g))
              /\ g.current \notin Surrogates => Open(b, g)
            BY <3>1, GetIsOpen
        <3> HIDE DEF g
        <3>3. Goes(b, before, after[n + 1])
            <4>1. CASE g.current \in ranges[n + 1]
                <5>1. Open(b, g)
                    BY <3>2, <4>1, <2>1
                <5>2. Goes(b, g, add(g, g.current))
                    BY <5>1, AddGoes
                <5>3. QED BY <2>2, <2>5, <3>1, <3>2, <4>1, <5>2, GoesOn DEF Open
            <4>2. CASE g.current \notin ranges[n + 1]
                BY <2>2, <2>5, <3>2, <4>2
            <4>3. QED BY <4>1, <4>2
        <3> HIDE DEF before
        <3>4. Goes(b, l, after[n + 1])
            BY <2>3, <3>3, GoesOn DEF Open, Goes
        <3>5. QED BY <2>1, <3>4
    <2>6. QED BY <2>4, <2>5
<1> HIDE DEF G
<1>4. \A n \in 0..Len(ranges) : n \in G
    BY <1>2, <1>3, InductionTo
<1>5. Len(ranges) \in G
    BY <1>4
<1>6. QED BY <1>1, <1>5 DEF G

\* The table's ranges are bytes that continue a character.
LEMMA RangesContinue ==
    ASSUME NEW c \in DOMAIN Utf8Ranges
    PROVE  /\ Len(Utf8Ranges[c]) \in 1..3
           /\ \A n \in 1..Len(Utf8Ranges[c]) : Utf8Ranges[c][n] \subseteq Continuation
<1>1. c \in \hC2..\hF4
    BY DEF Utf8Ranges
<1> DEFINE one == <<Continuation>>
           two(x) == <<x, Continuation>>
           three(x) == <<x, Continuation, Continuation>>
<1>2. PICK x : x \subseteq Continuation
               /\ (Utf8Ranges[c] = one \/ Utf8Ranges[c] = two(x) \/ Utf8Ranges[c] = three(x))
    <2>1. /\ \hA0..\hBF \subseteq Continuation /\ \h80..\h9F \subseteq Continuation
          /\ \h90..\hBF \subseteq Continuation /\ \h80..\h8F \subseteq Continuation
        BY DEF Continuation
    <2>2. CASE c <= \hDF
        <3>1. c # \hE0 /\ c # \hED /\ c # \hF0 /\ c # \hF4 /\ c \notin \hF1..\hF3
            BY <2>2
        <3>2. Utf8Ranges[c] = one
            BY <1>1, <2>2, <3>1, SMTT(30) DEF Utf8Ranges
        <3>3. QED BY <3>2
    <2>3. CASE c = \hE0
        BY <1>1, <2>1, <2>3 DEF Utf8Ranges
    <2>4. CASE c = \hED
        BY <1>1, <2>1, <2>4 DEF Utf8Ranges
    <2>5. CASE c = \hF0
        BY <1>1, <2>1, <2>5 DEF Utf8Ranges
    <2>6. CASE c = \hF4
        BY <1>1, <2>1, <2>6 DEF Utf8Ranges
    <2>7. CASE c \in \hF1..\hF3
        <3>1. ~(c <= \hDF) /\ c # \hE0 /\ c # \hED /\ c # \hF0 /\ c # \hF4
            BY <2>7
        <3>2. Utf8Ranges[c] = three(Continuation)
            BY <1>1, <2>7, <3>1, Zenon DEF Utf8Ranges
        <3>3. QED BY <3>2
    <2>8. CASE ~(c <= \hDF) /\ c \notin {\hE0, \hED, \hF0, \hF4} /\ c \notin \hF1..\hF3
        <3>1. c # \hE0 /\ c # \hED /\ c # \hF0 /\ c # \hF4
            BY <2>8
        <3>2. Utf8Ranges[c] = two(Continuation)
            BY <1>1, <2>8, <3>1, SMTT(30) DEF Utf8Ranges
        <3>3. QED BY <3>2
    <2>9. QED BY <2>2, <2>3, <2>4, <2>5, <2>6, <2>7, <2>8
<1>3. CASE Utf8Ranges[c] = one
    BY <1>3
<1>4. CASE Utf8Ranges[c] = two(x)
    BY <1>2, <1>4
<1>5. CASE Utf8Ranges[c] = three(x)
    BY <1>2, <1>5
<1>6. QED BY <1>2, <1>3, <1>4, <1>5

\* What a character of a string may begin with is no surrogate.
LEMMA PlainIsNoSurrogate ==
    /\ Quote \notin Surrogates /\ Quote # EOF
    /\ \A c \in PlainBytes : c \notin Surrogates
    /\ \A c \in DOMAIN Utf8Ranges : c \notin Surrogates
    /\ \A c \in Continuation : c \notin Surrogates
<1>1. \A c \in PlainBytes : c \in Int /\ c < \hD800
    BY DEF PlainBytes
<1>2. \A c \in DOMAIN Utf8Ranges : c \in Int /\ c < \hD800
    BY DEF Utf8Ranges
<1>3. \A c \in Continuation : c \in Int /\ c < \hD800
    BY DEF Continuation
<1>4. Quote \in Int /\ Quote < \hD800 /\ Quote # EOF
    BY DEF Quote, EOF
<1>5. QED BY <1>1, <1>2, <1>3, <1>4, NoSurrogate

LEMMA ReturnsGoes ==
    ASSUME NEW b \in Seq(Int), NEW l, Open(b, l), NEW token, NEW value
    PROVE  Goes(b, l, Returns(l, token, value)) /\ Open(b, Returns(l, token, value))
<1>1. /\ Open(b, Returns(l, token, value)) /\ Leads(b, l, Returns(l, token, value))
    BY ReturnsKept DEF Open
<1>2. QED BY <1>1, OpenGoes

LEMMA InStringGoes ==
    ASSUME NEW b \in Seq(Int), NEW g, Read(b, g)
    PROVE  Goes(b, g, InString(g))
<1> DEFINE c == g.current
<1>1. c \notin Surrogates => Open(b, g)
    BY ReadIsOpen
<1>2. CASE c = Quote
    <2>1. InString(g) = Returns(g, "value_string", g.token_buffer)
        BY <1>2 DEF InString
    <2>2. QED BY <1>1, <1>2, <2>1, PlainIsNoSurrogate, ReturnsGoes
<1>3. CASE c # Quote /\ c = Backslash
    <2>1. InString(g) = Escape(g)
        BY <1>3 DEF InString
    <2>2. QED BY <1>1, <1>3, <2>1, NoSurrogate, EscapeGoes
<1>4. CASE c # Quote /\ c # Backslash /\ c \in PlainBytes
    <2>1. InString(g) = add(g, c)
        BY <1>4 DEF InString
    <2>2. QED BY <1>1, <1>4, <2>1, PlainIsNoSurrogate, AddGoes
<1>5. CASE c # Quote /\ c # Backslash /\ c \notin PlainBytes /\ c \in DOMAIN Utf8Ranges
    <2> DEFINE ranges == Utf8Ranges[c]
    <2>1. InString(g) = next_byte_in_range(g, ranges)
        BY <1>5 DEF InString
    <2>2. Len(ranges) \in 1..3 /\ \A n \in 1..Len(ranges) : ranges[n] \subseteq Continuation
        BY <1>5, RangesContinue
    <2> HIDE DEF ranges
    <2>3. Len(ranges) \in Nat /\ \A n \in 1..Len(ranges) : \A e \in ranges[n] : e \notin Surrogates
        BY <2>2, PlainIsNoSurrogate
    <2>4. Open(b, g)
        BY <1>1, <1>5, PlainIsNoSurrogate
    <2>5. QED BY <2>1, <2>3, <2>4, RangeGoes
<1>6. CASE c # Quote /\ c # Backslash /\ c \notin PlainBytes /\ c \notin DOMAIN Utf8Ranges
    <2>1. InString(g) = Fails(g)
        BY <1>6 DEF InString
    <2>2. QED BY <2>1, FailsGoes DEF Read
<1>7. QED BY <1>2, <1>3, <1>4, <1>5, <1>6

LEMMA StringGoes ==
    ASSUME NEW b \in Seq(Int), NEW l, Read(b, l), l.current = Quote
    PROVE  Goes(b, l, scan_string(l))
<1>1. Turns(l) \in Nat /\ Open(b, l) /\ l.current # EOF
    <2>1. Len(b) \in Nat /\ l.ia = b
        BY KeptTypes DEF Read
    <2>2. QED BY <2>1, ReadIsOpen, PlainIsNoSurrogate DEF Turns
<1>2. PICK after : /\ scan_string(l) = after[Turns(l)]
                   /\ \A n \in 0..Turns(l) : after[n] = StringTurn(l, after[n - 1], n)
    BY <1>1, StringTurns
<1> DEFINE G == {n \in Nat : Goes(b, l, after[n])}
<1>3. 0 \in G
    <2>1. after[0] = reset(l)
        BY <1>1, <1>2 DEF StringTurn
    <2>2. Open(b, reset(l)) /\ Leads(b, l, reset(l))
        BY <1>1, ResetRead
    <2>3. QED BY <2>1, <2>2, OpenGoes
<1>4. ASSUME NEW n \in 0..(Turns(l) - 1), n \in G PROVE n + 1 \in G
    <2> DEFINE before == after[n]
               g == get(before)
    <2>1. n + 1 \in 0..Turns(l) /\ (n + 1) - 1 = n /\ n + 1 # 0 /\ n + 1 \in Nat
        BY <1>1
    <2>2. after[n + 1] = IF Done(before) THEN before ELSE InString(g)
        BY <1>2, <2>1 DEF StringTurn
    <2>3. Goes(b, l, before)
        BY <1>4
    <2>4. CASE Done(before)
        BY <2>1, <2>2, <2>3, <2>4
    <2>5. CASE ~Done(before)
        <3>1. Open(b, before)
            BY <2>3, <2>5 DEF Goes, Failed, Done
        <3>2. Read(b, g) /\ Leads(b, before, g)
            BY <3>1, GetRead
        <3> HIDE DEF g
        <3>3. Goes(b, g, after[n + 1])
            BY <2>2, <2>5, <3>2, InStringGoes
        <3> HIDE DEF before
        <3>4. Goes(b, before, after[n + 1])
            BY <3>1, <3>2, <3>3, GoesOn DEF Open, Read
        <3>5. Goes(b, l, after[n + 1])
            BY <1>1, <2>3, <3>4, GoesOn DEF Open, Goes
        <3>6. QED BY <2>1, <3>5
    <2>6. QED BY <2>4, <2>5
<1> HIDE DEF G
<1>5. \A n \in 0..Turns(l) : n \in G
    BY <1>1, <1>3, <1>4, InductionTo
<1>6. Turns(l) \in G
    BY <1>1, <1>5
<1>7. QED BY <1>2, <1>6 DEF G

-----------------------------------------------------------------------------
(* Literals, whitespace and the byte order mark.                           *)

\* A byte of a literal.
LiteralTurn(l, literal_text, before, i) ==
    LET g == get(before)
    IN  IF i = 0 THEN l
        ELSE IF Done(before) THEN before
        ELSE IF g.current = literal_text[i + 1] THEN g ELSE Fails(g)

(* scan_literal goes by the last of its turns.                              *)
LEMMA LiteralTurns ==
    ASSUME NEW l, NEW literal_text, NEW return_type, (Len(literal_text) - 1) \in Nat
    PROVE  \E after : /\ scan_literal(l, literal_text, return_type) =
                          LET all == after[Len(literal_text) - 1]
                          IN  IF Done(all) THEN all ELSE Returns(all, return_type, <<>>)
                     /\ \A n \in 0..(Len(literal_text) - 1) : after[n] = LiteralTurn(l, literal_text, after[n - 1], n)
<1> DEFINE G == {m \in Nat : \E f : f = [n \in 0..m |-> LiteralTurn(l, literal_text, f[n - 1], n)]}
<1>1. 0 \in G
    <2> DEFINE f == [n \in 0..0 |-> LiteralTurn(l, literal_text, <<>>, n)]
    <2>1. 0..0 = {0}
        OBVIOUS
    <2>2. f[0] = LiteralTurn(l, literal_text, <<>>, 0) /\ LiteralTurn(l, literal_text, <<>>, 0) = LiteralTurn(l, literal_text, f[0 - 1], 0)
        BY DEF LiteralTurn
    <2>3. \A n \in 0..0 : f[n] = LiteralTurn(l, literal_text, f[n - 1], n)
        BY <2>1, <2>2
    <2> HIDE DEF f
    <2>4. f = [n \in 0..0 |-> f[n]]
        BY DEF f
    <2>5. f = [n \in 0..0 |-> LiteralTurn(l, literal_text, f[n - 1], n)]
        BY <2>3, <2>4
    <2>6. QED BY <2>5
<1>2. ASSUME NEW m \in Nat, m \in G PROVE m + 1 \in G
    <2>1. PICK f : f = [n \in 0..m |-> LiteralTurn(l, literal_text, f[n - 1], n)]
        BY <1>2
    <2>2. \A n \in 0..m : f[n] = LiteralTurn(l, literal_text, f[n - 1], n)
        BY <2>1
    <2> DEFINE g == [n \in 0..(m + 1) |-> IF n = m + 1 THEN LiteralTurn(l, literal_text, f[m], n) ELSE f[n]]
    <2>3. \A n \in 0..m : g[n] = f[n]
        OBVIOUS
    <2>4. g[m + 1] = LiteralTurn(l, literal_text, f[m], m + 1)
        OBVIOUS
    <2> HIDE DEF g
    <2>5. ASSUME NEW n \in 0..(m + 1) PROVE g[n] = LiteralTurn(l, literal_text, g[n - 1], n)
        <3>1. CASE n = 0
            <4>1. LiteralTurn(l, literal_text, f[n - 1], n) = LiteralTurn(l, literal_text, g[n - 1], n)
                BY <3>1 DEF LiteralTurn
            <4>2. n \in 0..m
                BY <3>1
            <4>3. QED BY <4>1, <4>2, <2>2, <2>3
        <3>2. CASE n # 0 /\ n # m + 1
            <4>1. n \in 0..m /\ n - 1 \in 0..m
                BY <3>2
            <4>2. QED BY <4>1, <2>2, <2>3
        <3>3. CASE n # 0 /\ n = m + 1
            <4>1. m \in 0..m /\ n - 1 = m
                BY <3>3
            <4>2. g[m] = f[m]
                BY <4>1, <2>3
            <4>3. QED BY <3>3, <4>1, <4>2, <2>4
        <3>4. QED BY <3>1, <3>2, <3>3
    <2>6. g = [n \in 0..(m + 1) |-> g[n]]
        BY DEF g
    <2>7. g = [n \in 0..(m + 1) |-> LiteralTurn(l, literal_text, g[n - 1], n)]
        BY <2>5, <2>6
    <2>8. QED BY <2>7
<1>3. \E f : f = [n \in 0..(Len(literal_text) - 1) |-> LiteralTurn(l, literal_text, f[n - 1], n)]
    <2> HIDE DEF G
    <2>1. \A m \in Nat : m \in G
        BY <1>1, <1>2, Induction
    <2>2. QED BY <2>1 DEF G
<1> DEFINE after == CHOOSE f : f = [n \in 0..(Len(literal_text) - 1) |-> LiteralTurn(l, literal_text, f[n - 1], n)]
<1>4. after = [n \in 0..(Len(literal_text) - 1) |-> LiteralTurn(l, literal_text, after[n - 1], n)]
    BY <1>3, Zenon
<1>5. scan_literal(l, literal_text, return_type) =
                          LET all == after[Len(literal_text) - 1]
                          IN  IF Done(all) THEN all ELSE Returns(all, return_type, <<>>)
    BY DEF scan_literal, LiteralTurn
<1> HIDE DEF after
<1>6. \A n \in 0..(Len(literal_text) - 1) : after[n] = LiteralTurn(l, literal_text, after[n - 1], n)
    BY <1>4
<1>7. QED BY <1>5, <1>6

LEMMA LiteralGoes ==
    ASSUME NEW b \in Seq(Int), NEW l, Open(b, l), NEW return_type,
           NEW literal_text, Len(literal_text) \in Nat \ {0},
           \A i \in 1..Len(literal_text) : literal_text[i] \notin Surrogates
    PROVE  Goes(b, l, scan_literal(l, literal_text, return_type))
<1> DEFINE N == Len(literal_text) - 1
<1>1. N \in Nat
    OBVIOUS
<1>2. PICK after : /\ scan_literal(l, literal_text, return_type) =
                          LET all == after[N]
                          IN  IF Done(all) THEN all ELSE Returns(all, return_type, <<>>)
                   /\ \A n \in 0..N : after[n] = LiteralTurn(l, literal_text, after[n - 1], n)
    BY ONLY <1>1, LiteralTurns
<1> DEFINE G == {n \in Nat : Goes(b, l, after[n])}
<1>3. 0 \in G
    <2>1. after[0] = l
        BY <1>1, <1>2 DEF LiteralTurn
    <2>2. Leads(b, l, l)
        <3>1. l.chars_read \in Nat /\ (b \in Seq(Nat) => Start(b, l) \in Nat)
            BY KeptTypes DEF Open
        <3>2. QED BY <3>1 DEF Leads
    <2>3. QED BY <2>1, <2>2, OpenGoes
<1>4. ASSUME NEW n \in 0..(N - 1), n \in G PROVE n + 1 \in G
    <2> DEFINE before == after[n]
               g == get(before)
    <2>1. n + 1 \in 0..N /\ (n + 1) - 1 = n /\ n + 1 # 0 /\ n + 1 \in Nat
          /\ (n + 1) + 1 \in 1..Len(literal_text)
        BY <1>1
    <2> HIDE DEF N
    <2>2. after[n + 1] = IF Done(before) THEN before
                         ELSE IF g.current = literal_text[(n + 1) + 1] THEN g ELSE Fails(g)
        BY <1>2, <2>1 DEF LiteralTurn
    <2>3. Goes(b, l, before)
        BY <1>4
    <2>4. CASE Done(before)
        BY <2>1, <2>2, <2>3, <2>4
    <2>5. CASE ~Done(before)
        <3>1. Open(b, before)
            BY <2>3, <2>5 DEF Goes, Failed, Done
        <3>2. Goes(b, before, Fails(g)) /\ (g.current \notin Surrogates => Goes(b, before, g))
            BY <3>1, GetIsOpen
        <3>3. literal_text[(n + 1) + 1] \notin Surrogates
            BY <2>1
        <3> HIDE DEF g
        <3>4. Goes(b, before, after[n + 1])
            BY <2>2, <2>5, <3>2, <3>3
        <3> HIDE DEF before
        <3>5. Goes(b, l, after[n + 1])
            BY <2>3, <3>4, GoesOn DEF Open, Goes
        <3>6. QED BY <2>1, <3>5
    <2>6. QED BY <2>4, <2>5
<1> HIDE DEF G
<1>5. \A n \in 0..N : n \in G
    <2> HIDE DEF N
    <2>1. QED BY <1>1, <1>3, <1>4, InductionTo
<1>6. N \in G
    BY <1>1, <1>5
<1> DEFINE all == after[N]
<1>7. Goes(b, l, all)
    BY <1>6 DEF G
<1>8. scan_literal(l, literal_text, return_type) =
        IF Done(all) THEN all ELSE Returns(all, return_type, <<>>)
    BY <1>2
<1> HIDE DEF all
<1>9. CASE Done(all)
    BY <1>7, <1>8, <1>9
<1>10. CASE ~Done(all)
    <2>1. Open(b, all)
        BY <1>7, <1>10 DEF Goes, Failed, Done
    <2>2. Goes(b, all, Returns(all, return_type, <<>>))
        BY <2>1, ReturnsGoes
    <2>3. QED BY <1>7, <1>8, <1>10, <2>2, GoesOn DEF Open, Goes
<1>11. QED BY <1>9, <1>10

\* A byte of whitespace.
WhitespaceTurn(l, before, n) ==
    IF n = 0 THEN get(l)
    ELSE IF before.current \in Whitespace THEN get(before) ELSE before

(* skip_whitespace is the last of its turns.                                *)
LEMMA WhitespaceTurns ==
    ASSUME NEW l, Turns(l) \in Nat
    PROVE  \E after : /\ skip_whitespace(l) = after[Turns(l)]
                     /\ \A n \in 0..Turns(l) : after[n] = WhitespaceTurn(l, after[n - 1], n)
<1> DEFINE G == {m \in Nat : \E f : f = [n \in 0..m |-> WhitespaceTurn(l, f[n - 1], n)]}
<1>1. 0 \in G
    <2> DEFINE f == [n \in 0..0 |-> WhitespaceTurn(l, <<>>, n)]
    <2>1. 0..0 = {0}
        OBVIOUS
    <2>2. f[0] = WhitespaceTurn(l, <<>>, 0) /\ WhitespaceTurn(l, <<>>, 0) = WhitespaceTurn(l, f[0 - 1], 0)
        BY DEF WhitespaceTurn
    <2>3. \A n \in 0..0 : f[n] = WhitespaceTurn(l, f[n - 1], n)
        BY <2>1, <2>2
    <2> HIDE DEF f
    <2>4. f = [n \in 0..0 |-> f[n]]
        BY DEF f
    <2>5. f = [n \in 0..0 |-> WhitespaceTurn(l, f[n - 1], n)]
        BY <2>3, <2>4
    <2>6. QED BY <2>5
<1>2. ASSUME NEW m \in Nat, m \in G PROVE m + 1 \in G
    <2>1. PICK f : f = [n \in 0..m |-> WhitespaceTurn(l, f[n - 1], n)]
        BY <1>2
    <2>2. \A n \in 0..m : f[n] = WhitespaceTurn(l, f[n - 1], n)
        BY <2>1
    <2> DEFINE g == [n \in 0..(m + 1) |-> IF n = m + 1 THEN WhitespaceTurn(l, f[m], n) ELSE f[n]]
    <2>3. \A n \in 0..m : g[n] = f[n]
        OBVIOUS
    <2>4. g[m + 1] = WhitespaceTurn(l, f[m], m + 1)
        OBVIOUS
    <2> HIDE DEF g
    <2>5. ASSUME NEW n \in 0..(m + 1) PROVE g[n] = WhitespaceTurn(l, g[n - 1], n)
        <3>1. CASE n = 0
            <4>1. WhitespaceTurn(l, f[n - 1], n) = WhitespaceTurn(l, g[n - 1], n)
                BY <3>1 DEF WhitespaceTurn
            <4>2. n \in 0..m
                BY <3>1
            <4>3. QED BY <4>1, <4>2, <2>2, <2>3
        <3>2. CASE n # 0 /\ n # m + 1
            <4>1. n \in 0..m /\ n - 1 \in 0..m
                BY <3>2
            <4>2. QED BY <4>1, <2>2, <2>3
        <3>3. CASE n # 0 /\ n = m + 1
            <4>1. m \in 0..m /\ n - 1 = m
                BY <3>3
            <4>2. g[m] = f[m]
                BY <4>1, <2>3
            <4>3. QED BY <3>3, <4>1, <4>2, <2>4
        <3>4. QED BY <3>1, <3>2, <3>3
    <2>6. g = [n \in 0..(m + 1) |-> g[n]]
        BY DEF g
    <2>7. g = [n \in 0..(m + 1) |-> WhitespaceTurn(l, g[n - 1], n)]
        BY <2>5, <2>6
    <2>8. QED BY <2>7
<1>3. \E f : f = [n \in 0..Turns(l) |-> WhitespaceTurn(l, f[n - 1], n)]
    <2> HIDE DEF G
    <2>1. \A m \in Nat : m \in G
        BY <1>1, <1>2, Induction
    <2>2. QED BY <2>1 DEF G
<1> DEFINE after == CHOOSE f : f = [n \in 0..Turns(l) |-> WhitespaceTurn(l, f[n - 1], n)]
<1>4. after = [n \in 0..Turns(l) |-> WhitespaceTurn(l, after[n - 1], n)]
    BY <1>3, Zenon
<1>5. skip_whitespace(l) = after[Turns(l)]
    BY DEF skip_whitespace, WhitespaceTurn
<1> HIDE DEF after
<1>6. \A n \in 0..Turns(l) : after[n] = WhitespaceTurn(l, after[n - 1], n)
    BY <1>4
<1>7. QED BY <1>5, <1>6

LEMMA WhitespaceReads ==
    ASSUME NEW b \in Seq(Int), NEW l, Open(b, l)
    PROVE  LET m == skip_whitespace(l) IN
           /\ Read(b, m) /\ Leads(b, l, m) /\ m.chars_read > l.chars_read
           /\ m.token = l.token
<1> DEFINE Was(m) == /\ Read(b, m) /\ Leads(b, l, m) /\ m.chars_read > l.chars_read
                     /\ m.token = l.token
<1>1. Turns(l) \in Nat /\ l.chars_read \in Nat
    <2>1. Len(b) \in Nat /\ l.ia = b /\ l.chars_read \in Nat
        BY KeptTypes DEF Open
    <2>2. QED BY <2>1 DEF Turns
<1>2. PICK after : /\ skip_whitespace(l) = after[Turns(l)]
                   /\ \A n \in 0..Turns(l) : after[n] = WhitespaceTurn(l, after[n - 1], n)
    BY ONLY <1>1, WhitespaceTurns
<1> DEFINE G == {n \in Nat : Was(after[n])}
<1>3. 0 \in G
    <2>1. after[0] = get(l)
        BY <1>1, <1>2 DEF WhitespaceTurn
    <2>2. Was(get(l))
        BY <1>1, GetRead
    <2>3. QED BY <2>1, <2>2
<1>4. ASSUME NEW n \in 0..(Turns(l) - 1), n \in G PROVE n + 1 \in G
    <2> DEFINE before == after[n]
               g == get(before)
    <2>1. n + 1 \in 0..Turns(l) /\ (n + 1) - 1 = n /\ n + 1 # 0 /\ n + 1 \in Nat
        BY <1>1
    <2>2. after[n + 1] = IF before.current \in Whitespace THEN g ELSE before
        BY <1>2, <2>1 DEF WhitespaceTurn
    <2>3. Was(before)
        BY <1>4
    <2>4. CASE before.current \notin Whitespace
        BY <2>1, <2>2, <2>3, <2>4
    <2>5. CASE before.current \in Whitespace
        <3>1. before.current \notin Surrogates
            <4>1. before.current \in Int /\ before.current < \hD800
                BY <2>5 DEF Whitespace
            <4>2. QED BY <4>1, NoSurrogate
        <3>2. Open(b, before)
            BY <2>3, <3>1, ReadIsOpen
        <3>3. Read(b, g) /\ Leads(b, before, g) /\ g.chars_read = before.chars_read + 1
              /\ g.token = before.token
            BY <3>2, GetRead
        <3> HIDE DEF g, before
        <3>4. Leads(b, l, g)
            BY <2>3, <3>2, <3>3, LeadsOn DEF Open, Read
        <3>5. before.chars_read \in Nat
            BY <3>2, KeptTypes DEF Open
        <3>6. Was(g)
            BY <1>1, <2>3, <3>3, <3>4, <3>5
        <3>7. QED BY <2>1, <2>2, <2>5, <3>6
    <2>6. QED BY <2>4, <2>5
<1> HIDE DEF G
<1>5. \A n \in 0..Turns(l) : n \in G
    BY <1>1, <1>3, <1>4, InductionTo
<1>6. Turns(l) \in G
    BY <1>1, <1>5
<1>7. QED BY <1>2, <1>6 DEF G

\* skip_bom only reads.
LEMMA BomGoes ==
    ASSUME NEW b \in Seq(Int), NEW l, Open(b, l)
    PROVE  Goes(b, l, skip_bom(l))
<1> DEFINE first == get(l)
           second == get(first)
           third == get(second)
<1>1. skip_bom(l) = IF first.current # \hEF THEN unget(first)
                    ELSE IF second.current # \hBB THEN Fails(second)
                    ELSE IF third.current # \hBF THEN Fails(third)
                    ELSE third
    BY DEF skip_bom
<1>2. \hEF \notin Surrogates /\ \hBB \notin Surrogates /\ \hBF \notin Surrogates
    BY NoSurrogate
<1>3. CASE first.current # \hEF
    <2>1. Read(b, first) /\ first.chars_read = l.chars_read + 1 /\ Leads(b, l, first)
        BY GetRead
    <2> DEFINE m == unget(first)
    <2>2. Open(b, m) /\ m.chars_read = first.chars_read - 1
          /\ (b \in Seq(Nat) => Start(b, m) = Start(b, first))
        BY <2>1, UngetOpen
    <2>3. l.chars_read \in Nat
        BY KeptTypes DEF Open
    <2> HIDE DEF m, first
    <2>4. Leads(b, l, m)
        BY <2>1, <2>2, <2>3 DEF Leads
    <2>5. QED BY <1>1, <1>3, <2>2, <2>4, OpenGoes DEF m
<1>4. CASE first.current = \hEF
    <2>1. Open(b, first) /\ Goes(b, l, first)
        BY <1>2, <1>4, GetIsOpen
    <2>2. Goes(b, first, skip_bom(l))
        <3>1. CASE second.current # \hBB
            BY <1>1, <1>4, <2>1, <3>1, GetIsOpen
        <3>2. CASE second.current = \hBB
            <4>1. Open(b, second) /\ Goes(b, first, second)
                BY <1>2, <2>1, <3>2, GetIsOpen
            <4>2. Goes(b, second, Fails(third))
                  /\ (third.current \notin Surrogates => Goes(b, second, third))
                BY <4>1, GetIsOpen
            <4> HIDE DEF third
            <4>3. Goes(b, second, skip_bom(l))
                BY <1>1, <1>2, <1>4, <3>2, <4>2
            <4> HIDE DEF second
            <4>4. QED BY <2>1, <4>1, <4>3, GoesOn DEF Open, Goes
        <3>3. QED BY <3>1, <3>2
    <2> HIDE DEF first
    <2>3. QED BY <2>1, <2>2, GoesOn DEF Open, Goes
<1>5. QED BY <1>3, <1>4

-----------------------------------------------------------------------------
(* Numbers.                                                                *)

Labels == {"init", "minus", "zero", "any1", "decimal1", "decimal2", "exponent", "sign", "any2"}
NumberStarts == Digits \cup {Minus}

\* Only what a number consists of leads on.
LEMMA GotoFacts ==
    ASSUME NEW label \in Labels, NEW c \in Int
    PROVE  /\ Goto(label, c) \in (Labels \ {"init"}) \cup {"done", "error"}
           /\ label = "init" => Goto(label, c) \notin {"done", "error"}
           /\ c \in Surrogates /\ label # "init" => Goto(label, c) \in {"done", "error"}
<1>1. /\ c \in Surrogates => /\ c \notin Digits /\ c \notin ExponentMarks /\ c # Point
                             /\ c # Minus /\ c # Zero /\ c # \h2B
    <2>1. c \in Surrogates => c >= \hD800
        BY DEF Surrogates
    <2>2. \A d \in Digits \cup ExponentMarks \cup {Point, Minus, Zero, \h2B} : d \in Int /\ d < \hD800
        BY DEF Digits, ExponentMarks, Point, Minus, Zero
    <2>3. QED BY <2>1, <2>2
<1>2. CASE label = "init"
    BY <1>1, <1>2 DEF Goto, AfterInteger, Labels
<1>3. CASE label = "minus"
    BY <1>1, <1>3 DEF Goto, AfterInteger, Labels
<1>4. CASE label = "zero"
    BY <1>1, <1>4 DEF Goto, AfterInteger, Labels
<1>5. CASE label = "any1"
    BY <1>1, <1>5 DEF Goto, AfterInteger, Labels
<1>6. CASE label = "decimal1"
    BY <1>1, <1>6 DEF Goto, AfterInteger, Labels
<1>7. CASE label = "decimal2"
    BY <1>1, <1>7 DEF Goto, AfterInteger, Labels
<1>8. CASE label = "exponent"
    BY <1>1, <1>8 DEF Goto, AfterInteger, Labels
<1>9. CASE label = "sign"
    BY <1>1, <1>9 DEF Goto, AfterInteger, Labels
<1>10. CASE label = "any2"
    BY <1>1, <1>10 DEF Goto, AfterInteger, Labels
<1>11. QED BY <1>2, <1>3, <1>4, <1>5, <1>6, <1>7, <1>8, <1>9, <1>10 DEF Labels

\* A step of scan_number.
NumberTurn(l, before, n) ==
    IF n = 0 THEN AtLabel(reset(l), "init", "value_unsigned")
    ELSE IF before.label \in {"done", "error"} THEN before ELSE Labelled(before)

(* scan_number is the last of its turns.                                    *)
LEMMA NumberTurns ==
    ASSUME NEW l, Turns(l) \in Nat
    PROVE  \E after : /\ scan_number(l) = after[Turns(l)].lexer
                     /\ \A n \in 0..Turns(l) : after[n] = NumberTurn(l, after[n - 1], n)
<1> DEFINE G == {m \in Nat : \E f : f = [n \in 0..m |-> NumberTurn(l, f[n - 1], n)]}
<1>1. 0 \in G
    <2> DEFINE f == [n \in 0..0 |-> NumberTurn(l, <<>>, n)]
    <2>1. 0..0 = {0}
        OBVIOUS
    <2>2. f[0] = NumberTurn(l, <<>>, 0) /\ NumberTurn(l, <<>>, 0) = NumberTurn(l, f[0 - 1], 0)
        BY DEF NumberTurn
    <2>3. \A n \in 0..0 : f[n] = NumberTurn(l, f[n - 1], n)
        BY <2>1, <2>2
    <2> HIDE DEF f
    <2>4. f = [n \in 0..0 |-> f[n]]
        BY DEF f
    <2>5. f = [n \in 0..0 |-> NumberTurn(l, f[n - 1], n)]
        BY <2>3, <2>4
    <2>6. QED BY <2>5
<1>2. ASSUME NEW m \in Nat, m \in G PROVE m + 1 \in G
    <2>1. PICK f : f = [n \in 0..m |-> NumberTurn(l, f[n - 1], n)]
        BY <1>2
    <2>2. \A n \in 0..m : f[n] = NumberTurn(l, f[n - 1], n)
        BY <2>1
    <2> DEFINE g == [n \in 0..(m + 1) |-> IF n = m + 1 THEN NumberTurn(l, f[m], n) ELSE f[n]]
    <2>3. \A n \in 0..m : g[n] = f[n]
        OBVIOUS
    <2>4. g[m + 1] = NumberTurn(l, f[m], m + 1)
        OBVIOUS
    <2> HIDE DEF g
    <2>5. ASSUME NEW n \in 0..(m + 1) PROVE g[n] = NumberTurn(l, g[n - 1], n)
        <3>1. CASE n = 0
            <4>1. NumberTurn(l, f[n - 1], n) = NumberTurn(l, g[n - 1], n)
                BY <3>1 DEF NumberTurn
            <4>2. n \in 0..m
                BY <3>1
            <4>3. QED BY <4>1, <4>2, <2>2, <2>3
        <3>2. CASE n # 0 /\ n # m + 1
            <4>1. n \in 0..m /\ n - 1 \in 0..m
                BY <3>2
            <4>2. QED BY <4>1, <2>2, <2>3
        <3>3. CASE n # 0 /\ n = m + 1
            <4>1. m \in 0..m /\ n - 1 = m
                BY <3>3
            <4>2. g[m] = f[m]
                BY <4>1, <2>3
            <4>3. QED BY <3>3, <4>1, <4>2, <2>4
        <3>4. QED BY <3>1, <3>2, <3>3
    <2>6. g = [n \in 0..(m + 1) |-> g[n]]
        BY DEF g
    <2>7. g = [n \in 0..(m + 1) |-> NumberTurn(l, g[n - 1], n)]
        BY <2>5, <2>6
    <2>8. QED BY <2>7
<1>3. \E f : f = [n \in 0..Turns(l) |-> NumberTurn(l, f[n - 1], n)]
    <2> HIDE DEF G
    <2>1. \A m \in Nat : m \in G
        BY <1>1, <1>2, Induction
    <2>2. QED BY <2>1 DEF G
<1> DEFINE after == CHOOSE f : f = [n \in 0..Turns(l) |-> NumberTurn(l, f[n - 1], n)]
<1>4. after = [n \in 0..Turns(l) |-> NumberTurn(l, after[n - 1], n)]
    BY <1>3, Zenon
<1>5. scan_number(l) = after[Turns(l)].lexer
    BY DEF scan_number, NumberTurn
<1> HIDE DEF after
<1>6. \A n \in 0..Turns(l) : after[n] = NumberTurn(l, after[n - 1], n)
    BY <1>4
<1>7. QED BY <1>5, <1>6

LEMMA ConvertedGoes ==
    ASSUME NEW b \in Seq(Int), NEW l, Open(b, l), NEW number_type
    PROVE  Goes(b, l, Converted(l, number_type))
<1>1. \E token, value : Converted(l, number_type) = Returns(l, token, value)
    BY Zenon DEF Converted
<1>2. QED BY <1>1, ReturnsGoes

\* One turn, from a label.
LEMMA LabelledGoes ==
    ASSUME NEW b \in Seq(Int), NEW s, Read(b, s.lexer), s.label \in Labels,
           s.label = "init" => s.lexer.current \in NumberStarts
    PROVE  LET t == Labelled(s) IN
           \/ t.label = "error" /\ Goes(b, s.lexer, t.lexer)
           \/ /\ t.label = "done" /\ s.label # "init" /\ Kept(b, t.lexer) /\ Within(b, t.lexer)
              /\ Open(b, t.lexer) /\ t.lexer.chars_read = s.lexer.chars_read - 1
              /\ b \in Seq(Nat) => Start(b, t.lexer) = Start(b, s.lexer)
           \/ /\ t.label \in Labels \ {"init"} /\ Read(b, t.lexer) /\ Leads(b, s.lexer, t.lexer)
              /\ t.lexer.chars_read = s.lexer.chars_read + 1
<1> DEFINE l == s.lexer
           c == l.current
           next == Goto(s.label, c)
           t == Labelled(s)
<1>1. c \in Int /\ Kept(b, l) /\ Within(b, l) /\ l.chars_read \in Nat
    BY KeptTypes DEF Read
<1>2. /\ next \in (Labels \ {"init"}) \cup {"done", "error"}
      /\ s.label = "init" => next \notin {"done", "error"}
      /\ c \in Surrogates /\ s.label # "init" => next \in {"done", "error"}
    BY <1>1, GotoFacts
<1>3. CASE next = "error"
    <2>1. t = AtLabel(Fails(l), "error", s.number_type)
        BY <1>3 DEF Labelled
    <2>2. t.label = "error" /\ t.lexer = Fails(l)
        BY <2>1 DEF AtLabel
    <2>3. QED BY <1>1, <2>2, FailsGoes
<1>4. CASE next = "done"
    <2> DEFINE m == unget(l)
               converted == Converted(m, s.number_type)
    <2>1. t = AtLabel(converted, "done", s.number_type)
        BY <1>4 DEF Labelled
    <2>2. t.label = "done" /\ t.lexer = converted
        BY <2>1 DEF AtLabel
    <2>3. Open(b, m) /\ m.chars_read = l.chars_read - 1
          /\ (b \in Seq(Nat) => Start(b, m) = Start(b, l))
        BY UngetOpen
    <2>4. PICK token, value : converted = Returns(m, token, value)
        BY Zenon DEF Converted
    <2> HIDE DEF m
    <2>5. /\ Open(b, converted) /\ SameText(m, converted) /\ Goes(b, m, converted)
        BY <2>3, <2>4, ReturnsKept, ReturnsGoes DEF Open
    <2>6. converted.chars_read = l.chars_read - 1
          /\ (b \in Seq(Nat) => Start(b, converted) = Start(b, l))
        BY <2>3, <2>5 DEF SameText, Start, ReadOf
    <2>7. s.label # "init"
        BY <1>2, <1>4
    <2>8. QED BY <2>2, <2>5, <2>6, <2>7 DEF Goes
<1>5. CASE next \notin {"done", "error"}
    <2> DEFINE byte == IF c = Point THEN DecimalPoint ELSE c
               a == add(l, byte)
               g == get(a)
    <2>1. t = AtLabel(g, next, TypeAt(next, s.number_type))
        BY <1>5 DEF Labelled
    <2>2. t.label = next /\ t.lexer = g
        BY <2>1 DEF AtLabel
    <2>3. c \notin Surrogates
        <3>1. s.label = "init" => c \notin Surrogates
            <4>1. \A d \in NumberStarts : d \in Int /\ d < \hD800
                BY DEF NumberStarts, Digits, Zero, Minus
            <4>2. QED BY <4>1, NoSurrogate
        <3>2. QED BY <1>2, <1>5, <3>1
    <2>4. Open(b, l)
        BY <2>3, ReadIsOpen
    <2>5. Open(b, a) /\ Leads(b, l, a) /\ SameText(l, a)
        BY <2>4, AddKept DEF Open
    <2> HIDE DEF a
    <2>6. Read(b, g) /\ Leads(b, a, g) /\ g.chars_read = a.chars_read + 1
        BY <2>5, GetRead
    <2> HIDE DEF g
    <2>7. Leads(b, l, g)
        BY <1>1, <2>5, <2>6, LeadsOn DEF Open, Read
    <2>8. g.chars_read = l.chars_read + 1
        BY <2>5, <2>6 DEF SameText
    <2> HIDE DEF l
    <2>9. QED BY <1>2, <1>5, <2>2, <2>6, <2>7, <2>8 DEF l
<1>6. QED BY <1>3, <1>4, <1>5

LEMMA NumberGoes ==
    ASSUME NEW b \in Seq(Int), NEW l, Read(b, l), l.current \in NumberStarts
    PROVE  Goes(b, l, scan_number(l))
<1> DEFINE Was(s, n) ==
              \/ s.label \in {"done", "error"} /\ Goes(b, l, s.lexer)
              \/ /\ s.label \in Labels /\ Read(b, s.lexer) /\ Leads(b, l, s.lexer)
                 /\ s.lexer.chars_read = l.chars_read + n
                 /\ s.label = "init" <=> n = 0
                 /\ s.label = "init" => s.lexer.current \in NumberStarts
<1>1. /\ Turns(l) \in Nat /\ Turns(l) = Len(b) + 1 /\ l.chars_read \in Nat /\ Len(b) \in Nat
      /\ l.current # EOF
    <2>1. Len(b) \in Nat /\ l.ia = b /\ l.chars_read \in Nat
        BY KeptTypes DEF Read
    <2>2. l.current # EOF
        BY DEF NumberStarts, Digits, Zero, Minus, EOF
    <2>3. QED BY <2>1, <2>2 DEF Turns
<1>2. PICK after : /\ scan_number(l) = after[Turns(l)].lexer
                   /\ \A n \in 0..Turns(l) : after[n] = NumberTurn(l, after[n - 1], n)
    BY ONLY <1>1, NumberTurns
<1> DEFINE G == {n \in Nat : Was(after[n], n)}
<1>3. 0 \in G
    <2>1. after[0] = AtLabel(reset(l), "init", "value_unsigned")
        BY <1>1, <1>2 DEF NumberTurn
    <2>2. after[0].label = "init" /\ after[0].lexer = reset(l)
        BY <2>1 DEF AtLabel
    <2>3. Read(b, reset(l)) /\ Leads(b, l, reset(l)) /\ reset(l).chars_read = l.chars_read
          /\ reset(l).current = l.current
        BY <1>1, ResetRead
    <2>4. QED BY <1>1, <2>2, <2>3 DEF Labels
<1>4. ASSUME NEW n \in 0..(Turns(l) - 1), n \in G PROVE n + 1 \in G
    <2> DEFINE s == after[n]
               t == after[n + 1]
    <2>1. n + 1 \in 0..Turns(l) /\ (n + 1) - 1 = n /\ n + 1 # 0 /\ n + 1 \in Nat /\ n \in Nat
        BY <1>1
    <2>2. t = IF s.label \in {"done", "error"} THEN s ELSE Labelled(s)
        BY <1>2, <2>1 DEF NumberTurn
    <2>3. Was(s, n)
        BY <1>4
    <2> HIDE DEF s, t
    <2>4. CASE s.label \in {"done", "error"}
        <3>1. t = s
            BY <2>2, <2>4
        <3>2. s.label \notin Labels
            BY <2>4 DEF Labels
        <3>3. Was(t, n + 1)
            BY <2>3, <2>4, <3>1, <3>2
        <3>4. QED BY <2>1, <3>3 DEF t
    <2>5. CASE s.label \notin {"done", "error"}
        <3>1. t = Labelled(s)
            BY <2>2, <2>5
        <3>2. /\ s.label \in Labels /\ Read(b, s.lexer) /\ Leads(b, l, s.lexer)
              /\ s.lexer.chars_read = l.chars_read + n
              /\ s.label = "init" <=> n = 0
              /\ s.label = "init" => s.lexer.current \in NumberStarts
            BY <2>3, <2>5
        <3>3. \/ t.label = "error" /\ Goes(b, s.lexer, t.lexer)
              \/ /\ t.label = "done" /\ s.label # "init" /\ Kept(b, t.lexer) /\ Within(b, t.lexer)
                 /\ Open(b, t.lexer) /\ t.lexer.chars_read = s.lexer.chars_read - 1
                 /\ b \in Seq(Nat) => Start(b, t.lexer) = Start(b, s.lexer)
              \/ /\ t.label \in Labels \ {"init"} /\ Read(b, t.lexer) /\ Leads(b, s.lexer, t.lexer)
                 /\ t.lexer.chars_read = s.lexer.chars_read + 1
            BY <3>1, <3>2, LabelledGoes
        <3>4. Was(t, n + 1)
            <4>1. CASE t.label = "error" /\ Goes(b, s.lexer, t.lexer)
                <5>1. Goes(b, l, t.lexer)
                    BY <3>2, <4>1, GoesOn DEF Read
                <5>2. QED BY <4>1, <5>1
            <4>2. CASE /\ t.label = "done" /\ s.label # "init" /\ Kept(b, t.lexer) /\ Within(b, t.lexer)
                       /\ Open(b, t.lexer) /\ t.lexer.chars_read = s.lexer.chars_read - 1
                       /\ b \in Seq(Nat) => Start(b, t.lexer) = Start(b, s.lexer)
                <5>1. n # 0
                    BY <1>1, <2>1, <3>2, <4>2
                <5>2. t.lexer.chars_read >= l.chars_read
                    BY <1>1, <2>1, <3>2, <4>2, <5>1
                <5>3. Leads(b, l, t.lexer)
                    BY <3>2, <4>2, <5>2 DEF Leads
                <5>4. Goes(b, l, t.lexer)
                    BY <4>2, <5>3, OpenGoes
                <5>5. QED BY <4>2, <5>4
            <4>3. CASE /\ t.label \in Labels \ {"init"} /\ Read(b, t.lexer)
                       /\ Leads(b, s.lexer, t.lexer)
                       /\ t.lexer.chars_read = s.lexer.chars_read + 1
                <5>1. Leads(b, l, t.lexer)
                    BY <3>2, <4>3, LeadsOn DEF Read
                <5>2. t.lexer.chars_read = l.chars_read + (n + 1)
                    BY <1>1, <2>1, <3>2, <4>3
                <5>3. QED BY <4>3, <5>1, <5>2
            <4>4. QED BY <3>3, <4>1, <4>2, <4>3
        <3>5. QED BY <2>1, <3>4 DEF t
    <2>6. QED BY <2>4, <2>5
<1> HIDE DEF G
<1>5. \A n \in 0..Turns(l) : n \in G
    BY <1>1, <1>3, <1>4, InductionTo
<1> DEFINE s == after[Turns(l)]
<1>6. Was(s, Turns(l))
    <2>1. Turns(l) \in G
        BY <1>1, <1>5
    <2>2. QED BY <2>1 DEF G
<1> HIDE DEF s
<1>7. scan_number(l) = s.lexer
    BY <1>2 DEF s
<1>8. CASE s.label \in {"done", "error"}
    <2>1. s.label \notin Labels
        BY <1>8 DEF Labels
    <2>2. QED BY <1>6, <1>7, <1>8, <2>1
<1>9. CASE s.label \notin {"done", "error"}
    <2>1. /\ Read(b, s.lexer) /\ Leads(b, l, s.lexer)
          /\ s.lexer.chars_read = l.chars_read + (Len(b) + 1)
        BY <1>1, <1>6, <1>9
    <2>2. s.lexer.taken = s.lexer.chars_read
        BY <2>1 DEF Read, Kept
    <2>3. s.lexer.taken > Len(b)
        BY <1>1, <2>1, <2>2
    <2>4. ~Cut(b)
        BY <1>1, <2>1, <2>2, <2>3 DEF Read, Within
    <2>5. Open(b, s.lexer)
        BY <2>1, <2>4 DEF Open, Read, Ahead
    <2>6. QED BY <1>7, <2>1, <2>5, OpenGoes
<1>10. QED BY <1>8, <1>9

-----------------------------------------------------------------------------
(* Tokens.                                                                 *)

\* It fails or has not returned a token.
LEMMA BomToken ==
    ASSUME NEW b \in Seq(Int), NEW l, Open(b, l)
    PROVE  Failed(skip_bom(l)) \/ skip_bom(l).token = l.token
<1> DEFINE first == get(l)
           second == get(first)
           third == get(second)
<1>1. skip_bom(l) = IF first.current # \hEF THEN unget(first)
                    ELSE IF second.current # \hBB THEN Fails(second)
                    ELSE IF third.current # \hBF THEN Fails(third)
                    ELSE third
    BY DEF skip_bom
<1>2. \hEF \notin Surrogates /\ \hBB \notin Surrogates
    BY NoSurrogate
<1>3. Read(b, first) /\ first.token = l.token
    BY GetRead
<1>4. unget(first).token = l.token
    BY <1>3, UngetOpen
<1>5. CASE first.current = \hEF
    <2>1. Open(b, first)
        BY <1>2, <1>5, GetIsOpen
    <2>2. Kept(b, second) /\ Within(b, second) /\ second.token = first.token
          /\ (second.current = \hBB => Open(b, second))
        BY <1>2, <2>1, GetIsOpen
    <2> HIDE DEF first
    <2>3. Failed(Fails(second))
        BY <2>2, FailsGoes
    <2>4. CASE second.current = \hBB
        <3>1. Kept(b, third) /\ Within(b, third) /\ third.token = second.token
            BY <2>2, <2>4, GetIsOpen
        <3> HIDE DEF second
        <3>2. Failed(Fails(third))
            BY <3>1, FailsGoes
        <3> HIDE DEF third
        <3>3. QED BY <1>1, <1>3, <1>5, <2>2, <2>4, <3>1, <3>2
    <2> HIDE DEF second
    <2>5. QED BY <1>1, <1>5, <2>3, <2>4
<1> HIDE DEF first
<1>6. QED BY <1>1, <1>4, <1>5

LEMMA GoesGood ==
    ASSUME NEW b \in Seq(Int), NEW l, NEW m, Goes(b, l, m)
    PROVE  Good(b, m) /\ Leads(b, l, m)
    BY DEF Goes, Good, Open, Failed, Ends

\* What the token's first byte leads to.
LEMMA TokenCases ==
    ASSUME NEW l
    PROVE  LET c == l.current IN
           \/ c \in DOMAIN Structural /\ scan_token(l) = Returns(l, Structural[c], <<>>)
           \/ c \in DOMAIN Literals /\ scan_token(l) = scan_literal(l, Literals[c][2], Literals[c][1])
           \/ c = Quote /\ scan_token(l) = scan_string(l)
           \/ c \in NumberStarts /\ scan_token(l) = scan_number(l)
           \/ c \in {0, EOF} /\ scan_token(l) = Returns(l, "end_of_input", <<>>)
           \/ scan_token(l) = Fails(l)
    BY SMTT(60) DEF scan_token, NumberStarts

LEMMA TokenGood ==
    ASSUME NEW b \in Seq(Int), NEW l, Read(b, l)
    PROVE  Good(b, scan_token(l)) /\ Leads(b, l, scan_token(l))
<1> DEFINE c == l.current
<1>1. c \notin Surrogates => Open(b, l)
    BY ReadIsOpen
<1>2. Kept(b, l) /\ Within(b, l)
    BY DEF Read
<1>3. CASE c \in DOMAIN Structural /\ scan_token(l) = Returns(l, Structural[c], <<>>)
    <2>1. \A d \in DOMAIN Structural : d \in Int /\ d < \hD800
        BY DEF Structural
    <2>2. Open(b, l)
        BY <1>1, <1>3, <2>1, NoSurrogate
    <2>3. Goes(b, l, scan_token(l))
        BY <1>3, <2>2, ReturnsGoes
    <2>4. QED BY <2>3, GoesGood
<1>4. CASE c \in DOMAIN Literals /\ scan_token(l) = scan_literal(l, Literals[c][2], Literals[c][1])
    <2>1. c \in {\h74, \h66, \h6E}
        BY <1>4 DEF Literals
    <2>2. c \in Int /\ c < \hD800
        BY <2>1
    <2>3. Open(b, l)
        BY <1>1, <2>2, NoSurrogate
    <2> DEFINE literal == Literals[c][2]
    <2>4. /\ Len(literal) \in Nat \ {0}
          /\ \A i \in 1..Len(literal) : literal[i] \in Int /\ literal[i] < \hD800
        <3>1. CASE c = \h74
            <4>1. literal = <<\h74, \h72, \h75, \h65>>
                BY <3>1 DEF Literals
            <4>2. QED BY <4>1
        <3>2. CASE c = \h66
            <4>1. literal = <<\h66, \h61, \h6C, \h73, \h65>>
                BY <3>2 DEF Literals
            <4>2. QED BY <4>1
        <3>3. CASE c = \h6E
            <4>1. literal = <<\h6E, \h75, \h6C, \h6C>>
                BY <3>3 DEF Literals
            <4>2. QED BY <4>1
        <3>4. QED BY <2>1, <3>1, <3>2, <3>3
    <2> HIDE DEF literal
    <2>5. \A i \in 1..Len(literal) : literal[i] \notin Surrogates
        BY <2>4, NoSurrogate
    <2>6. Goes(b, l, scan_literal(l, literal, Literals[c][1]))
        BY <2>3, <2>4, <2>5, LiteralGoes
    <2>7. QED BY <1>4, <2>6, GoesGood DEF literal
<1>5. CASE c = Quote /\ scan_token(l) = scan_string(l)
    <2>1. Goes(b, l, scan_token(l))
        BY <1>5, StringGoes
    <2>2. QED BY <2>1, GoesGood
<1>6. CASE c \in NumberStarts /\ scan_token(l) = scan_number(l)
    <2>1. Goes(b, l, scan_token(l))
        BY <1>6, NumberGoes
    <2>2. QED BY <2>1, GoesGood
<1>7. CASE c \in {0, EOF} /\ scan_token(l) = Returns(l, "end_of_input", <<>>)
    <2>1. Kept(b, scan_token(l)) /\ Leads(b, l, scan_token(l)) /\ Within(b, scan_token(l))
          /\ scan_token(l).token = "end_of_input"
        BY <1>2, <1>7, ReturnsKept
    <2>2. QED BY <2>1 DEF Good, Ends
<1>8. CASE scan_token(l) = Fails(l)
    <2>1. Goes(b, l, scan_token(l))
        BY <1>2, <1>8, FailsGoes
    <2>2. QED BY <2>1, GoesGood
<1>9. QED BY <1>3, <1>4, <1>5, <1>6, <1>7, <1>8, TokenCases

\* The lexer between two tokens.
LEMMA ScanGood ==
    ASSUME NEW b \in Seq(Int), NEW l, Open(b, l)
    PROVE  LET m == scan(l) IN
           /\ Good(b, m) /\ Leads(b, l, m)
           /\ m.chars_read > l.chars_read \/ (l.chars_read = 0 /\ Ends(m))
<1> DEFINE begun == Begun(l)
           start == IF l.chars_read = 0 THEN skip_bom(begun) ELSE begun
<1>1. /\ Kept(b, l) /\ Open(b, begun) /\ Leads(b, l, begun) /\ begun.token = "uninitialized"
      /\ begun.chars_read = l.chars_read /\ l.chars_read \in Nat
    BY ReturnsKept, KeptTypes DEF Open, Begun, SameText
<1>2. Goes(b, begun, start) /\ (Failed(start) \/ start.token = "uninitialized")
      /\ (l.chars_read # 0 => start = begun)
    <2>1. CASE l.chars_read = 0
        BY <1>1, <2>1, BomGoes, BomToken
    <2>2. CASE l.chars_read # 0
        <3>1. Leads(b, begun, begun)
            <4>1. begun.chars_read \in Nat /\ (b \in Seq(Nat) => Start(b, begun) \in Nat)
                BY <1>1, KeptTypes DEF Open
            <4>2. QED BY <4>1 DEF Leads
        <3>2. QED BY <1>1, <2>2, <3>1, OpenGoes
    <2>3. QED BY <2>1, <2>2
<1>3. scan(l) = IF Done(start) THEN start ELSE scan_token(skip_whitespace(start))
    BY DEF scan
<1> HIDE DEF start, begun
<1>4. Goes(b, l, start)
    BY <1>1, <1>2, GoesOn DEF Open
<1>5. CASE Done(start)
    <2>1. Failed(start) /\ l.chars_read = 0
        BY <1>1, <1>2, <1>5 DEF Done
    <2>2. QED BY <1>3, <1>4, <1>5, <2>1, GoesGood DEF Failed, Ends
<1>6. CASE ~Done(start)
    <2> DEFINE first == skip_whitespace(start)
               m == scan_token(first)
    <2>1. Open(b, start)
        BY <1>2, <1>6 DEF Goes, Failed, Done
    <2>2. Read(b, first) /\ Leads(b, start, first) /\ first.chars_read > start.chars_read
        BY <2>1, WhitespaceReads
    <2> HIDE DEF first
    <2>3. Good(b, m) /\ Leads(b, first, m)
        BY <2>2, TokenGood
    <2> HIDE DEF m
    <2>4. Leads(b, start, m)
        BY <2>1, <2>2, <2>3, LeadsOn DEF Open, Read, Good
    <2>5. Leads(b, l, m)
        BY <1>1, <1>4, <2>3, <2>4, LeadsOn DEF Goes, Good
    <2>6. m.chars_read \in Nat /\ first.chars_read \in Nat /\ start.chars_read \in Nat
        BY <2>1, <2>2, <2>3, KeptTypes DEF Open, Read, Good
    <2>7. m.chars_read > l.chars_read
        BY <1>1, <1>4, <2>2, <2>3, <2>6 DEF Goes, Leads
    <2>8. QED BY <1>3, <1>6, <2>3, <2>5, <2>7 DEF m, first
<1>7. QED BY <1>5, <1>6

\* A lexer that has read nothing.
LEMMA LexerOpen ==
    ASSUME NEW b \in Seq(Int)
    PROVE  Open(b, Lexer(b)) /\ Lexer(b).chars_read = 0
<1> DEFINE l == Lexer(b)
<1>1. Len(b) \in Nat /\ DOMAIN b = 1..Len(b) /\ (b # <<>> => Len(b) > 0)
    BY LenProperties, EmptySeq
<1>2. /\ IsLexer(l) /\ l.ia = b /\ l.taken = 0 /\ l.next_unget = FALSE /\ l.chars_read = 0
      /\ l.current = EOF /\ l.token_string = <<>>
    BY DEF Lexer, IsLexer
<1> HIDE DEF l
<1>3. CharAt(b, 0) = EOF
    BY <1>1 DEF CharAt
<1>4. Quotes(b, l)
    <2>1. <<>> \in Seq(Int) /\ Len(<<>>) = 0 /\ DOMAIN <<>> = {}
        BY EmptySeq
    <2>2. Start(b, l) = 0
        BY <1>1, <1>2, <2>1 DEF Start, ReadOf
    <2>3. QED BY <1>1, <1>2, <2>1, <2>2 DEF Quotes
<1>5. Kept(b, l)
    <2>1. l.taken \in Nat
        BY <1>2
    <2>2. l.next_unget \in BOOLEAN /\ ~l.next_unget
        BY <1>2, Zenon
    <2>3. l.chars_read = l.taken /\ l.current = CharAt(b, l.taken)
        BY <1>2, <1>3
    <2>4. QED BY <1>2, <1>4, <2>1, <2>2, <2>3 DEF Kept
<1>6. QED BY <1>1, <1>2, <1>5 DEF Open, Ahead, Cut, l

\* The next token, if there is one.
ScannedTurn(chars, before, n) ==
    IF n = 0 THEN <<scan(Lexer(chars))>>
    ELSE IF Ends(Last(before)) THEN before
    ELSE Append(before, scan(Last(before)))

(* Scanned is the last of its turns.                                        *)
LEMMA ScannedTurns ==
    ASSUME NEW chars, (Len(chars) + 1) \in Nat
    PROVE  \E after : /\ Scanned(chars) = after[Len(chars) + 1]
                     /\ \A n \in 0..(Len(chars) + 1) : after[n] = ScannedTurn(chars, after[n - 1], n)
<1> DEFINE G == {m \in Nat : \E f : f = [n \in 0..m |-> ScannedTurn(chars, f[n - 1], n)]}
<1>1. 0 \in G
    <2> DEFINE f == [n \in 0..0 |-> ScannedTurn(chars, <<>>, n)]
    <2>1. 0..0 = {0}
        OBVIOUS
    <2>2. f[0] = ScannedTurn(chars, <<>>, 0) /\ ScannedTurn(chars, <<>>, 0) = ScannedTurn(chars, f[0 - 1], 0)
        BY DEF ScannedTurn
    <2>3. \A n \in 0..0 : f[n] = ScannedTurn(chars, f[n - 1], n)
        BY <2>1, <2>2
    <2> HIDE DEF f
    <2>4. f = [n \in 0..0 |-> f[n]]
        BY DEF f
    <2>5. f = [n \in 0..0 |-> ScannedTurn(chars, f[n - 1], n)]
        BY <2>3, <2>4
    <2>6. QED BY <2>5
<1>2. ASSUME NEW m \in Nat, m \in G PROVE m + 1 \in G
    <2>1. PICK f : f = [n \in 0..m |-> ScannedTurn(chars, f[n - 1], n)]
        BY <1>2
    <2>2. \A n \in 0..m : f[n] = ScannedTurn(chars, f[n - 1], n)
        BY <2>1
    <2> DEFINE g == [n \in 0..(m + 1) |-> IF n = m + 1 THEN ScannedTurn(chars, f[m], n) ELSE f[n]]
    <2>3. \A n \in 0..m : g[n] = f[n]
        OBVIOUS
    <2>4. g[m + 1] = ScannedTurn(chars, f[m], m + 1)
        OBVIOUS
    <2> HIDE DEF g
    <2>5. ASSUME NEW n \in 0..(m + 1) PROVE g[n] = ScannedTurn(chars, g[n - 1], n)
        <3>1. CASE n = 0
            <4>1. ScannedTurn(chars, f[n - 1], n) = ScannedTurn(chars, g[n - 1], n)
                BY <3>1 DEF ScannedTurn
            <4>2. n \in 0..m
                BY <3>1
            <4>3. QED BY <4>1, <4>2, <2>2, <2>3
        <3>2. CASE n # 0 /\ n # m + 1
            <4>1. n \in 0..m /\ n - 1 \in 0..m
                BY <3>2
            <4>2. QED BY <4>1, <2>2, <2>3
        <3>3. CASE n # 0 /\ n = m + 1
            <4>1. m \in 0..m /\ n - 1 = m
                BY <3>3
            <4>2. g[m] = f[m]
                BY <4>1, <2>3
            <4>3. QED BY <3>3, <4>1, <4>2, <2>4
        <3>4. QED BY <3>1, <3>2, <3>3
    <2>6. g = [n \in 0..(m + 1) |-> g[n]]
        BY DEF g
    <2>7. g = [n \in 0..(m + 1) |-> ScannedTurn(chars, g[n - 1], n)]
        BY <2>5, <2>6
    <2>8. QED BY <2>7
<1>3. \E f : f = [n \in 0..(Len(chars) + 1) |-> ScannedTurn(chars, f[n - 1], n)]
    <2> HIDE DEF G
    <2>1. \A m \in Nat : m \in G
        BY <1>1, <1>2, Induction
    <2>2. QED BY <2>1 DEF G
<1> DEFINE after == CHOOSE f : f = [n \in 0..(Len(chars) + 1) |-> ScannedTurn(chars, f[n - 1], n)]
<1>4. after = [n \in 0..(Len(chars) + 1) |-> ScannedTurn(chars, after[n - 1], n)]
    BY <1>3, Zenon
<1>5. Scanned(chars) = after[Len(chars) + 1]
    BY DEF Scanned, ScannedTurn
<1> HIDE DEF after
<1>6. \A n \in 0..(Len(chars) + 1) : after[n] = ScannedTurn(chars, after[n - 1], n)
    BY <1>4
<1>7. QED BY <1>5, <1>6

\* A token and the one after it.
NextIs(b, l, m) ==
    /\ ~Ends(l) /\ m.chars_read > l.chars_read
    /\ b \in Seq(Nat) => Start(b, m) >= Start(b, l)

HasRead(l) == l.chars_read > 0 \/ Ends(l)

TokensGood(b, tokens) ==
    /\ \A i \in 1..Len(tokens) : Good(b, tokens[i]) /\ HasRead(tokens[i])
    /\ \A i \in 1..(Len(tokens) - 1) : NextIs(b, tokens[i], tokens[i + 1])

LEMMA ScannedGood ==
    ASSUME NEW b \in Seq(Int)
    PROVE  \E D : Scanned(b) \in Seq(D) /\ Scanned(b) # <<>> /\ TokensGood(b, Scanned(b))
<1> DEFINE Was(tokens) == \E D : tokens \in Seq(D) /\ tokens # <<>> /\ TokensGood(b, tokens)
<1>1. Len(b) \in Nat /\ Len(b) + 1 \in Nat
    BY LenProperties
<1>2. PICK after : /\ Scanned(b) = after[Len(b) + 1]
                   /\ \A n \in 0..(Len(b) + 1) : after[n] = ScannedTurn(b, after[n - 1], n)
    BY ONLY <1>1, ScannedTurns
<1> DEFINE G == {n \in Nat : Was(after[n])}
<1>3. 0 \in G
    <2> DEFINE m == scan(Lexer(b))
    <2>1. after[0] = <<m>>
        BY <1>1, <1>2 DEF ScannedTurn
    <2>2. Good(b, m) /\ HasRead(m)
        BY LexerOpen, ScanGood DEF HasRead
    <2> HIDE DEF m
    <2>3. <<m>> \in Seq({m}) /\ Len(<<m>>) = 1 /\ <<m>>[1] = m /\ <<m>> # <<>>
        OBVIOUS
    <2>4. TokensGood(b, <<m>>)
        BY <2>2, <2>3 DEF TokensGood
    <2>5. Was(after[0])
        BY <2>1, <2>3, <2>4
    <2>6. QED BY <2>5
<1>4. ASSUME NEW n \in 0..Len(b), n \in G PROVE n + 1 \in G
    <2> DEFINE before == after[n]
               l == Last(before)
               m == scan(l)
    <2>1. n + 1 \in 0..(Len(b) + 1) /\ (n + 1) - 1 = n /\ n + 1 # 0 /\ n + 1 \in Nat
        BY <1>1
    <2>2. after[n + 1] = IF Ends(l) THEN before ELSE Append(before, m)
        BY <1>2, <2>1 DEF ScannedTurn
    <2>3. PICK D : before \in Seq(D) /\ before # <<>> /\ TokensGood(b, before)
        BY <1>4
    <2>4. CASE Ends(l)
        <3>1. Was(after[n + 1])
            BY <2>2, <2>3, <2>4
        <3>2. QED BY <2>1, <3>1
    <2>5. CASE ~Ends(l)
        <3> DEFINE k == Len(before)
                   tokens == Append(before, m)
        <3>1. /\ k \in Nat /\ k >= 1 /\ DOMAIN before = 1..k /\ l = before[k]
            <4>1. k \in Nat /\ DOMAIN before = 1..k
                BY <2>3, LenProperties
            <4>2. k \in Nat \ {0}
                BY <2>3, EmptySeq
            <4>3. l = before[k]
                BY <2>3, PlaceFacts
            <4>4. QED BY <4>1, <4>2, <4>3
        <3>2. Good(b, l) /\ l.chars_read > 0
            <4>1. k \in 1..Len(before)
                BY <3>1
            <4>2. QED BY <2>3, <2>5, <3>1, <4>1 DEF TokensGood, HasRead
        <3>3. Open(b, l)
            BY <2>5, <3>2 DEF Good, Open
        <3> HIDE DEF l
        <3>4. Good(b, m) /\ Leads(b, l, m) /\ m.chars_read > l.chars_read
            BY <3>2, <3>3, ScanGood
        <3> HIDE DEF m
        <3>5. NextIs(b, l, m)
            BY <2>5, <3>4 DEF NextIs, Leads
        <3>6. m.chars_read \in Nat /\ l.chars_read \in Nat
            BY <3>3, <3>4, KeptTypes DEF Good, Open
        <3>7. before \in Seq(D \cup {m})
            BY <2>3, SeqMonotonic
        <3>8. /\ tokens \in Seq(D \cup {m}) /\ Len(tokens) = k + 1 /\ tokens[k + 1] = m
              /\ \A i \in 1..k : tokens[i] = before[i]
            BY <3>7, AppendProperties
        <3>9. tokens # <<>>
            <4>1. Len(<<>>) = 0
                BY EmptySeq
            <4> HIDE DEF tokens, k
            <4>2. Len(tokens) # Len(<<>>)
                BY <3>1, <3>8, <4>1
            <4>3. QED BY <4>2
        <3> HIDE DEF tokens, k, before
        <3>10. TokensGood(b, tokens)
            <4>1. ASSUME NEW i \in 1..(k + 1)
                  PROVE  Good(b, tokens[i]) /\ HasRead(tokens[i])
                <5>1. CASE i = k + 1
                    BY <3>2, <3>4, <3>6, <3>8, <5>1 DEF HasRead
                <5>2. CASE i # k + 1
                    <6>1. i \in 1..k
                        BY <3>1, <5>2
                    <6>2. Good(b, before[i]) /\ HasRead(before[i])
                        <7>1. i \in 1..Len(before)
                            BY <6>1 DEF k
                        <7>2. QED BY <2>3, <7>1 DEF TokensGood
                    <6>3. tokens[i] = before[i]
                        BY <3>8, <6>1
                    <6>4. QED BY <6>2, <6>3
                <5>3. QED BY <5>1, <5>2
            <4>2. ASSUME NEW i \in 1..k
                  PROVE  NextIs(b, tokens[i], tokens[i + 1])
                <5>1. CASE i = k
                    BY <3>1, <3>5, <3>8, <5>1
                <5>2. CASE i # k
                    <6>1. i \in 1..(k - 1) /\ i + 1 \in 1..k
                        BY <3>1, <5>2
                    <6>2. NextIs(b, before[i], before[i + 1])
                        BY <2>3, <6>1 DEF TokensGood, k
                    <6>3. QED BY <3>8, <6>1, <6>2
                <5>3. QED BY <5>1, <5>2
            <4>3. Len(tokens) = k + 1 /\ (k + 1) - 1 = k
                BY <3>1, <3>8
            <4>4. QED BY <4>1, <4>2, <4>3 DEF TokensGood
        <3>11. Was(after[n + 1])
            BY <2>2, <2>5, <3>8, <3>9, <3>10 DEF tokens
        <3>12. QED BY <2>1, <3>11
    <2>6. QED BY <2>4, <2>5
<1> HIDE DEF G
<1>5. \A n \in 0..(Len(b) + 1) : n \in G
    <2>1. \A n \in 0..((Len(b) + 1) - 1) : n \in G => n + 1 \in G
        BY <1>1, <1>4
    <2>2. QED BY <1>1, <1>3, <2>1, InductionTo
<1>6. Len(b) + 1 \in G
    BY <1>1, <1>5
<1>7. QED BY <1>2, <1>6 DEF G

-----------------------------------------------------------------------------
(* The tokens and the text.                                                *)

(* The end of a sequence is a suffix of it.                                *)
LEMMA EndIsSuffix ==
    ASSUME NEW S, NEW s \in Seq(S), NEW t \in Seq(S), Len(s) <= Len(t),
           \A i \in 1..Len(s) : s[i] = t[(Len(t) - Len(s)) + i]
    PROVE  IsSuffix(s, t)
<1> DEFINE m == Len(s)
           n == Len(t)
           a == Reverse(s)
           c == Reverse(t)
<1>1. m \in Nat /\ n \in Nat /\ m <= n
    BY LenProperties
<1>2. /\ a \in Seq(S) /\ Len(a) = m /\ \A i \in 1..m : a[i] = s[m - i + 1]
      /\ c \in Seq(S) /\ Len(c) = n /\ \A i \in 1..n : c[i] = t[n - i + 1]
    BY ReverseFacts
<1>3. \A i \in 1..m : s[i] = t[(n - m) + i]
    OBVIOUS
<1> HIDE DEF m, n, a, c
<1>4. ASSUME NEW i \in 1..m PROVE a[i] = c[i]
    <2>1. m - i + 1 \in 1..m /\ i \in 1..n /\ (n - m) + (m - i + 1) = n - i + 1
        BY <1>1
    <2>2. a[i] = t[(n - m) + (m - i + 1)]
        BY <1>2, <1>3, <2>1
    <2>3. QED BY <1>2, <2>1, <2>2
<1> DEFINE x == SubSeq(a, 1, m)
           y == SubSeq(c, 1, m)
<1>5. /\ x \in Seq(S) /\ Len(x) = m /\ \A i \in 1..m : x[i] = a[i]
      /\ y \in Seq(S) /\ Len(y) = m /\ \A i \in 1..m : y[i] = c[i]
    <2>1. 1 \in 1..(m + 1) /\ m \in (1 - 1)..m /\ m \in (1 - 1)..n /\ 1 \in 1..(n + 1)
        BY <1>1
    <2>2. /\ x \in Seq(S) /\ Len(x) = m - 1 + 1
          /\ \A i \in 1..(m - 1 + 1) : x[i] = a[1 + i - 1]
        BY <1>2, <2>1, PartFacts
    <2>3. /\ y \in Seq(S) /\ Len(y) = m - 1 + 1
          /\ \A i \in 1..(m - 1 + 1) : y[i] = c[1 + i - 1]
        BY <1>2, <2>1, PartFacts
    <2> HIDE DEF x, y
    <2>4. m - 1 + 1 = m /\ \A i \in 1..m : 1 + i - 1 = i
        BY <1>1
    <2>5. QED BY <2>2, <2>3, <2>4
<1> HIDE DEF x, y
<1>6. x = y
    BY <1>4, <1>5, SeqEqual
<1>7. IsPrefix(a, c)
    BY <1>1, <1>2, <1>6 DEF IsPrefix, x, y
<1>8. QED BY <1>7 DEF IsSuffix, a, c

\* What is quoted is the end of what has been read.
LEMMA QuotedIsSuffix ==
    ASSUME NEW b \in Seq(Nat), NEW l, Kept(b, l)
    PROVE  IsSuffix(l.token_string, SubSeq(b, 1, Min({l.chars_read, Len(b)})))
<1> DEFINE n == Len(b)
           r == ReadOf(b, l)
           s == l.token_string
           from == Start(b, l)
           t == SubSeq(b, 1, r)
<1>1. b \in Seq(Int) /\ n \in Nat
    <2>1. Nat \subseteq Int
        OBVIOUS
    <2>2. QED BY <2>1, SeqMonotonic, LenProperties
<1>2. /\ l.chars_read \in Nat /\ r \in Nat /\ from \in Nat
    BY <1>1, KeptTypes
<1>3. /\ s \in Seq(Int) /\ Len(s) \in Nat /\ DOMAIN s = 1..Len(s)
      /\ \A i \in 1..Len(s) : s[i] = b[from + i]
    BY LenProperties DEF Kept, Quotes
<1>4. Min({l.chars_read, n}) = r /\ r <= n
    <2>1. {l.chars_read, n} \in SUBSET Nat /\ {l.chars_read, n} # {}
        BY <1>1, <1>2
    <2> DEFINE least == Min({l.chars_read, n})
    <2>2. least \in {l.chars_read, n} /\ \A x \in {l.chars_read, n} : least <= x
        BY <2>1, Least
    <2> HIDE DEF least, n
    <2>3. least = r
        BY <1>1, <1>2, <2>2 DEF ReadOf, n
    <2>4. r <= n
        BY <1>1, <1>2 DEF ReadOf, n
    <2>5. QED BY <2>3, <2>4 DEF least
<1>5. from = r - Len(s)
    BY DEF Start
<1> HIDE DEF r, s, from
<1>6. t \in Seq(Int) /\ Len(t) = r /\ \A i \in 1..r : t[i] = b[i]
    <2>1. 1 \in 1..(n + 1) /\ r \in (1 - 1)..n
        BY <1>1, <1>2, <1>4
    <2>2. /\ t \in Seq(Int) /\ Len(t) = r - 1 + 1
          /\ \A i \in 1..(r - 1 + 1) : t[i] = b[1 + i - 1]
        BY <1>1, <2>1, PartFacts
    <2> HIDE DEF t
    <2>3. r - 1 + 1 = r /\ \A i \in 1..r : 1 + i - 1 = i
        BY <1>2
    <2>4. QED BY <2>2, <2>3
<1> HIDE DEF t
<1>7. Len(s) <= Len(t)
    BY <1>2, <1>3, <1>5, <1>6
<1>8. ASSUME NEW i \in 1..Len(s) PROVE s[i] = t[(Len(t) - Len(s)) + i]
    <2> DEFINE m == Len(s)
    <2>1. m \in Nat /\ from = r - m
        BY <1>3, <1>5
    <2> HIDE DEF m
    <2>2. i \in 1..m
        BY DEF m
    <2>3. from + i \in 1..r /\ (r - m) + i = from + i
        BY <1>2, <2>1, <2>2
    <2>4. t[from + i] = b[from + i] /\ s[i] = b[from + i]
        BY <1>3, <1>6, <2>3
    <2>5. QED BY <1>6, <2>1, <2>3, <2>4 DEF m
<1>9. IsSuffix(s, t)
    BY <1>3, <1>6, <1>7, <1>8, EndIsSuffix
<1>10. QED BY <1>4, <1>9 DEF s, t, n

LEMMA NextFollows ==
    ASSUME NEW b \in Seq(Nat), NEW l, NEW m, Kept(b, l), Kept(b, m), NextIs(b, l, m)
    PROVE  FollowEachOther(l, m)
<1>1. b \in Seq(Int) /\ Len(b) \in Nat
    <2>1. Nat \subseteq Int
        OBVIOUS
    <2>2. QED BY <2>1, SeqMonotonic, LenProperties
<1>2. l.chars_read \in Nat /\ m.chars_read \in Nat
    BY <1>1, KeptTypes
<1>3. Len(l.token_string) \in Nat /\ Len(m.token_string) \in Nat
    BY LenProperties DEF Kept, Quotes
<1>4. m.chars_read > l.chars_read /\ Start(b, m) >= Start(b, l)
    BY DEF NextIs
<1>5. m.chars_read - ReadOf(b, m) >= l.chars_read - ReadOf(b, l)
      /\ ReadOf(b, m) \in Nat /\ ReadOf(b, l) \in Nat
    BY <1>1, <1>2, <1>4 DEF ReadOf
<1>6. m.chars_read - Len(m.token_string) >= l.chars_read - Len(l.token_string)
    <2> DEFINE x == Len(l.token_string)
               y == Len(m.token_string)
    <2>1. Start(b, l) = ReadOf(b, l) - x /\ Start(b, m) = ReadOf(b, m) - y
        BY DEF Start
    <2>2. x \in Nat /\ y \in Nat
        BY <1>3
    <2> HIDE DEF x, y
    <2>3. m.chars_read - y >= l.chars_read - x
        BY <1>2, <1>4, <1>5, <2>1, <2>2
    <2>4. QED BY <2>3 DEF x, y
<1>7. QED BY <1>4, <1>6 DEF FollowEachOther

(* The text of a narrow string is its bytes.                               *)
Typed == writing \in Writings /\ text \in Seq(Units(writing.size))

LEMMA TextTyped == TextSpec => []Typed
<1>1. TextInit => Typed
    BY WritingAssumption DEF TextInit, Typed
<1>2. Typed /\ [Extend]_<<text, writing>> => Typed'
    <2>1. SUFFICES ASSUME Typed, [Extend]_<<text, writing>> PROVE Typed'
        OBVIOUS
    <2>2. CASE Extend
        <3>1. PICK p \in writing.pieces : text' = text \o p /\ writing' = writing
            BY <2>2 DEF Extend
        <3>2. p \in Seq(Units(writing.size)) /\ text \in Seq(Units(writing.size))
            BY <2>1, <3>1, WritingAssumption DEF Typed
        <3>3. text \o p \in Seq(Units(writing.size))
            BY <3>2, ConcatProperties
        <3>4. QED BY <2>1, <3>1, <3>3 DEF Typed
    <2>3. CASE UNCHANGED <<text, writing>>
        BY <2>1, <2>3 DEF Typed
    <2>4. QED BY <2>1, <2>2, <2>3
<1>3. QED BY <1>1, <1>2, PTL DEF TextSpec

LEMMA TypedCover == Typed => TokensCoverText
<1>1. SUFFICES ASSUME Typed, Narrow PROVE CoverText(Scanned(text))
    BY DEF TokensCoverText
<1>2. text \in Seq(Nat)
    <2>1. Units(1) \subseteq Nat
        BY SMT DEF Units, LargestUnit
    <2>2. text \in Seq(Units(1))
        BY <1>1 DEF Typed, Narrow
    <2>3. QED BY <2>1, <2>2, SeqMonotonic
<1>3. text \in Seq(Int)
    <2>1. Nat \subseteq Int
        OBVIOUS
    <2>2. QED BY <1>2, <2>1, SeqMonotonic
<1> DEFINE tokens == Scanned(text)
<1>4. PICK D : tokens \in Seq(D) /\ TokensGood(text, tokens)
    BY <1>3, ScannedGood
<1>5. Len(tokens) \in Nat /\ DOMAIN tokens = 1..Len(tokens)
    BY <1>4, LenProperties
<1> HIDE DEF tokens
<1>6. \A i \in 1..Len(tokens) : Kept(text, tokens[i])
    BY <1>4 DEF TokensGood, Good
<1>7. ASSUME NEW i \in DOMAIN tokens
      PROVE  IsSuffix(tokens[i].token_string,
                      SubSeq(text, 1, Min({tokens[i].chars_read, Len(text)})))
    <2>1. Kept(text, tokens[i])
        BY <1>5, <1>6
    <2>2. QED BY <1>2, <2>1, QuotedIsSuffix
<1>8. ASSUME NEW i \in 1..(Len(tokens) - 1) PROVE FollowEachOther(tokens[i], tokens[i + 1])
    <2>1. i \in 1..Len(tokens) /\ i + 1 \in 1..Len(tokens)
        BY <1>5
    <2>2. NextIs(text, tokens[i], tokens[i + 1])
        BY <1>4 DEF TokensGood
    <2>3. QED BY <1>2, <1>6, <2>1, <2>2, NextFollows
<1>9. QED BY <1>7, <1>8 DEF CoverText, tokens

(* Each token begins where the one before it ended, and an error message   *)
(* quotes what has been read, from a place that never goes back            *)
(* (get, unget and reset, json.hpp 3277-3350).                             *)
THEOREM TokensCover == TextSpec => []TokensCoverText
    BY TextTyped, TypedCover, PTL

-----------------------------------------------------------------------------
(* Wide strings.                                                           *)

\* What the adapter returns from a unit on.
WideTurn(str, size, f, p) ==
    LET filled == fill_buffer(str, size, p)
        rest == f[filled.next]
    IN  IF p >= Len(str) THEN [bytes |-> <<>>, past |-> p > Len(str)]
        ELSE [bytes |-> filled.bytes \o rest.bytes, past |-> rest.past]

\* One unit or two are taken at a time.
LEMMA FillNext ==
    ASSUME NEW str, NEW size, NEW p
    PROVE  fill_buffer(str, size, p).next \in {p + 1, p + 2}
    BY DEF fill_buffer, fill_buffer16, fill_buffer32

LEMMA WideLater ==
    ASSUME NEW str, Len(str) \in Nat, NEW size, NEW f, NEW g, NEW p \in 0..(Len(str) + 1),
           \A q \in (p + 1)..(Len(str) + 1) : f[q] = g[q]
    PROVE  WideTurn(str, size, f, p) = WideTurn(str, size, g, p)
<1> DEFINE filled == fill_buffer(str, size, p)
<1>1. filled.next \in {p + 1, p + 2}
    BY FillNext
<1> HIDE DEF filled
<1>2. CASE p >= Len(str)
    <2>1. \A h : WideTurn(str, size, h, p) = [bytes |-> <<>>, past |-> p > Len(str)]
        BY <1>2 DEF WideTurn
    <2>2. QED BY <2>1
<1>3. CASE ~(p >= Len(str))
    <2>1. filled.next \in (p + 1)..(Len(str) + 1)
        BY <1>1, <1>3
    <2>2. f[filled.next] = g[filled.next]
        BY <2>1
    <2>3. \A h : WideTurn(str, size, h, p) = [bytes |-> filled.bytes \o h[filled.next].bytes,
                                              past |-> h[filled.next].past]
        BY <1>3, Zenon DEF WideTurn, filled
    <2>4. QED BY <2>2, <2>3, Zenon
<1>4. QED BY <1>2, <1>3

(* WideCharacters is the first of its turns.                                 *)
LEMMA WideTurns ==
    ASSUME NEW str, NEW size, Len(str) \in Nat
    PROVE  \E f : /\ WideCharacters(str, size) = f[0]
                 /\ \A p \in 0..Len(str) + 1 : f[p] = WideTurn(str, size, f, p)
<1> DEFINE n == Len(str) + 1
           Is(f, from) == /\ f = [p \in 0..n |-> f[p]]
                          /\ \A p \in from..n : f[p] = WideTurn(str, size, f, p)
           G == {m \in Nat : m <= n - 0 + 1 => \E f : Is(f, n + 1 - m)}
<1>1. n \in Nat /\ n >= 0
    OBVIOUS
<1>2. 0 \in G
    <2> DEFINE f == [p \in 0..n |-> <<>>]
    <2>1. f = [p \in 0..n |-> f[p]] /\ (n + 1 - 0)..n = {}
        BY <1>1
    <2>2. Is(f, n + 1 - 0)
        BY <2>1
    <2>3. QED BY <2>2
<1>3. ASSUME NEW m \in Nat, m \in G PROVE m + 1 \in G
    <2>1. SUFFICES ASSUME m + 1 <= n - 0 + 1 PROVE \E g : Is(g, n + 1 - (m + 1))
        OBVIOUS
    <2> DEFINE k == n - m
    <2>2. /\ k \in 0..n /\ n + 1 - (m + 1) = k /\ n + 1 - m = k + 1 /\ m <= n - 0 + 1
          /\ k..n = {k} \cup (k + 1)..n /\ k \notin (k + 1)..n
        <3> HIDE DEF n
        <3>1. QED BY <1>1, <2>1
    <2>3. PICK f : Is(f, k + 1)
        BY <1>3, <2>2
    <2> DEFINE g == [p \in 0..n |-> IF p = k THEN WideTurn(str, size, f, k) ELSE f[p]]
    <2> HIDE DEF k, n
    <2>4. \A p \in (k + 1)..n : g[p] = f[p] /\ p \in 0..n
        BY <1>1, <2>2
    <2>5. g[k] = WideTurn(str, size, f, k) /\ g = [p \in 0..n |-> g[p]]
        BY <2>2
    <2> HIDE DEF g
    <2>6. ASSUME NEW p \in k..n PROVE g[p] = WideTurn(str, size, g, p)
        <3>1. p \in 0..n /\ \A q \in (p + 1)..n : q \in (k + 1)..n
            BY <1>1, <2>2
        <3>2. WideTurn(str, size, f, p) = WideTurn(str, size, g, p)
            <4>1. p \in 0..(Len(str) + 1) /\ \A q \in (p + 1)..(Len(str) + 1) : f[q] = g[q]
                BY <2>4, <3>1 DEF n
            <4>2. QED BY <4>1, WideLater
        <3>3. CASE p = k
            BY <2>5, <3>2, <3>3
        <3>4. CASE p # k
            <4>1. p \in (k + 1)..n
                BY <2>2, <3>4
            <4>2. f[p] = WideTurn(str, size, f, p)
                BY <2>3, <4>1
            <4>3. QED BY <2>4, <3>2, <4>1, <4>2
        <3>5. QED BY <3>3, <3>4
    <2>7. Is(g, k)
        BY <2>5, <2>6
    <2>8. QED BY <2>2, <2>7
<1>4. PICK f : Is(f, 0)
    <2> HIDE DEF G, n
    <2>1. \A m \in Nat : m \in G
        BY <1>2, <1>3, Induction
    <2>2. n - 0 + 1 \in Nat /\ n + 1 - (n - 0 + 1) = 0
        BY <1>1
    <2>3. n - 0 + 1 \in G
        BY <2>1, <2>2
    <2>4. QED BY <2>2, <2>3 DEF G
<1>5. \E h : h = [p \in 0..(Len(str) + 1) |-> WideTurn(str, size, h, p)]
    <2> DEFINE h == [p \in 0..n |-> WideTurn(str, size, f, p)]
    <2>1. h = [p \in 0..n |-> f[p]]
        BY <1>4
    <2>2. f = h
        BY <1>4, <2>1
    <2>3. QED BY <2>2
<1> DEFINE from == CHOOSE h : h = [p \in 0..(Len(str) + 1) |-> WideTurn(str, size, h, p)]
<1>6. from = [p \in 0..(Len(str) + 1) |-> WideTurn(str, size, from, p)]
    BY <1>5, Zenon
<1>7. WideCharacters(str, size) = from[0]
    BY DEF WideCharacters, WideTurn
<1> HIDE DEF from
<1>8. \A p \in 0..(Len(str) + 1) : from[p] = WideTurn(str, size, from, p)
    BY <1>6
<1>9. QED BY <1>7, <1>8

(* Induction from the last number of a range down.                         *)
LEMMA Downward ==
    ASSUME NEW m \in Nat, NEW n \in Nat, NEW G,
           \A p \in m..n : (\A q \in (p + 1)..n : q \in G) => p \in G
    PROVE  \A p \in m..n : p \in G
<1> DEFINE H == {k \in Nat : \A q \in m..n : q >= n - k => q \in G}
<1>1. 0 \in H
    <2>1. ASSUME NEW q \in m..n, q >= n - 0 PROVE q \in G
        <3>1. (q + 1)..n = {}
            BY <2>1
        <3>2. QED BY <3>1
    <2>2. QED BY <2>1
<1>2. ASSUME NEW k \in Nat, k \in H PROVE k + 1 \in H
    <2>1. ASSUME NEW q \in m..n, q >= n - (k + 1) PROVE q \in G
        <3>1. \A r \in (q + 1)..n : r \in m..n /\ r >= n - k
            BY <2>1
        <3>2. \A r \in (q + 1)..n : r \in G
            BY <1>2, <3>1
        <3>3. QED BY <3>2
    <2>2. QED BY <2>1
<1> HIDE DEF H
<1>3. \A k \in Nat : k \in H
    BY <1>1, <1>2, Induction
<1>4. \A p \in m..n : p >= n - n
    OBVIOUS
<1>5. QED BY <1>3, <1>4 DEF H

(* A code point's bytes are numbers, and there is at least one.            *)
LEMMA Utf8Bytes ==
    ASSUME NEW wc \in Int
    PROVE  Utf8(wc) \in Seq(Int) /\ Utf8(wc) # <<>>
<1>1. \A w \in {1, 64, 4096} : Continuing(wc, w) \in Int
    BY DEF Continuing
<1>2. /\ \hC0 + wc \div 64 \in Int /\ \hE0 + wc \div 4096 \in Int
      /\ \hF0 + wc \div 262144 \in Int
    OBVIOUS
<1>3. QED BY <1>1, <1>2 DEF Utf8

(* What the adapter makes of a unit is numbers; a surrogate at the very    *)
(* end is passed on.                                                       *)
LEMMA FillFacts ==
    ASSUME NEW str \in Seq(Int), NEW size, NEW p \in 0..(Len(str) - 1)
    PROVE  LET filled == fill_buffer(str, size, p) IN
           /\ filled.bytes \in Seq(Int) /\ filled.bytes # <<>>
           /\ filled.next \in (p + 1)..(Len(str) + 1)
           /\ filled.next > Len(str) => /\ filled.bytes = <<str[p + 1]>>
                                        /\ str[p + 1] \in Surrogates
<1> DEFINE wc == str[p + 1]
           pair == \h10000 + (wc % 1024) * 1024 + (str[p + 2] % 1024)
<1>1. Len(str) \in Nat /\ wc \in Int /\ (p + 1 # Len(str) => str[p + 2] \in Int)
    BY LenProperties, ElementOfSeq
<1>2. <<wc>> \in Seq(Int) /\ <<wc>> # <<>>
    BY <1>1
<1>3. Utf8(wc) \in Seq(Int) /\ Utf8(wc) # <<>>
    BY <1>1, Utf8Bytes
<1>4. p + 1 # Len(str) => Utf8(pair) \in Seq(Int) /\ Utf8(pair) # <<>>
    <2>1. p + 1 # Len(str) => pair \in Int
        BY <1>1
    <2>2. QED BY <2>1, Utf8Bytes
<1> HIDE DEF wc, pair
<1>5. CASE size = 2 /\ wc \in Surrogates
    <2>1. fill_buffer(str, size, p) = [next |-> p + 2, bytes |-> IF p + 1 = Len(str) THEN <<wc>> ELSE Utf8(pair)]
        BY <1>5 DEF fill_buffer, fill_buffer16, Surrogates, wc, pair
    <2> DEFINE filled == fill_buffer(str, size, p)
    <2>2. filled.next = p + 2 /\ filled.bytes = IF p + 1 = Len(str) THEN <<wc>> ELSE Utf8(pair)
        BY <2>1
    <2> HIDE DEF filled
    <2>3. filled.bytes \in Seq(Int) /\ filled.bytes # <<>>
        BY <1>2, <1>4, <2>2, Zenon
    <2>4. filled.next \in (p + 1)..(Len(str) + 1) /\ (filled.next > Len(str) => p + 1 = Len(str))
        BY <1>1, <2>2
    <2>5. QED BY <1>5, <2>2, <2>3, <2>4, Zenon DEF wc, filled
<1>6. CASE ~(size = 2 /\ wc \in Surrogates)
    <2>1. fill_buffer(str, size, p) = [next |-> p + 1, bytes |-> Utf8(wc)]
        BY <1>6 DEF fill_buffer, fill_buffer16, fill_buffer32, Surrogates, wc
    <2>2. QED BY <1>1, <1>3, <2>1
<1>7. QED BY <1>5, <1>6

LEMMA WideFields ==
    ASSUME NEW r, NEW bytes, NEW past, r = [bytes |-> bytes, past |-> past]
    PROVE  r.bytes = bytes /\ r.past = past
    OBVIOUS

(* The adapter's index moves past the size exactly where a surrogate is    *)
(* what it returns last.                                                   *)
LEMMA WideIsCut ==
    ASSUME NEW str \in Seq(Int), NEW size
    PROVE  LET read == WideCharacters(str, size)
           IN  read.bytes \in Seq(Int) /\ (read.past => Cut(read.bytes))
<1>1. Len(str) \in Nat
    BY LenProperties
<1>2. PICK f : /\ WideCharacters(str, size) = f[0]
               /\ \A p \in 0..Len(str) + 1 : f[p] = WideTurn(str, size, f, p)
    BY ONLY <1>1, WideTurns
<1> DEFINE Is(p) == /\ f[p].bytes \in Seq(Int)
                    /\ f[p].past => p > Len(str) \/ Cut(f[p].bytes)
           G == {p \in Nat : Is(p)}
           n == Len(str) + 1
<1>3. ASSUME NEW p \in 0..n, \A q \in (p + 1)..n : q \in G PROVE p \in G
    <2>1. CASE p >= Len(str)
        <3>1. f[p] = [bytes |-> <<>>, past |-> p > Len(str)]
            <4>1. p \in 0..Len(str) + 1
                BY <1>3
            <4>2. f[p] = WideTurn(str, size, f, p)
                BY <1>2, <4>1, Zenon
            <4>3. QED BY <2>1, <4>2, Zenon DEF WideTurn
        <3>2. <<>> \in Seq(Int) /\ p \in Nat
            BY <1>1
        <3>3. f[p].bytes = <<>> /\ f[p].past = (p > Len(str))
            BY <3>1, WideFields, Zenon
        <3>4. QED BY <3>2, <3>3, Zenon
    <2>2. CASE ~(p >= Len(str))
        <3> DEFINE filled == fill_buffer(str, size, p)
                   rest == f[filled.next]
                   c == filled.bytes
                   d == rest.bytes
        <3>1. p \in 0..(Len(str) - 1) /\ p \in 0..(Len(str) + 1)
            BY <1>1, <2>2
        <3>2. /\ c \in Seq(Int) /\ c # <<>> /\ filled.next \in (p + 1)..n
              /\ filled.next > Len(str) => /\ c = <<str[p + 1]>>
                                           /\ str[p + 1] \in Surrogates
            BY <3>1, FillFacts
        <3>3. f[p].bytes = c \o d /\ f[p].past = rest.past
            <4>1. p \in 0..Len(str) + 1
                BY <1>3
            <4>2. f[p] = WideTurn(str, size, f, p)
                BY <1>2, <4>1, Zenon
            <4> DEFINE e == c \o d
                       past == rest.past
            <4>3. f[p] = [bytes |-> e, past |-> past]
                BY <2>2, <4>2, Zenon DEF WideTurn
            <4> HIDE DEF e, past
            <4>4. f[p].bytes = e /\ f[p].past = past
                BY <4>3, WideFields, Zenon
            <4>5. QED BY <4>4, Zenon DEF e, past
        <3> HIDE DEF filled
        <3>4. Is(filled.next)
            BY <1>3, <3>2
        <3>5. filled.next > Len(str) => d = <<>>
            <4>1. SUFFICES ASSUME filled.next > Len(str) PROVE d = <<>>
                OBVIOUS
            <4>2. filled.next \in 0..Len(str) + 1 /\ filled.next >= Len(str)
                BY <1>1, <3>2, <4>1
            <4>3. rest = WideTurn(str, size, f, filled.next)
                BY <1>2, <4>2, Zenon
            <4>4. rest = [bytes |-> <<>>, past |-> filled.next > Len(str)]
                BY <4>2, <4>3, Zenon DEF WideTurn
            <4>5. QED BY <4>4, WideFields, Zenon
        <3>6. d \in Seq(Int) /\ (rest.past => filled.next > Len(str) \/ Cut(d))
            BY <3>4
        <3> HIDE DEF c, d, rest
        <3>7. /\ c \o d \in Seq(Int) /\ Len(c \o d) = Len(c) + Len(d)
              /\ \A i \in 1..(Len(c) + Len(d)) :
                   (c \o d)[i] = IF i <= Len(c) THEN c[i] ELSE d[i - Len(c)]
            BY <3>2, <3>6, ConcatProperties
        <3>8. rest.past => Cut(c \o d)
            <4>1. SUFFICES ASSUME rest.past PROVE Cut(c \o d)
                OBVIOUS
            <4>2. CASE filled.next > Len(str)
                <5>1. c \o d = c
                    BY <3>2, <3>5, <4>2, ConcatEmptySeq
                <5>2. c[Len(c)] \in Surrogates
                    BY <3>2, <4>2
                <5>3. QED BY <3>2, <5>1, <5>2 DEF Cut
            <4>3. CASE Cut(d)
                <5>1. Len(c) \in Nat /\ Len(d) \in Nat /\ Len(d) # 0
                    BY <3>2, <3>6, <4>3, LenProperties, EmptySeq DEF Cut
                <5> DEFINE e == c \o d
                <5>2. Len(e) = Len(c) + Len(d) /\ e[Len(c) + Len(d)] = d[Len(d)]
                    <6>1. Len(c) + Len(d) \in 1..(Len(c) + Len(d)) /\ ~(Len(c) + Len(d) <= Len(c))
                          /\ Len(c) + Len(d) - Len(c) = Len(d)
                        BY <5>1
                    <6>2. QED BY <3>7, <6>1
                <5>3. e # <<>>
                    BY <5>1, <5>2
                <5> HIDE DEF e
                <5>4. Cut(e)
                    BY <4>3, <5>2, <5>3 DEF Cut
                <5>5. QED BY <5>4 DEF e
            <4>4. QED BY <3>6, <4>1, <4>2, <4>3
        <3>9. p \in Nat /\ c \o d \in Seq(Int)
            BY <1>1, <3>7
        <3>10. QED BY <3>3, <3>8, <3>9, Zenon
    <2>3. QED BY <2>1, <2>2
<1>4. n \in Nat
    BY <1>1
<1> HIDE DEF G, n
<1>5. \A p \in 0..n : p \in G
    BY <1>3, <1>4, Downward
<1>6. 0 \in 0..n /\ 0 \in 0..Len(str) + 1
    BY <1>1, <1>4
<1>7. Is(0)
    BY <1>5, <1>6 DEF G
<1>8. ~(0 > Len(str))
    BY <1>1
<1>9. QED BY <1>2, <1>7, <1>8

\* What a text begins with that begins with a character of n bytes.
IsCharacter(s, n, v) ==
    /\ Utf8Length(s[1]) = n /\ \A i \in 2..n : s[i] \in Continuation
    /\ Payload(s, n) = v /\ v >= Shortest(n)

LEMMA OneByte ==
    ASSUME NEW v \in 0..\h7F, NEW s, s[1] = v
    PROVE  IsCharacter(s, 1, v)
<1>1. Utf8Length(s[1]) = 1
    BY SMTT(30) DEF Utf8Length
<1>2. Payload(s, 1) = v
    BY DEF Payload
<1>3. Shortest(1) = 0
    BY DEF Shortest
<1>4. QED BY <1>1, <1>2, <1>3 DEF IsCharacter

LEMMA TwoBytes ==
    ASSUME NEW v \in Nat, v >= \h80, v <= \h7FF, NEW s, s[1] = \hC0 + v \div 64, s[2] = Continuing(v, 1)
    PROVE  IsCharacter(s, 2, v)
<1> DEFINE a == v \div 64
           b == v % 64
<1>1. a \in 2..31 /\ b \in 0..63 /\ v = 64 * a + b
    OBVIOUS
<1>2. s[1] = \hC0 + a /\ s[2] = \h80 + b
    <2>1. v \div 1 = v
        OBVIOUS
    <2>2. QED BY <2>1 DEF Continuing
<1> HIDE DEF a, b
<1>3. Utf8Length(s[1]) = 2
    <2>1. s[1] \in \hC0..\hDF
        BY <1>1, <1>2
    <2>2. QED BY <2>1, SMTT(30) DEF Utf8Length
<1>4. Payload(s, 2) = v
    <2>1. s[1] % 32 = a
        BY <1>1, <1>2
    <2>2. s[2] % 64 = b
        BY <1>1, <1>2
    <2>3. Payload(s, 2) = (s[1] % 32) * 64 + (s[2] % 64)
        BY DEF Payload
    <2>4. QED BY <1>1, <2>1, <2>2, <2>3
<1>5. Shortest(2) = \h80
    BY DEF Shortest
<1>6. \A i \in 2..2 : s[i] \in Continuation
    BY <1>1, <1>2 DEF Continuation
<1>7. QED BY <1>3, <1>4, <1>5, <1>6 DEF IsCharacter

(* Six bits at a time.                                                     *)
LEMMA SixBits ==
    ASSUME NEW v \in Nat
    PROVE  v \div 64 \in Nat /\ v % 64 \in 0..63 /\ v = 64 * (v \div 64) + (v % 64)
    OBVIOUS

LEMMA Quotient ==
    ASSUME NEW v \in Nat, NEW w \in Nat, w > 0
    PROVE  v \div w \in Int /\ w * (v \div w) <= v /\ v < w * (v \div w) + w
    OBVIOUS

LEMMA SameQuotient ==
    ASSUME NEW v \in Nat, NEW w \in Nat, w > 0, NEW a \in Int, w * a <= v, v < w * a + w
    PROVE  v \div w = a
<1> DEFINE q == v \div w
<1>1. q \in Int /\ w * q <= v /\ v < w * q + w
    BY Quotient
<1> HIDE DEF q
<1>2. q = a
    BY <1>1
<1>3. QED BY <1>2 DEF q

LEMMA MoreBits ==
    ASSUME NEW v \in Nat
    PROVE  LET x == v \div 64
               y == x \div 64
           IN  /\ v \div 4096 = y /\ v \div 262144 = y \div 64
               /\ v = 64 * x + (v % 64) /\ x = 64 * y + (x % 64) /\ y = 64 * (y \div 64) + (y % 64)
               /\ v % 64 \in 0..63 /\ x % 64 \in 0..63 /\ y % 64 \in 0..63
               /\ x \in Nat /\ y \in Nat /\ y \div 64 \in Nat
<1> DEFINE x == v \div 64
           y == x \div 64
           z == y \div 64
           a == v % 64
           b == x % 64
           c == y % 64
<1>1. x \in Nat /\ a \in 0..63 /\ v = 64 * x + a
    BY SixBits
<1> HIDE DEF x, a
<1>2. y \in Nat /\ b \in 0..63 /\ x = 64 * y + b
    BY <1>1, SixBits
<1> HIDE DEF y, b
<1>3. z \in Nat /\ c \in 0..63 /\ y = 64 * z + c
    BY <1>2, SixBits
<1> HIDE DEF z, c
<1>4. v \div 4096 = y
    <2>1. 4096 * y <= v /\ v < 4096 * y + 4096
        BY <1>1, <1>2
    <2>2. QED BY <1>2, <2>1, SameQuotient
<1>5. v \div 262144 = z
    <2>1. 262144 * z <= v /\ v < 262144 * z + 262144
        BY <1>1, <1>2, <1>3
    <2>2. QED BY <1>3, <2>1, SameQuotient
<1>6. QED BY ONLY <1>1, <1>2, <1>3, <1>4, <1>5 DEF x, y, z, a, b, c

LEMMA ThreeBytes ==
    ASSUME NEW v \in Nat, v >= \h800, v <= \hFFFF, NEW s, s[1] = \hE0 + v \div 4096,
           s[2] = Continuing(v, 64), s[3] = Continuing(v, 1)
    PROVE  IsCharacter(s, 3, v)
<1> DEFINE x == v \div 64
           a == x \div 64
           b == x % 64
           c == v % 64
<1>1. s[1] = \hE0 + a /\ s[2] = \h80 + b /\ s[3] = \h80 + c
    <2>1. v \div 1 = v /\ v \div 4096 = a
        BY MoreBits
    <2>2. QED BY <2>1 DEF Continuing
<1>2. v \in Nat /\ a \in Nat /\ b \in 0..63 /\ c \in 0..63 /\ x \in Nat /\ v = 64 * x + c /\ x = 64 * a + b
    BY MoreBits
<1> HIDE DEF a, b, c, x
<1>3. a \in 0..15 /\ v = 4096 * a + 64 * b + c
    BY <1>2
<1>4. Utf8Length(s[1]) = 3
    <2>1. s[1] \in \hE0..\hEF
        BY <1>1, <1>3
    <2>2. QED BY <2>1, SMTT(30) DEF Utf8Length
<1>5. Payload(s, 3) = v
    <2>1. s[1] % 16 = a
        BY <1>1, <1>3
    <2>2. s[2] % 64 = b /\ s[3] % 64 = c
        BY <1>1, <1>2
    <2>3. Payload(s, 3) = (s[1] % 16) * 4096 + (s[2] % 64) * 64 + (s[3] % 64)
        BY DEF Payload
    <2>4. QED BY <1>2, <1>3, <2>1, <2>2, <2>3
<1>6. v >= Shortest(3)
    BY DEF Shortest
<1>7. \A i \in 2..3 : s[i] \in Continuation
    <2>1. s[2] \in Continuation /\ s[3] \in Continuation
        BY <1>1, <1>2 DEF Continuation
    <2>2. \A i \in 2..3 : i = 2 \/ i = 3
        OBVIOUS
    <2>3. QED BY <2>1, <2>2, SMT
<1>8. QED BY <1>4, <1>5, <1>6, <1>7, SMT DEF IsCharacter

LEMMA FourBytes ==
    ASSUME NEW v \in Nat, v >= \h10000, v <= \h10FFFF, NEW s, s[1] = \hF0 + v \div 262144,
           s[2] = Continuing(v, 4096), s[3] = Continuing(v, 64), s[4] = Continuing(v, 1)
    PROVE  IsCharacter(s, 4, v)
<1> DEFINE x == v \div 64
           y == x \div 64
           a == y \div 64
           b == y % 64
           c == x % 64
           d == v % 64
<1>1. s[1] = \hF0 + a /\ s[2] = \h80 + b /\ s[3] = \h80 + c /\ s[4] = \h80 + d
    <2>1. v \div 1 = v /\ v \div 4096 = y /\ v \div 262144 = a
        BY MoreBits
    <2>2. QED BY <2>1 DEF Continuing
<1>2. /\ v \in Nat /\ a \in Nat /\ b \in 0..63 /\ c \in 0..63 /\ d \in 0..63
      /\ x \in Nat /\ y \in Nat
      /\ v = 64 * x + d /\ x = 64 * y + c /\ y = 64 * a + b
    BY MoreBits
<1> HIDE DEF a, b, c, d, x, y
<1>3. a \in 0..4 /\ v = 262144 * a + 4096 * b + 64 * c + d
    BY <1>2
<1>4. Utf8Length(s[1]) = 4
    <2>1. s[1] \in \hF0..\hF7
        BY <1>1, <1>3
    <2>2. QED BY <2>1, SMTT(30) DEF Utf8Length
<1>5. Payload(s, 4) = v
    <2>1. s[1] % 8 = a
        BY <1>1, <1>3
    <2>2. s[2] % 64 = b /\ s[3] % 64 = c /\ s[4] % 64 = d
        BY <1>1, <1>2
    <2>3. Payload(s, 4) = (s[1] % 8) * 262144 + (s[2] % 64) * 4096 + (s[3] % 64) * 64 + (s[4] % 64)
        BY DEF Payload
    <2>4. QED BY <1>2, <1>3, <2>1, <2>2, <2>3
<1>6. v >= Shortest(4)
    BY DEF Shortest
<1>7. \A i \in 2..4 : s[i] \in Continuation
    <2>1. s[2] \in Continuation /\ s[3] \in Continuation /\ s[4] \in Continuation
        BY <1>1, <1>2 DEF Continuation
    <2>2. \A i \in 2..4 : i = 2 \/ i = 3 \/ i = 4
        OBVIOUS
    <2>3. QED BY <2>1, <2>2, SMT
<1>8. QED BY <1>4, <1>5, <1>6, <1>7, SMT DEF IsCharacter

(* Every scalar value's bytes, with whatever after them, are its UTF-8.    *)
LEMMA Utf8IsCharacter ==
    ASSUME NEW v, IsScalar(v), NEW s, \A i \in DOMAIN Utf8(v) : s[i] = Utf8(v)[i]
    PROVE  Len(Utf8(v)) \in 1..4 /\ IsCharacter(s, Len(Utf8(v)), v)
<1>1. v \in Nat /\ v <= \h10FFFF
    BY SMT DEF IsScalar
<1>2. CASE v < \h80
    <2>1. Utf8(v) = <<v>>
        BY <1>2 DEF Utf8
    <2>2. Len(Utf8(v)) = 1 /\ s[1] = v
        BY <2>1
    <2>3. v \in 0..\h7F
        BY <1>1, <1>2
    <2>4. QED BY <2>2, <2>3, OneByte
<1>3. CASE v >= \h80 /\ v <= \h7FF
    <2> DEFINE a == \hC0 + v \div 64
               b == Continuing(v, 1)
    <2>1. Utf8(v) = <<a, b>>
        BY <1>1, <1>3 DEF Utf8
    <2> HIDE DEF a, b
    <2>2. Len(Utf8(v)) = 2 /\ s[1] = a /\ s[2] = b
        BY <2>1
    <2>3. QED BY <1>1, <1>3, <2>2, TwoBytes DEF a, b
<1>4. CASE v >= \h800 /\ v <= \hFFFF
    <2> DEFINE a == \hE0 + v \div 4096
               b == Continuing(v, 64)
               c == Continuing(v, 1)
    <2>1. Utf8(v) = <<a, b, c>>
        BY <1>1, <1>4 DEF Utf8
    <2> HIDE DEF a, b, c
    <2>2. Len(Utf8(v)) = 3 /\ s[1] = a /\ s[2] = b /\ s[3] = c
        BY <2>1
    <2>3. QED BY <1>1, <1>4, <2>2, ThreeBytes DEF a, b, c
<1>5. CASE v >= \h10000
    <2> DEFINE a == \hF0 + v \div 262144
               b == Continuing(v, 4096)
               c == Continuing(v, 64)
               d == Continuing(v, 1)
    <2>1. Utf8(v) = <<a, b, c, d>>
        BY <1>1, <1>5 DEF Utf8
    <2> HIDE DEF a, b, c, d
    <2>2. Len(Utf8(v)) = 4 /\ s[1] = a /\ s[2] = b /\ s[3] = c /\ s[4] = d
        BY <2>1
    <2>3. QED BY <1>1, <1>5, <2>2, FourBytes DEF a, b, c, d
<1>6. QED BY <1>1, <1>2, <1>3, <1>4, <1>5

LEMMA CharacterHasLength ==
    ASSUME NEW v, IsScalar(v), NEW s, NEW n \in 1..Len(s), Len(s) \in Nat, Head(s) = s[1],
           IsCharacter(s, n, v)
    PROVE  CharacterLength(s) = n /\ Payload(s, n) = v
    BY Zenon DEF CharacterLength, IsCharacter, Continuation

-----------------------------------------------------------------------------
(* The scalar values of UTF-8 text.                                        *)

ScalarsTurn(bytes, f, i) ==
    LET rest == SubSeq(bytes, i, Len(bytes))
        n == CharacterLength(rest)
    IN  IF i > Len(bytes) THEN <<>>
        ELSE IF n = 0 THEN Bad ELSE Before(Payload(rest, n), f[i + n])

LEMMA CharacterFits ==
    ASSUME NEW s, Len(s) \in Nat
    PROVE  CharacterLength(s) = 0 \/ CharacterLength(s) \in 1..Len(s)
    BY DEF CharacterLength

LEMMA ScalarsLater ==
    ASSUME NEW bytes, bytes \in Seq(Int), NEW f, NEW g, NEW i \in 1..(Len(bytes) + 1),
           \A q \in (i + 1)..(Len(bytes) + 1) : f[q] = g[q]
    PROVE  ScalarsTurn(bytes, f, i) = ScalarsTurn(bytes, g, i)
<1> DEFINE rest == SubSeq(bytes, i, Len(bytes))
           n == CharacterLength(rest)
<1>1. Len(bytes) \in Nat
    BY LenProperties
<1>2. CASE i > Len(bytes)
    BY <1>2, Zenon DEF ScalarsTurn
<1>3. CASE ~(i > Len(bytes))
    <2>1. Len(rest) = Len(bytes) - i + 1
        BY <1>1, <1>3, SubSeqProperties, ElementOfSeq
    <2>2. Len(rest) \in Nat
        BY <1>1, <1>3, <2>1
    <2> HIDE DEF rest
    <2>3. n = 0 \/ n \in 1..Len(rest)
        BY <2>2, CharacterFits
    <2> HIDE DEF n
    <2>4. n # 0 => i + n \in (i + 1)..(Len(bytes) + 1)
        <3>1. SUFFICES ASSUME n # 0 PROVE i + n \in (i + 1)..(Len(bytes) + 1)
            OBVIOUS
        <3>2. n \in 1..(Len(bytes) - i + 1)
            BY <2>1, <2>3, <3>1
        <3>3. QED BY <1>1, <1>3, <3>2
    <2>5. n # 0 => f[i + n] = g[i + n]
        BY <2>4
    <2>6. QED BY <1>3, <2>5, Zenon DEF ScalarsTurn, n, rest
<1>4. QED BY <1>2, <1>3

(* Scalars is the first of its turns. *)
LEMMA ScalarsTurns ==
    ASSUME NEW bytes, bytes \in Seq(Int)
    PROVE  \E f : /\ Scalars(bytes) = f[1]
                 /\ \A p \in 1..Len(bytes) + 1 : f[p] = ScalarsTurn(bytes, f, p)
<1> DEFINE n == Len(bytes) + 1
           Is(f, from) == /\ f = [p \in 1..n |-> f[p]]
                          /\ \A p \in from..n : f[p] = ScalarsTurn(bytes, f, p)
           G == {m \in Nat : m <= n - 1 + 1 => \E f : Is(f, n + 1 - m)}
<1>1. n \in Nat /\ n >= 1
    BY LenProperties
<1>2. 0 \in G
    <2> DEFINE f == [p \in 1..n |-> <<>>]
    <2>1. f = [p \in 1..n |-> f[p]] /\ (n + 1 - 0)..n = {}
        BY <1>1
    <2>2. Is(f, n + 1 - 0)
        BY <2>1
    <2>3. QED BY <2>2
<1>3. ASSUME NEW m \in Nat, m \in G PROVE m + 1 \in G
    <2>1. SUFFICES ASSUME m + 1 <= n - 1 + 1 PROVE \E g : Is(g, n + 1 - (m + 1))
        OBVIOUS
    <2> DEFINE k == n - m
    <2>2. /\ k \in 1..n /\ n + 1 - (m + 1) = k /\ n + 1 - m = k + 1 /\ m <= n - 1 + 1
          /\ k..n = {k} \cup (k + 1)..n /\ k \notin (k + 1)..n
        <3> HIDE DEF n
        <3>1. QED BY <1>1, <2>1
    <2>3. PICK f : Is(f, k + 1)
        BY <1>3, <2>2
    <2> DEFINE g == [p \in 1..n |-> IF p = k THEN ScalarsTurn(bytes, f, k) ELSE f[p]]
    <2> HIDE DEF k, n
    <2>4. \A p \in (k + 1)..n : g[p] = f[p] /\ p \in 1..n
        BY <1>1, <2>2
    <2>5. g[k] = ScalarsTurn(bytes, f, k) /\ g = [p \in 1..n |-> g[p]]
        BY <2>2
    <2> HIDE DEF g
    <2>6. ASSUME NEW p \in k..n PROVE g[p] = ScalarsTurn(bytes, g, p)
        <3>1. p \in 1..n /\ \A q \in (p + 1)..n : q \in (k + 1)..n
            BY <1>1, <2>2
        <3>2. ScalarsTurn(bytes, f, p) = ScalarsTurn(bytes, g, p)
            <4>1. p \in 1..(Len(bytes) + 1) /\ \A q \in (p + 1)..(Len(bytes) + 1) : f[q] = g[q]
                BY <2>4, <3>1 DEF n
            <4>2. QED BY <4>1, ScalarsLater
        <3>3. CASE p = k
            BY <2>5, <3>2, <3>3
        <3>4. CASE p # k
            <4>1. p \in (k + 1)..n
                BY <2>2, <3>4
            <4>2. f[p] = ScalarsTurn(bytes, f, p)
                BY <2>3, <4>1
            <4>3. QED BY <2>4, <3>2, <4>1, <4>2
        <3>5. QED BY <3>3, <3>4
    <2>7. Is(g, k)
        BY <2>5, <2>6
    <2>8. QED BY <2>2, <2>7
<1>4. PICK f : Is(f, 1)
    <2> HIDE DEF G, n
    <2>1. \A m \in Nat : m \in G
        BY <1>2, <1>3, Induction
    <2>2. n - 1 + 1 \in Nat /\ n + 1 - (n - 1 + 1) = 1
        BY <1>1
    <2>3. n - 1 + 1 \in G
        BY <2>1, <2>2
    <2>4. QED BY <2>2, <2>3 DEF G
<1>5. \E h : h = [p \in 1..(Len(bytes) + 1) |-> ScalarsTurn(bytes, h, p)]
    <2> DEFINE h == [p \in 1..n |-> ScalarsTurn(bytes, f, p)]
    <2>1. h = [p \in 1..n |-> f[p]]
        BY <1>4
    <2>2. f = h
        BY <1>4, <2>1
    <2>3. QED BY <2>2
<1> DEFINE from == CHOOSE h : h = [p \in 1..(Len(bytes) + 1) |-> ScalarsTurn(bytes, h, p)]
<1>6. from = [p \in 1..(Len(bytes) + 1) |-> ScalarsTurn(bytes, from, p)]
    BY <1>5, Zenon
<1>7. Scalars(bytes) = from[1]
    BY DEF Scalars, ScalarsTurn
<1> HIDE DEF from
<1>8. \A p \in 1..(Len(bytes) + 1) : from[p] = ScalarsTurn(bytes, from, p)
    BY <1>6
<1>9. QED BY <1>7, <1>8

(* What stands behind the first of two sequences.                          *)
LEMMA SubSeqOfSecond ==
    ASSUME NEW c \in Seq(Int), NEW r \in Seq(Int), NEW j \in 1..Len(r)
    PROVE  SubSeq(c \o r, Len(c) + j, Len(c \o r)) = SubSeq(r, j, Len(r))
<1>1. Len(c) \in Nat /\ Len(r) \in Nat /\ Len(c \o r) = Len(c) + Len(r)
    BY LenProperties, ConcatProperties
<1> DEFINE n == Len(c)
           k == Len(r)
<1>2. /\ n + j \in (n + 1)..(n + k) /\ n + k \in (n + 1)..(n + k)
      /\ (n + j) - n = j /\ (n + k) - n = k
    <2> HIDE DEF n, k
    <2>1. QED BY <1>1 DEF n, k
<1>3. SubSeq(c \o r, n + j, n + k) = SubSeq(r, (n + j) - n, (n + k) - n)
    BY ONLY <1>2, SubSeqOfConcat2, c \in Seq(Int), r \in Seq(Int)
<1>4. QED BY <1>1, <1>2, <1>3

(* Behind a character the scalar values are those of what is there.        *)
LEMMA ScalarsOfBoth ==
    ASSUME NEW c \in Seq(Int), NEW r \in Seq(Int), Len(c) > 0,
           CharacterLength(c \o r) = Len(c)
    PROVE  Scalars(c \o r) = Before(Payload(c \o r, Len(c)), Scalars(r))
<1> DEFINE e == c \o r
           n == Len(c)
<1>1. n \in Nat /\ Len(r) \in Nat /\ Len(e) \in Nat
    BY LenProperties, ConcatProperties
<1>2. e \in Seq(Int) /\ Len(e) = n + Len(r)
    BY ConcatProperties
<1>3. \A j \in 1..Len(r) : SubSeq(e, n + j, Len(e)) = SubSeq(r, j, Len(r))
    BY SubSeqOfSecond
<1>4. CharacterLength(e) = n /\ n > 0
    OBVIOUS
<1> HIDE DEF e, n
<1>5. PICK h : /\ Scalars(e) = h[1]
               /\ \A i \in 1..(Len(e) + 1) : h[i] = ScalarsTurn(e, h, i)
    BY ONLY <1>2, ScalarsTurns
<1>6. PICK k : /\ Scalars(r) = k[1]
               /\ \A i \in 1..(Len(r) + 1) : k[i] = ScalarsTurn(r, k, i)
    BY ONLY ScalarsTurns, r \in Seq(Int)
<1> DEFINE G == {j \in Nat : h[n + j] = k[j]}
           m == Len(r) + 1
<1>7. ASSUME NEW j \in 1..m, \A q \in (j + 1)..m : q \in G PROVE j \in G
    <2>1. /\ j \in Nat /\ j \in 1..(Len(r) + 1) /\ n + j \in 1..(Len(e) + 1)
          /\ (n + j > Len(e) <=> j > Len(r))
        BY <1>1, <1>2
    <2>2. h[n + j] = ScalarsTurn(e, h, n + j) /\ k[j] = ScalarsTurn(r, k, j)
        BY <1>5, <1>6, <2>1
    <2>3. CASE j > Len(r)
        <3>1. h[n + j] = <<>>
            BY <2>1, <2>2, <2>3, Zenon DEF ScalarsTurn
        <3>2. k[j] = <<>>
            BY <2>2, <2>3, Zenon DEF ScalarsTurn
        <3>3. QED BY <2>1, <3>1, <3>2
    <2>4. CASE ~(j > Len(r))
        <3> DEFINE rest == SubSeq(r, j, Len(r))
                   d == CharacterLength(rest)
        <3>1. j \in 1..Len(r)
            BY <1>1, <2>1, <2>4
        <3>2. SubSeq(e, n + j, Len(e)) = rest
            BY <1>3, <3>1
        <3>3. Len(rest) = Len(r) - j + 1
            BY <1>1, <3>1, SubSeqProperties, ElementOfSeq
        <3>4. Len(rest) \in Nat
            BY <1>1, <3>1, <3>3
        <3> HIDE DEF rest
        <3>5. d = 0 \/ d \in 1..Len(rest)
            BY <3>4, CharacterFits
        <3> HIDE DEF d
        <3>6. d # 0 => j + d \in (j + 1)..m /\ n + (j + d) = (n + j) + d
            <4>1. SUFFICES ASSUME d # 0 PROVE j + d \in (j + 1)..m /\ n + (j + d) = (n + j) + d
                OBVIOUS
            <4>2. d \in 1..(Len(r) - j + 1)
                BY <3>3, <3>5, <4>1
            <4>3. QED BY <1>1, <3>1, <4>2
        <3>7. d # 0 => h[(n + j) + d] = k[j + d]
            BY <1>7, <3>6
        <3>8. h[n + j] = IF d = 0 THEN Bad ELSE Before(Payload(rest, d), h[(n + j) + d])
            BY <2>1, <2>2, <2>4, <3>2, Zenon DEF ScalarsTurn, d
        <3>9. k[j] = IF d = 0 THEN Bad ELSE Before(Payload(rest, d), k[j + d])
            BY <2>2, <2>4, Zenon DEF ScalarsTurn, d, rest
        <3>10. h[n + j] = k[j]
            BY <3>7, <3>8, <3>9, Zenon
        <3>11. QED BY <2>1, <3>10
    <2>5. QED BY <2>3, <2>4
<1>8. m \in Nat
    BY <1>1
<1> HIDE DEF G, m
<1>9. \A j \in 1..m : j \in G
    BY <1>7, <1>8, Downward
<1>10. h[n + 1] = k[1]
    <2>1. 1 \in 1..m
        BY <1>1 DEF m
    <2>2. QED BY <1>9, <2>1 DEF G
<1>11. h[1] = Before(Payload(e, n), h[1 + n])
    <2>1. 1 \in 1..(Len(e) + 1) /\ ~(1 > Len(e)) /\ n # 0
        BY <1>1, <1>2, <1>4
    <2>2. SubSeq(e, 1, Len(e)) = e
        BY <1>2, SubSeqFull
    <2>3. h[1] = ScalarsTurn(e, h, 1)
        BY <1>5, <2>1
    <2>4. QED BY <1>4, <2>1, <2>2, <2>3, Zenon DEF ScalarsTurn
<1>12. 1 + n = n + 1
    BY <1>1
<1>13. QED BY <1>5, <1>6, <1>10, <1>11, <1>12 DEF e, n

\* What the text means from a unit on.
MeaningTurn(s, size, f, i) ==
    IF i > Len(s) THEN <<>>
    ELSE IF IsScalar(s[i]) THEN Before(s[i], f[i + 1])
    ELSE IF /\ size = 2 /\ i < Len(s) /\ s[i] \in HighSurrogates /\ s[i + 1] \in LowSurrogates
    THEN Before(CodePoint(s[i], s[i + 1]), f[i + 2])
    ELSE Bad

LEMMA MeaningLater ==
    ASSUME NEW s, NEW size, Len(s) \in Nat, NEW f, NEW g, NEW i \in 1..(Len(s) + 1),
           \A q \in (i + 1)..(Len(s) + 1) : f[q] = g[q]
    PROVE  MeaningTurn(s, size, f, i) = MeaningTurn(s, size, g, i)
<1>1. /\ ~(i > Len(s)) => i + 1 \in (i + 1)..(Len(s) + 1)
      /\ i < Len(s) => i + 2 \in (i + 1)..(Len(s) + 1)
    OBVIOUS
<1> DEFINE pair == CodePoint(s[i], s[i + 1])
<1>2. \A h : MeaningTurn(s, size, h, i) =
        IF i > Len(s) THEN <<>>
        ELSE IF IsScalar(s[i]) THEN Before(s[i], h[i + 1])
        ELSE IF size = 2 /\ i < Len(s) /\ s[i] \in HighSurrogates /\ s[i + 1] \in LowSurrogates
        THEN Before(pair, h[i + 2])
        ELSE Bad
    BY SMT DEF MeaningTurn
<1> HIDE DEF pair
<1>3. QED BY <1>1, <1>2, SMT

(* WideMeaning is the first of its turns. *)
LEMMA MeaningTurns ==
    ASSUME NEW s, NEW size, Len(s) \in Nat
    PROVE  \E f : /\ WideMeaning(s, size) = f[1]
                 /\ \A p \in 1..Len(s) + 1 : f[p] = MeaningTurn(s, size, f, p)
<1> DEFINE n == Len(s) + 1
           Is(f, from) == /\ f = [p \in 1..n |-> f[p]]
                          /\ \A p \in from..n : f[p] = MeaningTurn(s, size, f, p)
           G == {m \in Nat : m <= n - 1 + 1 => \E f : Is(f, n + 1 - m)}
<1>1. n \in Nat /\ n >= 1
    BY SMT
<1>2. 0 \in G
    <2> DEFINE f == [p \in 1..n |-> <<>>]
    <2>1. f = [p \in 1..n |-> f[p]] /\ (n + 1 - 0)..n = {}
        BY <1>1
    <2>2. Is(f, n + 1 - 0)
        BY <2>1
    <2>3. QED BY <2>2
<1>3. ASSUME NEW m \in Nat, m \in G PROVE m + 1 \in G
    <2>1. SUFFICES ASSUME m + 1 <= n - 1 + 1 PROVE \E g : Is(g, n + 1 - (m + 1))
        OBVIOUS
    <2> DEFINE k == n - m
    <2>2. /\ k \in 1..n /\ n + 1 - (m + 1) = k /\ n + 1 - m = k + 1 /\ m <= n - 1 + 1
          /\ k..n = {k} \cup (k + 1)..n /\ k \notin (k + 1)..n
        <3> HIDE DEF n
        <3>1. QED BY <1>1, <2>1
    <2>3. PICK f : Is(f, k + 1)
        BY <1>3, <2>2
    <2> DEFINE g == [p \in 1..n |-> IF p = k THEN MeaningTurn(s, size, f, k) ELSE f[p]]
    <2> HIDE DEF k, n
    <2>4. \A p \in (k + 1)..n : g[p] = f[p] /\ p \in 1..n
        BY <1>1, <2>2
    <2>5. g[k] = MeaningTurn(s, size, f, k) /\ g = [p \in 1..n |-> g[p]]
        BY <2>2
    <2> HIDE DEF g
    <2>6. ASSUME NEW p \in k..n PROVE g[p] = MeaningTurn(s, size, g, p)
        <3>1. p \in 1..n /\ \A q \in (p + 1)..n : q \in (k + 1)..n
            BY <1>1, <2>2
        <3>2. MeaningTurn(s, size, f, p) = MeaningTurn(s, size, g, p)
            <4>1. p \in 1..(Len(s) + 1) /\ \A q \in (p + 1)..(Len(s) + 1) : f[q] = g[q]
                BY <2>4, <3>1 DEF n
            <4>2. QED BY <4>1, MeaningLater
        <3>3. CASE p = k
            BY <2>5, <3>2, <3>3
        <3>4. CASE p # k
            <4>1. p \in (k + 1)..n
                BY <2>2, <3>4
            <4>2. f[p] = MeaningTurn(s, size, f, p)
                BY <2>3, <4>1
            <4>3. QED BY <2>4, <3>2, <4>1, <4>2
        <3>5. QED BY <3>3, <3>4
    <2>7. Is(g, k)
        BY <2>5, <2>6
    <2>8. QED BY <2>2, <2>7
<1>4. PICK f : Is(f, 1)
    <2> HIDE DEF G, n
    <2>1. \A m \in Nat : m \in G
        BY <1>2, <1>3, Induction
    <2>2. n - 1 + 1 \in Nat /\ n + 1 - (n - 1 + 1) = 1
        BY <1>1
    <2>3. n - 1 + 1 \in G
        BY <2>1, <2>2
    <2>4. QED BY <2>2, <2>3 DEF G
<1>5. \E h : h = [p \in 1..(Len(s) + 1) |-> MeaningTurn(s, size, h, p)]
    <2> DEFINE h == [p \in 1..n |-> MeaningTurn(s, size, f, p)]
    <2>1. h = [p \in 1..n |-> f[p]]
        BY <1>4
    <2>2. f = h
        BY <1>4, <2>1
    <2>3. QED BY <2>2
<1> DEFINE from == CHOOSE h : h = [p \in 1..(Len(s) + 1) |-> MeaningTurn(s, size, h, p)]
<1>6. from = [p \in 1..(Len(s) + 1) |-> MeaningTurn(s, size, from, p)]
    BY <1>5, Zenon
<1>7. WideMeaning(s, size) = from[1]
    BY DEF WideMeaning, MeaningTurn
<1> HIDE DEF from
<1>8. \A p \in 1..(Len(s) + 1) : from[p] = MeaningTurn(s, size, from, p)
    BY <1>6
<1>9. QED BY <1>7, <1>8

LEMMA NoScalars == Scalars(<<>>) = <<>>
<1>1. <<>> \in Seq(Int) /\ Len(<<>>) = 0
    OBVIOUS
<1>2. PICK f : /\ Scalars(<<>>) = f[1]
               /\ \A i \in 1..(Len(<<>>) + 1) : f[i] = ScalarsTurn(<<>>, f, i)
    BY ONLY <1>1, ScalarsTurns
<1>3. 1 \in 1..(Len(<<>>) + 1) /\ 1 > Len(<<>>)
    BY <1>1
<1>4. f[1] = ScalarsTurn(<<>>, f, 1)
    BY ONLY <1>2, <1>3
<1>5. f[1] = <<>>
    BY <1>3, <1>4, Zenon DEF ScalarsTurn
<1>6. QED BY <1>2, <1>5

(* A pair of surrogates, and what the adapter makes of it.                 *)
LEMMA PairOfSurrogates ==
    ASSUME NEW high \in HighSurrogates, NEW low \in LowSurrogates
    PROVE  /\ IsScalar(CodePoint(high, low))
           /\ \h10000 + (high % 1024) * 1024 + (low % 1024) = CodePoint(high, low)
<1> DEFINE a == high - \hD800
           b == low - \hDC00
<1>1. a \in Int /\ b \in Int /\ a >= 0 /\ a < 1024 /\ b >= 0 /\ b < 1024
    BY DEF HighSurrogates, LowSurrogates
<1>2. high % 1024 = a /\ low % 1024 = b
    <2>1. high = 1024 * 54 + a /\ low = 1024 * 55 + b
        BY DEF HighSurrogates, LowSurrogates
    <2> HIDE DEF a, b
    <2>2. QED BY <1>1, <2>1
<1> HIDE DEF a, b
<1>3. /\ \h10000 + a * 1024 + b \in Nat /\ \h10000 + a * 1024 + b <= \h10FFFF
      /\ \h10000 + a * 1024 + b > \hDFFF
    BY <1>1
<1>4. IsScalar(\h10000 + a * 1024 + b)
    BY <1>3, SMT DEF IsScalar, Surrogates
<1>5. CodePoint(high, low) = \h10000 + a * 1024 + b
    BY DEF a, b, CodePoint
<1>6. QED BY <1>2, <1>4, <1>5

(* Where the text goes on with a code point the adapter gives its bytes.   *)
LEMMA Utf8Before ==
    ASSUME NEW v, IsScalar(v), NEW r \in Seq(Int)
    PROVE  Scalars(Utf8(v) \o r) = Before(v, Scalars(r))
<1> DEFINE c == Utf8(v)
           e == c \o r
<1>1. v \in Int
    BY SMT DEF IsScalar
<1>2. c \in Seq(Int)
    BY <1>1, Utf8Bytes
<1>3. \A i \in DOMAIN c : e[i] = c[i]
    BY <1>2, ConcatPlaces
<1>4. Len(c) \in 1..4 /\ IsCharacter(e, Len(c), v)
    BY <1>3, Utf8IsCharacter
<1>5. Len(e) = Len(c) + Len(r) /\ e \in Seq(Int) /\ Len(r) \in Nat
    BY <1>2, ConcatProperties, LenProperties
<1>6. Len(e) \in Nat /\ Len(c) \in 1..Len(e) /\ Len(c) > 0
    <2> DEFINE k == Len(c)
               l == Len(e)
               m == Len(r)
    <2>1. k \in 1..4 /\ m \in Nat /\ l = k + m
        BY <1>4, <1>5
    <2> HIDE DEF k, l, m
    <2>2. l \in Nat /\ k \in 1..l /\ k > 0
        BY <2>1
    <2>3. QED BY <2>2 DEF k, l
<1>7. Head(e) = e[1]
    BY <1>5, <1>6
<1> HIDE DEF e, c
<1>8. CharacterLength(e) = Len(c) /\ Payload(e, Len(c)) = v
    BY <1>4, <1>6, <1>7, CharacterHasLength
<1>9. QED BY <1>2, <1>6, <1>8, ScalarsOfBoth DEF e, c

(* A well-formed wide text reads like its UTF-8.                           *)
LEMMA WideReads ==
    ASSUME NEW str \in Seq(Int), NEW size, WideMeaning(str, size) # Bad
    PROVE  Scalars(WideCharacters(str, size).bytes) = WideMeaning(str, size)
<1>1. Len(str) \in Nat
    BY LenProperties
<1>2. PICK f : /\ WideCharacters(str, size) = f[0]
               /\ \A p \in 0..Len(str) + 1 : f[p] = WideTurn(str, size, f, p)
    BY ONLY <1>1, WideTurns
<1>3. PICK w : /\ WideMeaning(str, size) = w[1]
               /\ \A i \in 1..(Len(str) + 1) : w[i] = MeaningTurn(str, size, w, i)
    BY ONLY <1>1, MeaningTurns
<1> DEFINE Is(p) == /\ f[p].bytes \in Seq(Int)
                    /\ w[p + 1] # Bad => Scalars(f[p].bytes) = w[p + 1]
           n == Len(str)
           G == {p \in Nat : Is(p)}
<1>4. ASSUME NEW p \in 0..n, \A q \in (p + 1)..n : q \in G PROVE p \in G
    <2>1. p \in Nat /\ p \in 0..Len(str) + 1 /\ p + 1 \in 1..(Len(str) + 1) /\ ~(p > Len(str))
        BY <1>1
    <2>2. f[p] = WideTurn(str, size, f, p)
        BY <1>2, <2>1, Zenon
    <2>3. w[p + 1] = MeaningTurn(str, size, w, p + 1)
        BY <1>3, <2>1, Zenon
    <2>4. CASE p >= Len(str)
        <3>1. p + 1 > Len(str) /\ p = Len(str)
            BY <1>1, <2>1, <2>4
        <3>2. f[p] = [bytes |-> <<>>, past |-> p > Len(str)]
            BY <2>2, <2>4, Zenon DEF WideTurn
        <3>3. f[p].bytes = <<>>
            BY <3>2, WideFields, Zenon
        <3>4. w[p + 1] = <<>>
            BY <2>3, <3>1, SMT DEF MeaningTurn
        <3>5. Scalars(<<>>) = <<>>
            BY NoScalars
        <3>6. <<>> \in Seq(Int)
            OBVIOUS
        <3>7. QED BY <2>1, <3>3, <3>4, <3>5, <3>6, Zenon
    <2>5. CASE ~(p >= Len(str))
        <3> DEFINE filled == fill_buffer(str, size, p)
                   c == filled.bytes
                   rest == f[filled.next]
                   d == rest.bytes
                   e == c \o d
                   past == rest.past
                   wc == str[p + 1]
        <3>1. p \in 0..(Len(str) - 1) /\ wc \in Int /\ ~(p + 1 > Len(str))
            BY <1>1, <2>1, <2>5, ElementOfSeq
        <3>2. f[p] = [bytes |-> e, past |-> past]
            BY <2>2, <2>5, Zenon DEF WideTurn
        <3> HIDE DEF e, past
        <3>3. f[p].bytes = e
            BY <3>2, WideFields, Zenon
        <3> USE DEF e
        <3>4. c \in Seq(Int) /\ filled.next \in (p + 1)..(Len(str) + 1)
            BY <3>1, FillFacts
        <3> HIDE DEF filled
        <3>5. d \in Seq(Int)
            <4>1. CASE filled.next \in (p + 1)..n
                BY <1>4, <4>1
            <4>2. CASE filled.next \notin (p + 1)..n
                <5>1. filled.next \in 0..Len(str) + 1 /\ filled.next >= Len(str)
                    BY <1>1, <2>1, <3>4, <4>2
                <5>2. rest = WideTurn(str, size, f, filled.next)
                    BY <1>2, <5>1, Zenon
                <5>3. rest = [bytes |-> <<>>, past |-> filled.next > Len(str)]
                    BY <5>1, <5>2, Zenon DEF WideTurn
                <5>4. d = <<>>
                    BY <5>3, WideFields, Zenon
                <5>5. QED BY <5>4
            <4>3. QED BY <4>1, <4>2
        <3>6. e \in Seq(Int)
            BY <3>4, <3>5, ConcatProperties
        <3>7. ASSUME NEW v, IsScalar(v), NEW q \in (p + 1)..n, filled.next = q, c = Utf8(v),
                     w[p + 1] = Before(v, w[q + 1]), w[p + 1] # Bad
              PROVE  Scalars(e) = w[p + 1]
            <4>1. w[q + 1] # Bad
                BY <3>7, Zenon DEF Before
            <4>2. Scalars(d) = w[q + 1]
                BY <1>4, <3>7, <4>1
            <4>3. Scalars(Utf8(v) \o d) = Before(v, Scalars(d))
                BY <3>5, <3>7, Utf8Before
            <4>4. QED BY <3>7, <4>2, <4>3, Zenon
        <3>8. w[p + 1] # Bad => Scalars(e) = w[p + 1]
            <4>1. SUFFICES ASSUME w[p + 1] # Bad PROVE Scalars(e) = w[p + 1]
                OBVIOUS
            <4> DEFINE pair == CodePoint(wc, str[p + 2])
            <4>2. /\ p + 1 + 1 = p + 2 /\ p + 1 + 2 = p + 3
                  /\ p + 1 \in (p + 1)..n
                BY <1>1, <3>1
            <4>3. CASE IsScalar(wc)
                <5>1. w[p + 1] = Before(wc, w[p + 1 + 1])
                    BY <2>3, <3>1, <4>3, SMT DEF MeaningTurn
                <5>2. wc \notin Surrogates
                    BY <4>3, SMT DEF IsScalar
                <5>3. filled.next = p + 1 /\ c = Utf8(wc)
                    BY <5>2, SMT DEF filled, fill_buffer, fill_buffer16, fill_buffer32, Surrogates
                <5> HIDE DEF c, e, wc
                <5>4. QED BY <3>7, <4>1, <4>2, <4>3, <5>1, <5>3
            <4>4. CASE ~IsScalar(wc)
                <5>1. /\ size = 2 /\ p + 1 < Len(str) /\ wc \in HighSurrogates
                      /\ str[p + 2] \in LowSurrogates
                      /\ w[p + 1] = Before(pair, w[p + 1 + 2])
                    <6>1. p + 1 + 1 = p + 2
                        BY <1>1, <2>1
                    <6> HIDE DEF Bad
                    <6>2. QED BY <2>3, <3>1, <4>1, <4>4, <6>1, SMT DEF MeaningTurn
                <5>2. /\ IsScalar(pair)
                      /\ \h10000 + (wc % 1024) * 1024 + (str[p + 2] % 1024) = pair
                    BY <5>1, PairOfSurrogates
                <5>3. wc \in Surrogates /\ p + 1 # Len(str)
                    BY <1>1, <5>1, SMT DEF HighSurrogates, Surrogates
                <5>4. filled.next = p + 2 /\ c = Utf8(pair)
                    <6> HIDE DEF wc, pair
                    <6>1. filled = [next |-> p + 2, bytes |-> Utf8(pair)]
                        BY <5>1, <5>2, <5>3, SMT DEF filled, fill_buffer, fill_buffer16, Surrogates, wc
                    <6>2. QED BY <6>1
                <5>5. p + 2 \in (p + 1)..n /\ p + 2 + 1 = p + 1 + 2
                    BY <1>1, <2>1, <5>1
                <5> HIDE DEF c, e, wc, pair
                <5>6. QED BY <3>7, <4>1, <5>1, <5>2, <5>4, <5>5
            <4>5. QED BY <4>3, <4>4
        <3>9. QED BY <2>1, <3>3, <3>6, <3>8, Zenon
    <2>6. QED BY <2>4, <2>5
<1> HIDE DEF G, n
<1>5. \A p \in 0..n : p \in G
    BY <1>1, <1>4, Downward DEF n
<1>6. Is(0)
    BY <1>1, <1>5 DEF G, n
<1>7. QED BY <1>2, <1>3, <1>6

(* A text that ends within a pair of surrogates is never read past its end.*)
LEMMA CutTextEnds ==
    ASSUME NEW b \in Seq(Int), Cut(b)
    PROVE  Last(Scanned(b)).taken <= Len(b)
<1> DEFINE tokens == Scanned(b)
<1>1. PICK D : tokens \in Seq(D) /\ tokens # <<>> /\ TokensGood(b, tokens)
    BY ONLY ScannedGood, b \in Seq(Int)
<1> HIDE DEF tokens
<1>2. Len(tokens) \in Nat /\ Len(tokens) # 0
    BY <1>1, LenProperties, EmptySeq
<1>3. Len(tokens) \in 1..Len(tokens) /\ Last(tokens) = tokens[Len(tokens)]
    BY <1>2 DEF Last
<1>4. Good(b, Last(tokens))
    BY <1>1, <1>3 DEF TokensGood
<1>5. QED BY <1>4 DEF Good, Within, tokens

LEMMA TypedWide == Typed => WideTextAsNarrow
<1>1. SUFFICES ASSUME Typed, ~Narrow PROVE WideTextAsNarrow
    BY DEF WideTextAsNarrow
<1>2. text \in Seq(Int)
    <2>1. \A size \in {1, 2, 4} : Units(size) \subseteq Int
        BY SMT DEF Units, LargestUnit
    <2>2. Units(writing.size) \subseteq Int
        BY <1>1, <2>1, WritingAssumption DEF Typed
    <2>3. text \in Seq(Units(writing.size))
        BY <1>1 DEF Typed
    <2>4. \A i \in 1..Len(text) : text[i] \in Int
        BY <2>2, <2>3, ElementOfSeq
    <2>5. QED BY <2>2, <2>3
<1> DEFINE size == writing.size
           read == WideCharacters(text, size)
           meant == WideMeaning(text, size)
<1>3. meant # Bad => Scalars(read.bytes) = meant
    BY <1>2, WideReads
<1>4. read.bytes \in Seq(Int) /\ (read.past => Cut(read.bytes))
    BY <1>2, WideIsCut
<1> HIDE DEF read
<1>5. read.past => Last(Scanned(read.bytes)).taken <= Len(read.bytes)
    <2>1. SUFFICES ASSUME read.past PROVE Last(Scanned(read.bytes)).taken <= Len(read.bytes)
        OBVIOUS
    <2>2. Cut(read.bytes)
        BY <1>4, <2>1
    <2>3. QED BY <1>4, <2>2, CutTextEnds
<1>6. QED BY <1>3, <1>5 DEF WideTextAsNarrow, read

(* A well-formed UTF-16 or UTF-32 text reads like its UTF-8, and the       *)
(* adapter's index past the end of an ill-formed one is never used         *)
(* (wide_string_input_adapter, json.hpp 2020-2185, and class lexer).       *)
THEOREM WideTextsRead == TextSpec => []WideTextAsNarrow
    BY TextTyped, TypedWide, PTL

-----------------------------------------------------------------------------
(* Numbers, by their places.                                               *)

Run(s, p, q) == \A k \in p..q : s[k] \in Digits
Integral(s, p, q) == p <= q /\ Run(s, p, q) /\ (p = q \/ s[p] # Zero)
Fractional(s, p, q) == p <= q => s[p] = Point /\ p + 1 <= q /\ Run(s, p + 1, q)
Exponential(s, p, q) ==
    p <= q => /\ s[p] \in ExponentMarks
              /\ \/ p + 1 <= q /\ Run(s, p + 1, q)
                 \/ p + 2 <= q /\ s[p + 1] \in {\h2B, Minus} /\ Run(s, p + 2, q)

\* Where the integer begins.
From(s) == IF s # <<>> /\ Head(s) = Minus THEN 2 ELSE 1

\* A number with its integer up to i and its fraction up to j.
IsNumberAt(s, i, j) ==
    /\ i <= j /\ Integral(s, From(s), i) /\ Fractional(s, i + 1, j)
    /\ Exponential(s, j + 1, Len(s))

LEMMA PartPlaces ==
    ASSUME NEW s \in Seq(Int), NEW p \in 1..(Len(s) + 1), NEW q \in 0..Len(s),
           NEW t, t = SubSeq(s, p, q)
    PROVE  /\ t \in Seq(Int) /\ Len(t) \in Nat /\ DOMAIN t = 1..Len(t)
           /\ t # <<>> <=> p <= q
           /\ p <= q => /\ Len(t) = q - p + 1 /\ t[1] = s[p] /\ Head(t) = s[p]
                        /\ Tail(t) = SubSeq(s, p + 1, q)
           /\ \A k \in 1..(q - p + 1) : t[k] = s[p + k - 1]
           /\ AllDigits(t) <=> Run(s, p, q)
<1>1. Len(s) \in Nat /\ \A k \in 1..Len(s) : s[k] \in Int
    BY LenProperties, ElementOfSeq
<1>2. /\ t \in Seq(Int) /\ Len(t) = IF p <= q THEN q - p + 1 ELSE 0
      /\ \A k \in 1..(q - p + 1) : t[k] = s[p + k - 1]
    <2>1. \A k \in p..q : s[k] \in Int
        BY <1>1
    <2>2. p \in Int /\ q \in Int
        BY <1>1
    <2>3. QED BY <2>1, <2>2, SubSeqProperties
<1>3. p <= q => Head(t) = s[p] /\ Tail(t) = SubSeq(s, p + 1, q)
    <2>1. p <= q => p \in 1..Len(s) /\ q \in p..Len(s)
        BY <1>1
    <2>2. QED BY <2>1, HeadTailOfSubSeq
<1>4. Len(t) \in Nat /\ DOMAIN t = 1..Len(t) /\ (t # <<>> <=> Len(t) # 0)
    BY <1>2, LenProperties, EmptySeq
<1>5. t # <<>> <=> p <= q
    <2>1. p \in Int /\ q \in Int
        BY <1>1
    <2>2. p <= q => Len(t) # 0
        BY <1>2, <2>1
    <2>3. ~(p <= q) => Len(t) = 0
        BY <1>2
    <2>4. QED BY <1>4, <2>2, <2>3
<1>6. p <= q => t[1] = s[p]
    <2>1. p <= q => 1 \in 1..(q - p + 1) /\ p + 1 - 1 = p
        BY <1>1
    <2>2. QED BY <1>2, <2>1
<1>7. AllDigits(t) <=> Run(s, p, q)
    <2>1. ASSUME AllDigits(t), NEW k \in p..q PROVE s[k] \in Digits
        <3>1. k - p + 1 \in 1..(q - p + 1) /\ p + (k - p + 1) - 1 = k /\ p <= q
            BY <1>1, <2>1
        <3>2. k - p + 1 \in DOMAIN t /\ t[k - p + 1] = s[k]
            BY <1>2, <1>4, <3>1
        <3>3. QED BY <2>1, <3>2 DEF AllDigits
    <2>2. ASSUME Run(s, p, q), NEW k \in DOMAIN t PROVE t[k] \in Digits
        <3>1. p <= q /\ k \in 1..(q - p + 1)
            BY <1>1, <1>2, <1>4, <2>2
        <3>2. p + k - 1 \in p..q
            BY <1>1, <3>1
        <3>3. QED BY <1>2, <2>2, <3>1, <3>2 DEF Run
    <2>3. QED BY <2>1, <2>2 DEF AllDigits, Run
<1>8. p <= q => Len(t) = q - p + 1
    BY <1>2
<1>9. QED BY <1>2, <1>3, <1>4, <1>5, <1>6, <1>7, <1>8

LEMMA PartKinds ==
    ASSUME NEW s \in Seq(Int), NEW p \in 1..(Len(s) + 1), NEW q \in 0..Len(s)
    PROVE  LET t == SubSeq(s, p, q) IN
           /\ IsInteger(t) <=> Integral(s, p, q)
           /\ IsFraction(t) <=> Fractional(s, p, q)
           /\ IsExponent(t) <=> Exponential(s, p, q)
<1> DEFINE t == SubSeq(s, p, q)
<1>1. Len(s) \in Nat /\ t = SubSeq(s, p, q)
    BY LenProperties
<1> HIDE DEF t
<1>2. /\ Len(t) \in Nat /\ (t # <<>> <=> p <= q) /\ (AllDigits(t) <=> Run(s, p, q))
      /\ p <= q => /\ Len(t) = q - p + 1 /\ Head(t) = s[p] /\ Tail(t) = SubSeq(s, p + 1, q)
      /\ \A k \in 1..(q - p + 1) : t[k] = s[p + k - 1]
    <2>1. Len(t) \in Nat /\ (t # <<>> <=> p <= q) /\ (AllDigits(t) <=> Run(s, p, q))
        BY <1>1, PartPlaces, Zenon
    <2>2. p <= q => /\ Len(t) = q - p + 1 /\ Head(t) = s[p] /\ Tail(t) = SubSeq(s, p + 1, q)
        BY <1>1, PartPlaces
    <2>3. \A k \in 1..(q - p + 1) : t[k] = s[p + k - 1]
        BY <1>1, PartPlaces
    <2>4. QED BY <2>1, <2>2, <2>3
<1>3. CASE ~(p <= q)
    <2>1. t = <<>>
        BY <1>2, <1>3
    <2>2. QED BY <1>2, <1>3, <2>1
             DEF IsInteger, IsFraction, IsExponent, Integral, Fractional, Exponential, SomeDigits, t
<1>4. CASE p <= q
    <2> DEFINE u == SubSeq(s, p + 1, q)
    <2>1. p + 1 \in 1..(Len(s) + 1) /\ u = SubSeq(s, p + 1, q)
        BY <1>1, <1>4
    <2> HIDE DEF u
    <2>2. /\ (u # <<>> <=> p + 1 <= q) /\ (AllDigits(u) <=> Run(s, p + 1, q))
          /\ p + 1 <= q => /\ Head(u) = s[p + 1] /\ Tail(u) = SubSeq(s, p + 1 + 1, q)
        <3>1. (u # <<>> <=> p + 1 <= q) /\ (AllDigits(u) <=> Run(s, p + 1, q))
            BY <2>1, PartPlaces, Zenon
        <3>2. p + 1 <= q => Head(u) = s[p + 1] /\ Tail(u) = SubSeq(s, p + 1 + 1, q)
            BY <2>1, PartPlaces
        <3>3. QED BY <3>1, <3>2
    <2> DEFINE v == SubSeq(s, p + 2, q)
    <2>3. p + 1 <= q => (v # <<>> <=> p + 2 <= q) /\ (AllDigits(v) <=> Run(s, p + 2, q))
        <3>1. SUFFICES ASSUME p + 1 <= q
                       PROVE  (v # <<>> <=> p + 2 <= q) /\ (AllDigits(v) <=> Run(s, p + 2, q))
            OBVIOUS
        <3>2. p + 2 \in 1..(Len(s) + 1) /\ v = SubSeq(s, p + 2, q)
            BY <1>1, <1>4, <3>1
        <3> HIDE DEF v
        <3> DEFINE r == p + 2
        <3>3. r \in 1..(Len(s) + 1) /\ v = SubSeq(s, r, q)
            BY <3>2
        <3> HIDE DEF r
        <3>4. (v # <<>> <=> r <= q) /\ (AllDigits(v) <=> Run(s, r, q))
            BY <3>3, PartPlaces, Zenon
        <3>5. QED BY <3>4 DEF r
    <2>4. p + 1 + 1 = p + 2
        BY <1>1
    <2>5. p + 1 <= q => t[2] = s[p + 1]
        <3>1. p + 1 <= q => 2 \in 1..(q - p + 1) /\ p + 2 - 1 = p + 1
            BY <1>1
        <3>2. QED BY <1>2, <3>1
    <2>6. (Len(t) = 1 <=> p = q) /\ (Len(t) > 1 <=> p + 1 <= q) /\ (p + 2 <= q => p + 1 <= q)
        BY <1>1, <1>2, <1>4
    <2>7. t # <<>> /\ Head(t) = s[p] /\ Tail(t) = u
        BY <1>2, <1>4 DEF u
    <2>8. IsInteger(t) <=> Integral(s, p, q)
        <3>1. QED BY <1>2, <1>4, <2>6, <2>7, Zenon DEF IsInteger, Integral, SomeDigits
    <2> HIDE DEF v
    <2>9. IsFraction(t) <=> Fractional(s, p, q)
        BY <1>4, <2>2, <2>7, Zenon DEF IsFraction, Fractional, SomeDigits
    <2>10. p + 1 <= q => Tail(u) = v
        BY <2>2, <2>4 DEF v
    <2>11. IsExponent(t) <=> Exponential(s, p, q)
        <3>1. CASE p + 1 <= q
            <4>1. v # <<>> /\ AllDigits(v) <=> p + 2 <= q /\ Run(s, p + 2, q)
                BY <2>3, <3>1, Zenon
            <4>2. SomeDigits(Tail(Tail(t))) <=> p + 2 <= q /\ Run(s, p + 2, q)
                BY <2>7, <2>10, <3>1, <4>1, Zenon DEF SomeDigits
            <4>3. SomeDigits(Tail(t)) <=> p + 1 <= q /\ Run(s, p + 1, q)
                BY <2>2, <2>7, Zenon DEF SomeDigits
            <4>4. QED BY <1>4, <2>5, <2>6, <2>7, <3>1, <4>2, <4>3, Zenon DEF IsExponent, Exponential
        <3>2. CASE ~(p + 1 <= q)
            <4>1. ~SomeDigits(Tail(t))
                BY <2>2, <2>7, <3>2, Zenon DEF SomeDigits
            <4>2. QED BY <1>4, <2>6, <2>7, <3>2, <4>1, Zenon DEF IsExponent, Exponential
        <3>3. QED BY <3>1, <3>2
    <2>12. QED BY <2>8, <2>9, <2>11 DEF t
<1>5. QED BY <1>3, <1>4

LEMMA NumberPlaces ==
    ASSUME NEW s \in Seq(Int)
    PROVE  IsNumber(s) <=> \E i, j \in 0..Len(s) : IsNumberAt(s, i, j)
<1>1. Len(s) \in Nat
    BY LenProperties
<1>2. ASSUME NEW i \in 0..Len(s), NEW j \in 0..Len(s)
      PROVE  /\ s # <<>> => (IsInteger(SubSeq(s, From(s), i)) <=> Integral(s, From(s), i))
             /\ s = <<>> => (IsInteger(SubSeq(s, From(s), i)) <=> Integral(s, From(s), i))
             /\ IsFraction(SubSeq(s, i + 1, j)) <=> Fractional(s, i + 1, j)
             /\ IsExponent(SubSeq(s, j + 1, Len(s))) <=> Exponential(s, j + 1, Len(s))
    <2>1. i + 1 \in 1..(Len(s) + 1) /\ j + 1 \in 1..(Len(s) + 1) /\ Len(s) \in 0..Len(s)
        BY <1>1
    <2>2. From(s) \in 1..(Len(s) + 1)
        <3>1. s # <<>> => Len(s) > 0
            BY <1>1, EmptySeq
        <3>2. QED BY <1>1, <3>1 DEF From
    <2>3. QED BY <2>1, <2>2, PartKinds
<1>3. QED BY <1>2 DEF IsNumber, IsNumberAt, From

Accepting == {"zero", "any1", "decimal2", "any2"}
Signs == {\h2B, Minus}

LEMMA NumberBytes ==
    /\ Zero \in Digits /\ Minus # Zero
    /\ Minus \notin Digits /\ Point \notin Digits /\ \h2B \notin Digits /\ Point \notin ExponentMarks
    /\ \A c \in ExponentMarks : c \notin Digits /\ c # Point
    /\ \A c \in Signs : c \notin Digits
    /\ \A c \in Digits : c # Minus /\ c # Point /\ c \notin ExponentMarks /\ c \notin Signs
    BY DEF Zero, Digits, Minus, Point, ExponentMarks, Signs

\* What has been read of a text whose integer begins at f, up to n, at a label.
Whole(s, f, i, j) == f <= i /\ i <= j /\ Integral(s, f, i) /\ Fractional(s, i + 1, j)
Shaped(s, f, n, label) ==
    CASE label = "minus" -> f = 2 /\ n = 1
      [] label = "zero" -> n = f /\ s[f] = Zero
      [] label = "any1" -> Integral(s, f, n) /\ s[f] # Zero
      [] label = "decimal1" -> \E i \in Nat : /\ f <= i /\ Integral(s, f, i)
                                              /\ n = i + 1 /\ s[i + 1] = Point
      [] label = "decimal2" -> \E i \in Nat : /\ f <= i /\ Integral(s, f, i) /\ i + 2 <= n
                                              /\ s[i + 1] = Point /\ Run(s, i + 2, n)
      [] label = "exponent" -> \E i, j \in Nat : /\ Whole(s, f, i, j)
                                                 /\ n = j + 1 /\ s[j + 1] \in ExponentMarks
      [] label = "sign" -> \E i, j \in Nat : /\ Whole(s, f, i, j) /\ n = j + 2
                                             /\ s[j + 1] \in ExponentMarks /\ s[j + 2] \in Signs
      [] label = "any2" -> \E i, j \in Nat : /\ Whole(s, f, i, j)
                                             /\ j < n /\ Exponential(s, j + 1, n)

LEMMA RunLonger ==
    ASSUME NEW s, NEW p \in Int, NEW n \in Int, Run(s, p, n), s[n + 1] \in Digits
    PROVE  Run(s, p, n + 1)
<1>1. \A k \in p..(n + 1) : k \in p..n \/ k = n + 1
    OBVIOUS
<1>2. QED BY <1>1 DEF Run

LEMMA RunOfOne ==
    ASSUME NEW s, NEW p \in Int, s[p] \in Digits
    PROVE  Run(s, p, p)
<1>1. \A k \in p..p : k = p
    OBVIOUS
<1>2. QED BY <1>1 DEF Run

\* Where an integer ends the text can go on.
LEMMA AfterIntegerShaped ==
    ASSUME NEW s, NEW f \in Nat, NEW n \in Nat, f <= n, Integral(s, f, n),
           NEW next, next = AfterInteger(s[n + 1]), next # "done"
    PROVE  next \in {"decimal1", "exponent"} /\ Shaped(s, f, n + 1, next)
<1>1. CASE s[n + 1] = Point
    <2>1. next = "decimal1"
        BY <1>1 DEF AfterInteger
    <2>2. Shaped(s, f, n + 1, "decimal1")
        BY <1>1 DEF Shaped
    <2>3. QED BY <2>1, <2>2
<1>2. CASE s[n + 1] # Point
    <2>1. next = "exponent" /\ s[n + 1] \in ExponentMarks
        BY <1>2 DEF AfterInteger
    <2>2. Whole(s, f, n, n)
        BY DEF Whole, Fractional
    <2>3. Shaped(s, f, n + 1, "exponent")
        BY <2>1, <2>2 DEF Shaped
    <2>4. QED BY <2>1, <2>3
<1>3. QED BY <1>1, <1>2

\* The exponent begins where a fraction ends.
LEMMA FractionEnds ==
    ASSUME NEW s, NEW f \in Nat, NEW n \in Nat, Shaped(s, f, n, "decimal2")
    PROVE  \E i \in Nat : Whole(s, f, i, n)
<1>1. PICK i \in Nat : /\ f <= i /\ Integral(s, f, i) /\ i + 2 <= n
                       /\ s[i + 1] = Point /\ Run(s, i + 2, n)
    BY DEF Shaped
<1>2. Fractional(s, i + 1, n)
    <2>1. i + 1 + 1 = i + 2 /\ i + 1 <= n /\ i <= n
        BY <1>1
    <2>2. QED BY <1>1, <2>1 DEF Fractional
<1>3. QED BY <1>1, <1>2 DEF Whole

(* A label says what has been read.                                        *)
LEMMA ShapedOn ==
    ASSUME NEW s, NEW f \in {1, 2}, NEW n \in Nat, n >= 1, NEW label \in Labels \ {"init"},
           Shaped(s, f, n, label), NEW next, next = Goto(label, s[n + 1]),
           next \notin {"done", "error"}
    PROVE  next \in Labels \ {"init"} /\ Shaped(s, f, n + 1, next)
<1> DEFINE c == s[n + 1]
<1>1. CASE label = "minus"
    <2>1. f = 2 /\ n = 1
        BY <1>1 DEF Shaped
    <2>2. /\ next = IF c = Zero THEN "zero" ELSE IF c \in Digits THEN "any1" ELSE "error"
        BY <1>1 DEF Goto
    <2>3. CASE c = Zero
        <3>1. next = "zero" /\ n + 1 = f
            BY <2>1, <2>2, <2>3
        <3>2. QED BY <2>1, <2>3, <3>1 DEF Shaped, Labels
    <2>4. CASE c # Zero
        <3>1. next = "any1" /\ n + 1 = f /\ c \in Digits
            BY <2>1, <2>2, <2>4
        <3>2. Integral(s, f, n + 1)
            BY <2>1, <3>1, RunOfOne DEF Integral
        <3>3. QED BY <2>1, <2>4, <3>1, <3>2 DEF Shaped, Labels
    <2>5. QED BY <2>3, <2>4
<1>2. CASE label = "zero"
    <2>1. n = f /\ s[f] = Zero
        BY <1>2 DEF Shaped
    <2>2. next = AfterInteger(c)
        BY <1>2 DEF Goto
    <2>3. Integral(s, f, n)
        BY <2>1, NumberBytes, RunOfOne DEF Integral
    <2>4. QED BY <2>1, <2>2, <2>3, AfterIntegerShaped DEF Labels
<1>3. CASE label = "any1"
    <2>1. Integral(s, f, n) /\ s[f] # Zero /\ f <= n
        BY <1>3 DEF Shaped, Integral
    <2>2. next = IF c \in Digits THEN "any1" ELSE AfterInteger(c)
        BY <1>3 DEF Goto
    <2>3. CASE c \in Digits
        <3>1. Run(s, f, n + 1)
            BY <2>1, <2>3, RunLonger DEF Integral
        <3>2. Integral(s, f, n + 1)
            BY <2>1, <3>1 DEF Integral
        <3>3. QED BY <2>1, <2>2, <2>3, <3>2 DEF Shaped, Labels
    <2>4. CASE c \notin Digits
        BY <2>1, <2>2, <2>4, AfterIntegerShaped DEF Labels
    <2>5. QED BY <2>3, <2>4
<1>4. CASE label = "decimal1"
    <2>1. PICK i \in Nat : f <= i /\ Integral(s, f, i) /\ n = i + 1 /\ s[i + 1] = Point
        BY <1>4 DEF Shaped
    <2>2. next = "decimal2" /\ c \in Digits
        BY <1>4 DEF Goto
    <2>3. i + 2 = n + 1
        BY <2>1
    <2>4. Run(s, i + 2, n + 1)
        BY <2>2, <2>3, RunOfOne
    <2>5. i + 2 <= n + 1
        BY <2>3
    <2>6. Shaped(s, f, n + 1, "decimal2")
        BY <2>1, <2>4, <2>5 DEF Shaped
    <2>7. QED BY <2>2, <2>6 DEF Labels
<1>5. CASE label = "decimal2"
    <2>1. PICK i \in Nat : /\ f <= i /\ Integral(s, f, i) /\ i + 2 <= n
                           /\ s[i + 1] = Point /\ Run(s, i + 2, n)
        BY <1>5 DEF Shaped
    <2>2. next = IF c \in Digits THEN "decimal2" ELSE IF c \in ExponentMarks THEN "exponent" ELSE "done"
        BY <1>5 DEF Goto
    <2>3. CASE c \in Digits
        <3>1. Run(s, i + 2, n + 1) /\ i + 2 <= n + 1
            BY <2>1, <2>3, RunLonger
        <3>2. Shaped(s, f, n + 1, "decimal2")
            BY <2>1, <3>1 DEF Shaped
        <3>3. QED BY <2>2, <2>3, <3>2 DEF Labels
    <2>4. CASE c \notin Digits
        <3>1. next = "exponent" /\ c \in ExponentMarks
            BY <2>2, <2>4
        <3>2. \E k \in Nat : Whole(s, f, k, n)
            BY <1>5, FractionEnds
        <3>3. Shaped(s, f, n + 1, "exponent")
            BY <3>1, <3>2 DEF Shaped
        <3>4. QED BY <3>1, <3>3 DEF Labels
    <2>5. QED BY <2>3, <2>4
<1>6. CASE label = "exponent"
    <2>1. PICK i, j \in Nat : Whole(s, f, i, j) /\ n = j + 1 /\ s[j + 1] \in ExponentMarks
        BY <1>6 DEF Shaped
    <2>2. next = IF c \in Signs THEN "sign" ELSE IF c \in Digits THEN "any2" ELSE "error"
        BY <1>6 DEF Goto, Signs
    <2>3. n + 1 = j + 2 /\ j + 1 + 1 = j + 2 /\ j < n + 1 /\ j + 2 <= n + 1
        BY <2>1
    <2>4. CASE c \in Signs
        <3>1. s[j + 2] \in Signs
            BY <2>3, <2>4
        <3>2. Shaped(s, f, n + 1, "sign")
            BY <2>1, <2>3, <3>1 DEF Shaped
        <3>3. QED BY <2>2, <2>4, <3>2 DEF Labels
    <2>5. CASE c \notin Signs
        <3>1. next = "any2" /\ c \in Digits
            BY <2>2, <2>5
        <3>2. Run(s, j + 2, n + 1)
            BY <2>3, <3>1, RunOfOne
        <3>3. Exponential(s, j + 1, n + 1)
            BY <2>1, <2>3, <3>2 DEF Exponential
        <3>4. Shaped(s, f, n + 1, "any2")
            BY <2>1, <2>3, <3>3 DEF Shaped
        <3>5. QED BY <3>1, <3>4 DEF Labels
    <2>6. QED BY <2>4, <2>5
<1>7. CASE label = "sign"
    <2>1. PICK i, j \in Nat : /\ Whole(s, f, i, j) /\ n = j + 2
                              /\ s[j + 1] \in ExponentMarks /\ s[j + 2] \in Signs
        BY <1>7 DEF Shaped
    <2>2. next = "any2" /\ c \in Digits
        BY <1>7 DEF Goto
    <2>3. n + 1 = j + 3 /\ j + 1 + 1 = j + 2 /\ j + 1 + 2 = j + 3 /\ j < n + 1 /\ j + 3 <= n + 1
        BY <2>1
    <2>4. Run(s, j + 3, n + 1)
        BY <2>2, <2>3, RunOfOne
    <2>5. Exponential(s, j + 1, n + 1)
        BY <2>1, <2>3, <2>4 DEF Exponential, Signs
    <2>6. Shaped(s, f, n + 1, "any2")
        BY <2>1, <2>3, <2>5 DEF Shaped
    <2>7. QED BY <2>2, <2>6 DEF Labels
<1>8. CASE label = "any2"
    <2>1. PICK i, j \in Nat : Whole(s, f, i, j) /\ j < n /\ Exponential(s, j + 1, n)
        BY <1>8 DEF Shaped
    <2>2. next = "any2" /\ c \in Digits
        BY <1>8 DEF Goto
    <2>3. /\ j + 1 <= n /\ j + 1 <= n + 1 /\ j < n + 1
          /\ (j + 1 + 1 <= n => j + 1 + 1 <= n + 1) /\ (j + 1 + 2 <= n => j + 1 + 2 <= n + 1)
        BY <2>1
    <2>4. /\ Run(s, j + 1 + 1, n) => Run(s, j + 1 + 1, n + 1)
          /\ Run(s, j + 1 + 2, n) => Run(s, j + 1 + 2, n + 1)
        BY <2>2, RunLonger
    <2>5. Exponential(s, j + 1, n + 1)
        BY <2>1, <2>3, <2>4, Zenon DEF Exponential
    <2>6. Shaped(s, f, n + 1, "any2")
        BY <2>1, <2>3, <2>5 DEF Shaped
    <2>7. QED BY <2>2, <2>6 DEF Labels
<1>9. QED BY <1>1, <1>2, <1>3, <1>4, <1>5, <1>6, <1>7, <1>8 DEF Labels

\* The first byte.
LEMMA ShapedFirst ==
    ASSUME NEW s, s[1] \in NumberStarts, NEW f, f = IF s[1] = Minus THEN 2 ELSE 1
    PROVE  Goto("init", s[1]) \in Labels \ {"init"} /\ Shaped(s, f, 1, Goto("init", s[1]))
<1> DEFINE c == s[1]
           next == Goto("init", c)
<1>1. next = IF c = Minus THEN "minus" ELSE IF c = Zero THEN "zero" ELSE "any1"
    BY DEF Goto
<1> HIDE DEF next
<1>2. CASE c = Minus
    BY <1>1, <1>2 DEF Shaped, Labels, next
<1>3. CASE c # Minus /\ c = Zero
    BY <1>1, <1>3 DEF Shaped, Labels, next
<1>4. CASE c # Minus /\ c # Zero
    <2>1. c \in Digits /\ f = 1 /\ next = "any1"
        BY <1>1, <1>4 DEF NumberStarts
    <2>2. Integral(s, 1, 1)
        BY <2>1, RunOfOne DEF Integral
    <2>3. QED BY <1>4, <2>1, <2>2 DEF Shaped, Labels, next
<1>5. QED BY <1>2, <1>3, <1>4

(* What is at the same places is of the same kind.                         *)
LEMMA SamePlaces ==
    ASSUME NEW a, NEW b, NEW n \in Nat, \A k \in 1..n : a[k] = b[k],
           NEW p \in Nat, p >= 1, NEW q \in Nat, q <= n
    PROVE  /\ Run(a, p, q) => Run(b, p, q)
           /\ Integral(a, p, q) => Integral(b, p, q)
           /\ Fractional(a, p, q) => Fractional(b, p, q)
           /\ Exponential(a, p, q) => Exponential(b, p, q)
<1>1. \A r \in Nat : r >= 1 /\ Run(a, r, q) => Run(b, r, q)
    <2>1. \A r \in Nat, k \in Nat : r >= 1 /\ k \in r..q => k \in 1..n
        OBVIOUS
    <2>2. SUFFICES ASSUME NEW r \in Nat, r >= 1, Run(a, r, q), NEW k \in r..q PROVE b[k] \in Digits
        BY DEF Run
    <2>3. k \in 1..n
        BY <2>2
    <2>4. QED BY <2>2, <2>3 DEF Run
<1>2. /\ p + 1 \in Nat /\ p + 1 >= 1 /\ p + 2 \in Nat /\ p + 2 >= 1
      /\ p <= q => p \in 1..n
      /\ p + 1 <= q => p + 1 \in 1..n
      /\ p + 2 <= q => p + 1 <= q
    OBVIOUS
<1>3. /\ p <= q => a[p] = b[p]
      /\ p + 1 <= q => a[p + 1] = b[p + 1]
    BY <1>2
<1>4. /\ Run(a, p, q) => Run(b, p, q)
      /\ Run(a, p + 1, q) => Run(b, p + 1, q)
      /\ Run(a, p + 2, q) => Run(b, p + 2, q)
    BY <1>1, <1>2
<1>5. Integral(a, p, q) => Integral(b, p, q)
    BY <1>3, <1>4 DEF Integral
<1>6. Fractional(a, p, q) => Fractional(b, p, q)
    BY <1>3, <1>4 DEF Fractional
<1>7. Exponential(a, p, q) => Exponential(b, p, q)
    BY <1>2, <1>3, <1>4 DEF Exponential
<1>8. QED BY <1>4, <1>5, <1>6, <1>7

LEMMA SameWhole ==
    ASSUME NEW a, NEW b, NEW n \in Nat, \A k \in 1..n : a[k] = b[k],
           NEW f \in {1, 2}, NEW i \in Nat, NEW j \in Nat, j <= n, Whole(a, f, i, j)
    PROVE  Whole(b, f, i, j)
<1>1. f <= i /\ i <= j /\ i <= n /\ i + 1 \in Nat /\ i + 1 >= 1 /\ f \in Nat /\ f >= 1
    BY DEF Whole
<1>2. Integral(a, f, i) => Integral(b, f, i)
    BY <1>1, SamePlaces
<1>3. Fractional(a, i + 1, j) => Fractional(b, i + 1, j)
    BY <1>1, SamePlaces
<1>4. QED BY <1>1, <1>2, <1>3 DEF Whole

\* What has been read is a number where scan_number may be done.
LEMMA Accepted ==
    ASSUME NEW s, NEW f \in {1, 2}, NEW n \in Nat, NEW label \in Accepting, Shaped(s, f, n, label)
    PROVE  \E i, j \in 0..n : Whole(s, f, i, j) /\ Exponential(s, j + 1, n)
<1>1. Exponential(s, n + 1, n)
    BY DEF Exponential
<1>2. CASE label \in {"zero", "any1"}
    <2>1. Integral(s, f, n) /\ f <= n
        <3>1. CASE label = "zero"
            <4>1. n = f /\ s[f] = Zero
                BY <3>1 DEF Shaped
            <4>2. QED BY <4>1, NumberBytes, RunOfOne DEF Integral
        <3>2. CASE label = "any1"
            BY <3>2 DEF Shaped, Integral
        <3>3. QED BY <1>2, <3>1, <3>2
    <2>2. Whole(s, f, n, n)
        BY <2>1 DEF Whole, Fractional
    <2>3. QED BY <1>1, <2>2
<1>3. CASE label = "decimal2"
    <2>1. PICK i \in Nat : Whole(s, f, i, n)
        BY <1>3, FractionEnds
    <2>2. i \in 0..n
        BY <2>1 DEF Whole
    <2>3. QED BY <1>1, <2>1, <2>2
<1>4. CASE label = "any2"
    <2>1. PICK i, j \in Nat : Whole(s, f, i, j) /\ j < n /\ Exponential(s, j + 1, n)
        BY <1>4 DEF Shaped
    <2>2. i \in 0..n /\ j \in 0..n
        BY <2>1 DEF Whole
    <2>3. QED BY <2>1, <2>2
<1>5. QED BY <1>2, <1>3, <1>4 DEF Accepting

\* ... and elsewhere it is one but for a digit.
LEMMA Completed ==
    ASSUME NEW s, NEW f \in {1, 2}, NEW n \in Nat, n >= 1, NEW label \in Labels \ {"init"},
           label \notin Accepting, Shaped(s, f, n, label),
           NEW t, \A k \in 1..n : s[k] = t[k], t[n + 1] = Zero
    PROVE  \E i, j \in 0..(n + 1) : Whole(t, f, i, j) /\ Exponential(t, j + 1, n + 1)
<1>1. t[n + 1] \in Digits
    BY NumberBytes
<1>2. CASE label = "minus"
    <2>1. f = 2 /\ n = 1 /\ n + 1 = 2
        BY <1>2 DEF Shaped
    <2>2. Integral(t, 2, 2)
        BY <1>1, <2>1, RunOfOne DEF Integral
    <2>3. Whole(t, f, 2, 2)
        BY <2>1, <2>2 DEF Whole, Fractional
    <2>4. Exponential(t, 2 + 1, n + 1)
        BY <2>1 DEF Exponential
    <2>5. 2 \in 0..(n + 1)
        BY <2>1
    <2>6. QED BY <2>3, <2>4, <2>5
<1>3. CASE label = "decimal1"
    <2>1. PICK i \in Nat : f <= i /\ Integral(s, f, i) /\ n = i + 1 /\ s[i + 1] = Point
        BY <1>3 DEF Shaped
    <2>2. Integral(t, f, i)
        BY <2>1, SamePlaces
    <2>3. t[i + 1] = Point
        BY <2>1
    <2>4. Run(t, i + 1 + 1, n + 1)
        BY <1>1, <2>1, RunOfOne
    <2>5. Fractional(t, i + 1, n + 1)
        BY <2>1, <2>3, <2>4 DEF Fractional
    <2>6. Whole(t, f, i, n + 1)
        BY <2>1, <2>2, <2>5 DEF Whole
    <2>7. Exponential(t, n + 1 + 1, n + 1)
        BY DEF Exponential
    <2>8. i \in 0..(n + 1) /\ n + 1 \in 0..(n + 1)
        BY <2>1
    <2>9. QED BY <2>6, <2>7, <2>8
<1>4. CASE label = "exponent"
    <2>1. PICK i, j \in Nat : Whole(s, f, i, j) /\ n = j + 1 /\ s[j + 1] \in ExponentMarks
        BY <1>4 DEF Shaped
    <2>2. Whole(t, f, i, j)
        BY <2>1, SameWhole
    <2>3. t[j + 1] \in ExponentMarks /\ j + 1 + 1 = n + 1 /\ j + 1 <= n + 1
        BY <2>1
    <2>4. Run(t, j + 1 + 1, n + 1)
        BY <1>1, <2>3, RunOfOne
    <2>5. Exponential(t, j + 1, n + 1)
        BY <2>3, <2>4 DEF Exponential
    <2>6. i \in 0..(n + 1) /\ j \in 0..(n + 1)
        BY <2>1 DEF Whole
    <2>7. QED BY <2>2, <2>5, <2>6
<1>5. CASE label = "sign"
    <2>1. PICK i, j \in Nat : /\ Whole(s, f, i, j) /\ n = j + 2
                              /\ s[j + 1] \in ExponentMarks /\ s[j + 2] \in Signs
        BY <1>5 DEF Shaped
    <2>2. Whole(t, f, i, j)
        BY <2>1, SameWhole
    <2>3. /\ t[j + 1] \in ExponentMarks /\ t[j + 1 + 1] \in Signs
          /\ j + 1 + 2 = n + 1 /\ j + 1 <= n + 1 /\ j + 1 + 2 <= n + 1
        <3>1. j + 1 \in 1..n /\ j + 2 \in 1..n /\ j + 1 + 1 = j + 2
            BY <2>1
        <3>2. QED BY <2>1, <3>1
    <2>4. Run(t, j + 1 + 2, n + 1)
        BY <1>1, <2>3, RunOfOne
    <2>5. Exponential(t, j + 1, n + 1)
        BY <2>3, <2>4 DEF Exponential, Signs
    <2>6. i \in 0..(n + 1) /\ j \in 0..(n + 1)
        BY <2>1 DEF Whole
    <2>7. QED BY <2>2, <2>5, <2>6
<1>6. QED BY <1>2, <1>3, <1>4, <1>5 DEF Labels, Accepting

-----------------------------------------------------------------------------
\* At which label scan_number is behind the k-th byte of a number.
LabelOf(s, f, i, j, k) ==
    IF k < f THEN "minus"
    ELSE IF k <= i THEN IF s[f] = Zero THEN "zero" ELSE "any1"
    ELSE IF k <= j THEN IF k = i + 1 THEN "decimal1" ELSE "decimal2"
    ELSE IF k = j + 1 THEN "exponent"
    ELSE IF k = j + 2 /\ s[k] \notin Digits THEN "sign" ELSE "any2"

LEMMA LabelStep ==
    ASSUME NEW s, NEW f \in {1, 2}, NEW i \in Nat, NEW j \in Nat, NEW n \in Nat,
           Whole(s, f, i, j), j <= n, Exponential(s, j + 1, n),
           NEW k \in 1..(n - 1)
    PROVE  Goto(LabelOf(s, f, i, j, k), s[k + 1]) = LabelOf(s, f, i, j, k + 1)
<1> DEFINE now == LabelOf(s, f, i, j, k)
           next == LabelOf(s, f, i, j, k + 1)
           c == s[k + 1]
<1>1. /\ f <= i /\ i <= j /\ k + 1 <= n
      /\ \A m \in f..i : s[m] \in Digits
      /\ f = i \/ s[f] # Zero
    BY DEF Whole, Integral, Run
<1>2. i + 1 <= j => s[i + 1] = Point /\ i + 2 <= j /\ \A m \in (i + 2)..j : s[m] \in Digits
    BY <1>1 DEF Whole, Fractional, Run
<1>3. j + 1 <= n => /\ s[j + 1] \in ExponentMarks
                    /\ \/ j + 2 <= n /\ \A m \in (j + 2)..n : s[m] \in Digits
                       \/ j + 3 <= n /\ s[j + 2] \in Signs /\ \A m \in (j + 3)..n : s[m] \in Digits
    BY <1>1 DEF Exponential, Run, Signs
<1>4. CASE k < f
    <2>1. k = 1 /\ f = 2 /\ c = s[f] /\ k + 1 <= i /\ ~(k + 1 < f)
        BY <1>1, <1>4
    <2>2. now = "minus" /\ c \in Digits
        BY <1>1, <1>4, <2>1 DEF LabelOf
    <2>3. next = IF s[f] = Zero THEN "zero" ELSE "any1"
        BY <2>1 DEF LabelOf
    <2>4. QED BY <2>1, <2>2, <2>3 DEF Goto
<1>5. CASE f <= k /\ k < i
    <2>1. s[f] # Zero /\ c \in Digits /\ k + 1 <= i /\ ~(k < f) /\ ~(k + 1 < f) /\ k <= i
        BY <1>1, <1>5
    <2>2. now = "any1" /\ next = "any1"
        BY <2>1 DEF LabelOf
    <2>3. QED BY <2>1, <2>2 DEF Goto
<1>6. CASE k = i
    <2>1. now \in {"zero", "any1"}
        BY <1>1, <1>6 DEF LabelOf
    <2>2. c \notin Digits => Goto(now, c) = AfterInteger(c)
        BY <2>1 DEF Goto
    <2>3. CASE i < j
        <3>1. next = "decimal1" /\ c = Point
            BY <1>1, <1>2, <1>6, <2>3 DEF LabelOf
        <3>2. QED BY <2>2, <3>1, NumberBytes DEF AfterInteger
    <2>4. CASE i = j
        <3>1. next = "exponent" /\ c \in ExponentMarks
            BY <1>1, <1>3, <1>6, <2>4 DEF LabelOf
        <3>2. QED BY <2>2, <3>1, NumberBytes DEF AfterInteger
    <2>5. QED BY <1>1, <2>3, <2>4
<1>7. CASE i < k /\ k < j
    <2>1. next = "decimal2" /\ c \in Digits
        <3>1. k + 1 \in (i + 2)..j /\ i + 1 <= j /\ k + 1 # i + 1
            BY <1>1, <1>7
        <3>2. QED BY <1>1, <1>2, <1>7, <3>1 DEF LabelOf
    <2>2. now \in {"decimal1", "decimal2"}
        BY <1>1, <1>7 DEF LabelOf
    <2>3. QED BY <2>1, <2>2 DEF Goto
<1>8. CASE i < k /\ k = j
    <2>1. now = "decimal2"
        BY <1>1, <1>2, <1>8 DEF LabelOf
    <2>2. next = "exponent" /\ c \in ExponentMarks
        BY <1>1, <1>3, <1>8 DEF LabelOf
    <2>3. QED BY <2>1, <2>2, NumberBytes DEF Goto
<1>9. CASE k = j + 1
    <2>1. now = "exponent" /\ c = s[j + 2] /\ k + 1 = j + 2
        BY <1>1, <1>9 DEF LabelOf
    <2>2. next = IF c \notin Digits THEN "sign" ELSE "any2"
        BY <1>1, <1>9, <2>1 DEF LabelOf
    <2>3. c \in Digits \/ c \in Signs
        BY <1>1, <1>3, <1>9, <2>1
    <2>4. Goto(now, c) = IF c \in Signs THEN "sign" ELSE IF c \in Digits THEN "any2" ELSE "error"
        BY <2>1 DEF Goto, Signs
    <2>5. QED BY <2>2, <2>3, <2>4, NumberBytes
<1>10. CASE k >= j + 2
    <2>1. next = "any2" /\ now \in {"sign", "any2"}
        BY <1>1, <1>10 DEF LabelOf
    <2>2. c \in Digits
        <3>1. k + 1 \in (j + 2)..n /\ k + 1 \in (j + 3)..n /\ j + 1 <= n
            BY <1>1, <1>10
        <3>2. QED BY <1>3, <3>1
    <2>3. QED BY <2>1, <2>2 DEF Goto
<1>11. QED BY <1>1, <1>4, <1>5, <1>6, <1>7, <1>8, <1>9, <1>10

LEMMA LabelFirst ==
    ASSUME NEW s, s[1] \in NumberStarts, NEW f, f = IF s[1] = Minus THEN 2 ELSE 1,
           NEW i \in Nat, NEW j \in Nat, Whole(s, f, i, j)
    PROVE  Goto("init", s[1]) = LabelOf(s, f, i, j, 1)
<1> DEFINE c == s[1]
<1>1. Goto("init", c) = IF c = Minus THEN "minus" ELSE IF c = Zero THEN "zero" ELSE "any1"
    BY DEF Goto
<1>2. f <= i
    BY DEF Whole
<1>3. LabelOf(s, f, i, j, 1) = IF c = Minus THEN "minus" ELSE IF c = Zero THEN "zero" ELSE "any1"
    BY <1>2 DEF LabelOf
<1>4. QED BY <1>1, <1>3

LEMMA LabelKinds ==
    ASSUME NEW s, NEW f \in {1, 2}, NEW i \in Nat, NEW j \in Nat, NEW n \in Nat,
           Whole(s, f, i, j), j <= n, Exponential(s, j + 1, n)
    PROVE  /\ \A k \in Nat : LabelOf(s, f, i, j, k) \in Labels \ {"init"}
           /\ LabelOf(s, f, i, j, n) \in Accepting
<1>1. f <= i /\ i <= j
    BY DEF Whole
<1>2. \A k \in Nat : LabelOf(s, f, i, j, k) \in Labels \ {"init"}
    BY DEF LabelOf, Labels
<1>3. CASE j = n
    <2>1. i < j => i + 2 <= j
        BY <1>1 DEF Whole, Fractional
    <2>2. QED BY <1>1, <1>2, <1>3, <2>1 DEF LabelOf, Accepting
<1>4. CASE j < n
    <2>1. \/ j + 2 <= n /\ \A m \in (j + 2)..n : s[m] \in Digits
          \/ j + 3 <= n
        BY <1>4 DEF Exponential, Run
    <2>2. QED BY <1>1, <1>2, <1>4, <2>1 DEF LabelOf, Accepting
<1>5. QED BY <1>2, <1>3, <1>4

LEMMA NumberWhole ==
    ASSUME NEW s \in Seq(Int)
    PROVE  IsNumber(s) <=> \E i, j \in 0..Len(s) : Whole(s, From(s), i, j)
                                                  /\ Exponential(s, j + 1, Len(s))
<1>1. \A i, j : IsNumberAt(s, i, j) <=> Whole(s, From(s), i, j) /\ Exponential(s, j + 1, Len(s))
    BY Zenon DEF IsNumberAt, Whole, Integral
<1>2. QED BY <1>1, NumberPlaces

\* A part of a text from its beginning, and that part with one more digit.
LEMMA Beginning ==
    ASSUME NEW b \in Seq(Int), NEW n \in 1..Len(b)
    PROVE  LET s == SubSeq(b, 1, n)
               t == Append(s, Zero)
           IN  /\ s \in Seq(Int) /\ Len(s) = n /\ s # <<>> /\ Head(s) = b[1]
               /\ \A k \in 1..n : s[k] = b[k]
               /\ t \in Seq(Int) /\ Len(t) = n + 1 /\ t # <<>> /\ Head(t) = b[1]
               /\ t[n + 1] = Zero /\ \A k \in 1..n : t[k] = b[k]
<1> DEFINE s == SubSeq(b, 1, n)
           t == Append(s, Zero)
<1>1. Len(b) \in Nat /\ n \in Nat /\ 1 \in 1..n
    BY LenProperties
<1>2. \A k \in 1..n : b[k] \in Int
    BY <1>1, ElementOfSeq
<1>3. s \in Seq(Int) /\ Len(s) = n /\ \A k \in 1..n : s[k] = b[k]
    <2>1. /\ s \in Seq(Int) /\ Len(s) = IF 1 <= n THEN n - 1 + 1 ELSE 0
          /\ \A k \in 1..(n - 1 + 1) : s[k] = b[1 + k - 1]
        BY <1>1, <1>2, SubSeqProperties
    <2> HIDE DEF s
    <2>2. QED BY <1>1, <2>1
<1> HIDE DEF s
<1>4. s # <<>> /\ Head(s) = b[1]
    BY <1>1, <1>3, EmptySeq
<1>5. Zero \in Int
    BY DEF Zero
<1>6. t \in Seq(Int) /\ Len(t) = n + 1 /\ t[n + 1] = Zero /\ \A k \in 1..n : t[k] = b[k]
    <2>1. /\ t \in Seq(Int) /\ Len(t) = Len(s) + 1 /\ \A k \in 1..Len(s) : t[k] = s[k]
          /\ t[Len(s) + 1] = Zero
        BY <1>3, <1>5, AppendProperties
    <2> HIDE DEF t
    <2>2. QED BY <1>3, <2>1
<1> HIDE DEF t
<1>7. t # <<>> /\ Head(t) = b[1]
    BY <1>1, <1>6, EmptySeq
<1>8. QED BY <1>3, <1>4, <1>6, <1>7 DEF s, t

\* What is shaped as a label says is a number but for a digit.
LEMMA ShapedSoFar ==
    ASSUME NEW b \in Seq(Int), NEW n \in 1..Len(b), NEW f, f = IF b[1] = Minus THEN 2 ELSE 1,
           NEW label \in Labels \ {"init"}, Shaped(b, f, n, label)
    PROVE  /\ IsNumberSoFar(SubSeq(b, 1, n))
           /\ label \in Accepting => IsNumber(SubSeq(b, 1, n))
<1> DEFINE s == SubSeq(b, 1, n)
           t == Append(s, Zero)
<1>1. n \in Nat /\ n >= 1 /\ f \in {1, 2}
    BY LenProperties
<1>2. /\ s \in Seq(Int) /\ Len(s) = n /\ s # <<>> /\ Head(s) = b[1]
      /\ \A k \in 1..n : s[k] = b[k]
      /\ t \in Seq(Int) /\ Len(t) = n + 1 /\ t # <<>> /\ Head(t) = b[1]
      /\ t[n + 1] = Zero /\ \A k \in 1..n : t[k] = b[k]
    BY Beginning
<1> HIDE DEF s
<1>3. CASE label \in Accepting
    <2>1. PICK i, j \in 0..n : Whole(b, f, i, j) /\ Exponential(b, j + 1, n)
        BY <1>1, <1>3, Accepted
    <2>0. i \in Nat /\ j \in Nat /\ j <= n /\ \A k \in 1..n : b[k] = s[k]
        BY <1>1, <1>2
    <2>2. Whole(s, f, i, j)
        BY <1>1, <2>0, <2>1, SameWhole, Zenon
    <2>3. Exponential(s, j + 1, n)
        <3>1. j + 1 \in Nat /\ j + 1 >= 1 /\ n <= n
            BY <1>1
        <3>2. QED BY ONLY <1>1, <2>0, <2>1, <3>1, SamePlaces
    <2>4. From(s) = f
        BY <1>2 DEF From
    <2>5. IsNumber(s)
        BY <1>2, <2>2, <2>3, <2>4, NumberWhole
    <2>6. QED BY <2>5 DEF IsNumberSoFar, s
<1> HIDE DEF t
<1>4. CASE label \notin Accepting
    <2>1. PICK i, j \in 0..(n + 1) : Whole(t, f, i, j) /\ Exponential(t, j + 1, n + 1)
        <3>1. \A k \in 1..n : b[k] = t[k]
            BY <1>2
        <3>2. t[n + 1] = Zero
            BY <1>2
        <3>3. QED BY ONLY <1>1, <1>4, <3>1, <3>2, label \in Labels \ {"init"}, Shaped(b, f, n, label), Completed
    <2>2. From(t) = f
        BY <1>2 DEF From
    <2>3. IsNumber(t)
        BY <1>2, <2>1, <2>2, NumberWhole
    <2>4. QED BY <1>4, <2>3 DEF IsNumberSoFar, s, t
<1>5. QED BY <1>3, <1>4

\* The labels of scan_number on a text.
IsPath(b, path) ==
    /\ path[0] = "init"
    /\ \A k \in 1..(Len(b) + 1) :
          path[k] = IF path[k - 1] \in {"done", "error"} THEN path[k - 1]
                    ELSE Goto(path[k - 1], CharAt(b, k))

\* Where the integer of what begins a text begins.
IntegerAt(b) == IF b[1] = Minus THEN 2 ELSE 1

\* A number of n bytes, m at least, with its parts.
HasParts(s, f, m, n, i, j) ==
    /\ m <= n /\ n \in Nat /\ i \in Nat /\ j \in Nat /\ j <= n
    /\ Whole(s, f, i, j) /\ Exponential(s, j + 1, n)

Agree(s, b, m) == \A k \in 1..m : s[k] = b[k]

\* On the way through a number the labels are those of its parts.
LEMMA PathIs ==
    ASSUME NEW b \in Seq(Int), b[1] \in NumberStarts, NEW path, IsPath(b, path),
           NEW m \in 1..Len(b), NEW s, Agree(s, b, m),
           NEW n, NEW i, NEW j, HasParts(s, IntegerAt(b), m, n, i, j)
    PROVE  \A k \in 1..m : path[k] = LabelOf(s, IntegerAt(b), i, j, k)
<1> DEFINE f == IntegerAt(b)
<1>f. f = IF b[1] = Minus THEN 2 ELSE 1
    BY DEF IntegerAt
<1>0. /\ m <= n /\ n \in Nat /\ i \in Nat /\ j \in Nat /\ j <= n
      /\ Whole(s, f, i, j) /\ Exponential(s, j + 1, n)
    BY DEF HasParts
<1> HIDE DEF f
<1>1. Len(b) \in Nat /\ m \in Nat /\ 1 \in 1..m /\ f \in {1, 2} /\ DOMAIN b = 1..Len(b)
    BY <1>f, LenProperties
<1>2. \A k \in 1..m : k \in 1..(Len(b) + 1) /\ CharAt(b, k) = s[k]
    BY <1>1 DEF CharAt, Agree
<1> DEFINE G == {k \in Nat : k >= 1 => path[k] = LabelOf(s, f, i, j, k)}
<1>3. 0 \in G
    OBVIOUS
<1>4. ASSUME NEW k \in 0..(m - 1), k \in G PROVE k + 1 \in G
    <2>1. k + 1 \in 1..m /\ (k + 1) - 1 = k /\ k \in Nat /\ k + 1 \in Nat
        BY <1>1
    <2>2. path[k + 1] = IF path[k] \in {"done", "error"} THEN path[k] ELSE Goto(path[k], s[k + 1])
        BY <1>2, <2>1 DEF IsPath
    <2>3. CASE k = 0
        <3>1. path[0] = "init" /\ s[1] = b[1]
            BY <1>1 DEF IsPath, Agree
        <3>2. path[k + 1] = Goto("init", s[1])
            BY <2>2, <2>3, <3>1
        <3>3. s[1] \in NumberStarts /\ f = IF s[1] = Minus THEN 2 ELSE 1
            BY <1>f, <3>1
        <3>4. Goto("init", s[1]) = LabelOf(s, f, i, j, 1)
            BY <1>0, <3>3, LabelFirst
        <3>5. QED BY <2>1, <2>3, <3>2, <3>4
    <2>4. CASE k # 0
        <3>1. path[k] = LabelOf(s, f, i, j, k)
            BY <1>4, <2>1, <2>4
        <3>2. LabelOf(s, f, i, j, k) \in Labels \ {"init"}
            BY <1>0, <1>1, <2>1, LabelKinds
        <3>3. path[k] \notin {"done", "error"}
            BY <3>1, <3>2 DEF Labels
        <3>4. k \in 1..(n - 1)
            BY <1>0, <1>1, <2>1, <2>4
        <3>5. Goto(LabelOf(s, f, i, j, k), s[k + 1]) = LabelOf(s, f, i, j, k + 1)
            BY <1>0, <1>1, <3>4, LabelStep
        <3>6. QED BY <2>1, <2>2, <3>1, <3>3, <3>5
    <2>5. QED BY <2>3, <2>4
<1> HIDE DEF G
<1>5. \A k \in 0..m : k \in G
    BY <1>1, <1>3, <1>4, InductionTo
<1>6. QED BY <1>1, <1>5 DEF G, f

\* While the text is a number so far, scan_number goes on.
LEMMA PathGoesOn ==
    ASSUME NEW b \in Seq(Int), b[1] \in NumberStarts, NEW path, IsPath(b, path),
           NEW m \in 1..Len(b)
    PROVE  LET s == SubSeq(b, 1, m) IN
           /\ IsNumberSoFar(s) => \A k \in 1..m : path[k] \in Labels \ {"init"}
           /\ IsNumber(s) => path[m] \in Accepting
<1> DEFINE s == SubSeq(b, 1, m)
           t == Append(s, Zero)
           f == IntegerAt(b)
<1>f. f = IF b[1] = Minus THEN 2 ELSE 1
    BY DEF IntegerAt
<1>1. m \in Nat /\ m >= 1 /\ f \in {1, 2} /\ m \in 1..m
    BY <1>f, LenProperties
<1>2. /\ s \in Seq(Int) /\ Len(s) = m /\ s # <<>> /\ Head(s) = b[1]
      /\ \A k \in 1..m : s[k] = b[k]
      /\ t \in Seq(Int) /\ Len(t) = m + 1 /\ t # <<>> /\ Head(t) = b[1]
      /\ t[m + 1] = Zero /\ \A k \in 1..m : t[k] = b[k]
    BY Beginning
<1> HIDE DEF s
<1>3. From(s) = f /\ From(t) = f
    BY <1>f, <1>2 DEF From
<1> HIDE DEF f
<1>4. ASSUME IsNumber(s)
      PROVE  path[m] \in Accepting /\ \A k \in 1..m : path[k] \in Labels \ {"init"}
    <2>1. PICK i, j \in 0..m : Whole(s, f, i, j) /\ Exponential(s, j + 1, m)
        BY <1>2, <1>3, <1>4, NumberWhole
    <2>0. i \in Nat /\ j \in Nat /\ m \in Nat /\ m <= m /\ j <= m
        BY <1>1
    <2>5. HasParts(s, f, m, m, i, j)
        BY <2>0, <2>1 DEF HasParts
    <2>2. \A k \in 1..m : path[k] = LabelOf(s, f, i, j, k)
        <3>1. Agree(s, b, m)
            BY <1>2 DEF Agree
        <3>2. HasParts(s, IntegerAt(b), m, m, i, j)
            BY <2>0, <2>5 DEF f
        <3>3. \A k \in 1..m : path[k] = LabelOf(s, IntegerAt(b), i, j, k)
            BY <3>1, <3>2, PathIs
        <3>4. QED BY <3>3 DEF f
    <2>3. /\ \A k \in Nat : LabelOf(s, f, i, j, k) \in Labels \ {"init"}
          /\ LabelOf(s, f, i, j, m) \in Accepting
        BY ONLY <1>1, <2>0, <2>1, LabelKinds
    <2>4. QED BY <1>1, <2>2, <2>3
<1> HIDE DEF t
<1>5. ASSUME IsNumber(t)
      PROVE  \A k \in 1..m : path[k] \in Labels \ {"init"}
    <2>1. PICK i, j \in 0..(m + 1) : Whole(t, f, i, j) /\ Exponential(t, j + 1, m + 1)
        BY <1>2, <1>3, <1>5, NumberWhole
    <2>0. i \in Nat /\ j \in Nat /\ m + 1 \in Nat /\ m <= m + 1 /\ j <= m + 1
        BY <1>1
    <2>5. HasParts(t, f, m, m + 1, i, j)
        BY <2>0, <2>1 DEF HasParts
    <2>2. \A k \in 1..m : path[k] = LabelOf(t, f, i, j, k)
        <3>1. Agree(t, b, m)
            BY <1>2 DEF Agree
        <3>2. HasParts(t, IntegerAt(b), m, m + 1, i, j)
            BY <2>0, <2>5 DEF f
        <3>3. \A k \in 1..m : path[k] = LabelOf(t, IntegerAt(b), i, j, k)
            BY <3>1, <3>2, PathIs
        <3>4. QED BY <3>3 DEF f
    <2>3. \A k \in Nat : LabelOf(t, f, i, j, k) \in Labels \ {"init"}
        BY ONLY <1>1, <2>0, <2>1, LabelKinds
    <2>4. QED BY <1>1, <2>2, <2>3
<1>6. QED BY <1>4, <1>5 DEF IsNumberSoFar, s, t

\* Only behind a number is scan_number done.
LEMMA GotoEnds ==
    ASSUME NEW label \in Labels \ {"init"}, NEW c
    PROVE  /\ label \in Accepting => Goto(label, c) # "error"
           /\ label \notin Accepting => Goto(label, c) # "done"
           /\ c = EOF => Goto(label, c) \in {"done", "error"}
<1>1. c = EOF => c \notin Digits /\ c \notin ExponentMarks /\ c # Point /\ c # Zero /\ c \notin {\h2B, Minus}
    BY DEF EOF, Digits, Zero, ExponentMarks, Point, Minus
<1>2. CASE label \in {"zero", "any1", "decimal2", "any2"}
    BY <1>1, <1>2 DEF Accepting, Goto, AfterInteger
<1>3. CASE label \in {"minus", "decimal1", "exponent", "sign"}
    BY <1>1, <1>3 DEF Accepting, Goto
<1>4. QED BY <1>2, <1>3 DEF Labels

\* scan_number leaves its loop where the longest number so far ends.
LEMMA PathEnds ==
    ASSUME NEW b \in Seq(Int), b # <<>>, b[1] \in NumberStarts, NEW path, IsPath(b, path)
    PROVE  \E M \in 1..Len(b) :
              /\ M = Max({n \in DOMAIN b : IsNumberSoFar(SubSeq(b, 1, n))})
              /\ \A k \in 1..M : path[k] \in Labels \ {"init"} /\ Shaped(b, IntegerAt(b), k, path[k])
              /\ path[M + 1] \in {"done", "error"}
              /\ path[M + 1] = "done" <=> IsNumber(SubSeq(b, 1, M))
<1> DEFINE f == IntegerAt(b)
<1>f. f = (IF b[1] = Minus THEN 2 ELSE 1) /\ f \in {1, 2}
    BY DEF IntegerAt
<1> HIDE DEF f
<1>1. Len(b) \in Nat /\ DOMAIN b = 1..Len(b) /\ 1 \in 1..Len(b)
    BY LenProperties, EmptySeq
<1>2. \A k \in 1..(Len(b) + 1) :
         /\ path[k] = IF path[k - 1] \in {"done", "error"} THEN path[k - 1]
                      ELSE Goto(path[k - 1], CharAt(b, k))
         /\ k \in 1..Len(b) => CharAt(b, k) = b[k] /\ CharAt(b, k) \in Int
         /\ k = Len(b) + 1 => CharAt(b, k) = EOF
    BY <1>1, ElementOfSeq DEF IsPath, CharAt
<1> DEFINE A == {k \in 0..Len(b) : \A q \in 1..k : path[q] \in Labels \ {"init"}}
           M == Max(A)
<1>3. path[1] = Goto("init", b[1])
    <2>1. path[0] = "init" /\ 1 \in 1..(Len(b) + 1) /\ 1 - 1 = 0
        BY <1>1 DEF IsPath
    <2>2. QED BY <1>1, <1>2, <2>1
<1>4. 1 \in A
    <2>1. path[1] \in Labels \ {"init"}
        BY <1>3, <1>f, ShapedFirst
    <2>2. QED BY <1>1, <2>1
<1>5. M \in A /\ (\A k \in A : k <= M) /\ M \in 1..Len(b)
    <2>1. A \in SUBSET (0..Len(b)) /\ A # {}
        BY <1>4
    <2> HIDE DEF A
    <2>2. M \in A /\ \A k \in A : k <= M
        BY <1>1, <2>1, Greatest
    <2> HIDE DEF M
    <2>3. M \in 0..Len(b) /\ 1 <= M
        BY <1>4, <2>1, <2>2
    <2>4. QED BY <1>1, <2>2, <2>3
<1> HIDE DEF M
<1>6. /\ \A q \in 1..M : path[q] \in Labels \ {"init"}
      /\ \A n \in 1..Len(b) : (\A q \in 1..n : path[q] \in Labels \ {"init"}) => n <= M
    BY <1>5
<1> HIDE DEF A
<1>7. M \in 1..Len(b) /\ M \in Nat /\ M \in 1..M /\ M + 1 \in 1..(Len(b) + 1) /\ M + 1 - 1 = M
    BY <1>1, <1>5
<1>8. path[M] \notin {"done", "error"} /\ path[M] \in Labels \ {"init"}
    BY <1>6, <1>7 DEF Labels
<1>9. path[M + 1] = Goto(path[M], CharAt(b, M + 1))
    BY <1>2, <1>7, <1>8
<1>10. path[M + 1] \in {"done", "error"}
    <2>1. CASE M = Len(b)
        BY <1>2, <1>7, <1>8, <1>9, <2>1, GotoEnds
    <2>2. CASE M # Len(b)
        <3>1. M + 1 \in 1..Len(b) /\ ~(M + 1 <= M)
            BY ONLY <1>7, <2>2, Len(b) \in Nat
        <3>2. ~(path[M + 1] \in Labels \ {"init"})
            <4>1. \A q \in 1..(M + 1) : q \in 1..M \/ q = M + 1
                BY <1>7
            <4>2. QED BY <1>6, <3>1, <4>1
        <3>3. CharAt(b, M + 1) \in Int
            BY <1>2, <1>7, <3>1
        <3>4. QED BY <1>8, <1>9, <3>2, <3>3, GotoFacts
    <2>3. QED BY <2>1, <2>2
<1>11. \A k \in 1..M : Shaped(b, f, k, path[k])
    <2> DEFINE G == {k \in Nat : k >= 1 => Shaped(b, f, k, path[k])}
    <2>1. 0 \in G
        OBVIOUS
    <2>2. ASSUME NEW k \in 0..(M - 1), k \in G PROVE k + 1 \in G
        <3>1. k \in Nat /\ k + 1 \in Nat /\ k + 1 - 1 = k /\ k + 1 \in 1..M /\ k + 1 \in 1..Len(b)
              /\ k + 1 \in 1..(Len(b) + 1)
            BY <1>1, <1>5
        <3>2. CASE k = 0
            <4>1. Shaped(b, f, 1, Goto("init", b[1]))
                BY <1>f, ShapedFirst
            <4>2. QED BY <1>3, <3>1, <3>2, <4>1
        <3>3. CASE k # 0
            <4>1. k >= 1 /\ k \in 1..M
                BY <1>7, <2>2, <3>1, <3>3
            <4>2. path[k] \in Labels \ {"init"} /\ path[k + 1] \in Labels \ {"init"}
                BY <1>6, <3>1, <4>1
            <4>3. path[k] \notin {"done", "error"} /\ path[k + 1] \notin {"done", "error"}
                BY <4>2 DEF Labels
            <4>4. path[k + 1] = Goto(path[k], b[k + 1])
                BY <1>2, <3>1, <4>3
            <4>5. Shaped(b, f, k, path[k])
                BY <2>2, <4>1
            <4>6. Shaped(b, f, k + 1, path[k + 1])
                BY <1>f, <3>1, <4>1, <4>2, <4>3, <4>4, <4>5, ShapedOn
            <4>7. QED BY <3>1, <4>6
        <3>4. QED BY <3>2, <3>3
    <2> HIDE DEF G
    <2>3. \A k \in 0..M : k \in G
        BY <1>7, <2>1, <2>2, InductionTo
    <2>4. QED BY <1>7, <2>3 DEF G
<1>12. /\ IsNumberSoFar(SubSeq(b, 1, M))
       /\ path[M] \in Accepting => IsNumber(SubSeq(b, 1, M))
    BY <1>f, <1>5, <1>7, <1>8, <1>11, ShapedSoFar
<1>13. /\ \A n \in 1..Len(b) : IsNumberSoFar(SubSeq(b, 1, n)) => n <= M
       /\ IsNumber(SubSeq(b, 1, M)) => path[M] \in Accepting
    <2>1. ASSUME NEW n \in 1..Len(b), IsNumberSoFar(SubSeq(b, 1, n)) PROVE n <= M
        <3>1. \A k \in 1..n : path[k] \in Labels \ {"init"}
            BY <2>1, PathGoesOn
        <3>2. QED BY <1>6, <3>1
    <2>2. IsNumber(SubSeq(b, 1, M)) => path[M] \in Accepting
        BY <1>5, PathGoesOn
    <2>3. QED BY <2>1, <2>2
<1>14. M = Max({n \in DOMAIN b : IsNumberSoFar(SubSeq(b, 1, n))})
    <2> DEFINE T == {n \in DOMAIN b : IsNumberSoFar(SubSeq(b, 1, n))}
    <2>1. T \in SUBSET (0..Len(b)) /\ M \in T /\ \A n \in T : n <= M
        BY <1>1, <1>5, <1>12, <1>13
    <2> HIDE DEF T
    <2>2. Max(T) \in T /\ \A x \in T : x <= Max(T)
        BY <1>1, <2>1, Greatest
    <2> DEFINE max == Max(T)
    <2>3. max <= M /\ M <= max /\ max \in 0..Len(b)
        BY <2>1, <2>2
    <2> HIDE DEF max
    <2>5. M = max
        BY ONLY <1>7, <2>3, Len(b) \in Nat
    <2>4. QED BY <2>5 DEF T, max
<1>15. path[M + 1] = "done" <=> IsNumber(SubSeq(b, 1, M))
    BY <1>8, <1>9, <1>10, <1>12, <1>13, GotoEnds
<1>16. \A k \in 1..M : path[k] \in Labels \ {"init"} /\ Shaped(b, IntegerAt(b), k, path[k])
    BY <1>6, <1>11 DEF f
<1>17. QED BY <1>5, <1>10, <1>14, <1>15, <1>16

(* The turns of scan_number on a text that begins with a number.           *)
Buffer(b, n) == [i \in 1..n |-> IF b[i] = Point THEN DecimalPoint ELSE b[i]]
NumberType(b, label) ==
    IF label = "init" THEN "value_unsigned"
    ELSE IF label \in {"minus", "zero", "any1"}
    THEN IF b[1] = Minus THEN "value_integer" ELSE "value_unsigned"
    ELSE "value_float"

At(b, s, n) ==
    /\ Read(b, s.lexer) /\ s.lexer.chars_read = n + 1 /\ Start(b, s.lexer) = 0
    /\ s.lexer.token_buffer = Buffer(b, n)
    /\ s.label \in Labels /\ (s.label = "init" <=> n = 0)
    /\ s.number_type = NumberType(b, s.label)

LEMMA BufferOn ==
    ASSUME NEW b \in Seq(Nat), NEW n \in Nat, n < Len(b), NEW byte,
           byte = IF b[n + 1] = Point THEN DecimalPoint ELSE b[n + 1]
    PROVE  /\ Append(Buffer(b, n), byte) = Buffer(b, n + 1)
           /\ Buffer(b, n + 1) \in Seq(Nat \cup {DecimalPoint})
<1> DEFINE S == Nat \cup {DecimalPoint}
           s == Buffer(b, n)
           t == Buffer(b, n + 1)
           a == Append(s, byte)
<1>1. Len(b) \in Nat /\ \A i \in 1..Len(b) : b[i] \in Nat
    BY LenProperties, ElementOfSeq
<1>2. s = [i \in 1..n |-> s[i]] /\ t = [i \in 1..(n + 1) |-> t[i]]
      /\ (\A i \in 1..n : s[i] = IF b[i] = Point THEN DecimalPoint ELSE b[i])
      /\ (\A i \in 1..(n + 1) : t[i] = IF b[i] = Point THEN DecimalPoint ELSE b[i])
    BY DEF Buffer
<1> HIDE DEF s, t
<1>3. /\ \A i \in 1..n : s[i] = t[i] /\ s[i] \in S
      /\ \A i \in 1..(n + 1) : t[i] \in S
      /\ t[n + 1] = byte
    <2>1. /\ \A i \in 1..n : i \in 1..(n + 1)
          /\ \A i \in 1..(n + 1) : i \in 1..Len(b)
          /\ n + 1 \in 1..(n + 1)
        BY <1>1
    <2>2. \A i \in 1..(n + 1) : t[i] \in S
        BY <1>1, <1>2, <2>1
    <2>3. QED BY <1>2, <2>1, <2>2
<1> HIDE DEF S
<1>4. s \in Seq(S) /\ Len(s) = n /\ t \in Seq(S) /\ Len(t) = n + 1
    <2>1. s \in [1..n -> S]
        BY <1>2, <1>3, Zenon
    <2>2. t \in [1..(n + 1) -> S]
        BY <1>2, <1>3, Zenon
    <2>3. s \in Seq(S) /\ Len(s) = n
        BY <2>1
    <2>4. n + 1 \in Nat
        OBVIOUS
    <2>5. QED BY <2>2, <2>3, <2>4
<1>5. byte \in S
    <2>1. n + 1 \in 1..(n + 1)
        OBVIOUS
    <2>2. QED BY <1>3, <2>1
<1>6. /\ a \in Seq(S) /\ Len(a) = n + 1 /\ a[n + 1] = byte /\ \A i \in 1..n : a[i] = s[i]
    <2>1. /\ a \in Seq(S) /\ Len(a) = Len(s) + 1 /\ a[Len(s) + 1] = byte
          /\ \A i \in 1..Len(s) : a[i] = s[i]
        BY ONLY <1>4, <1>5, AppendProperties
    <2> HIDE DEF a
    <2>2. QED BY <1>4, <2>1
<1> HIDE DEF a
<1>7. \A i \in 1..Len(a) : a[i] = t[i]
    <2>1. SUFFICES ASSUME NEW i \in 1..(n + 1) PROVE a[i] = t[i]
        BY <1>6
    <2>2. i \in 1..n \/ i = n + 1
        OBVIOUS
    <2>3. QED BY <1>3, <1>6, <2>2
<1>8. a = t
    BY ONLY <1>4, <1>6, <1>7, SeqEqual
<1>9. QED BY <1>4, <1>8 DEF a, s, t, S

\* The type goes with the label.
LEMMA TypeGoes ==
    ASSUME NEW b, NEW label \in Labels, NEW c, label = "init" => c = b[1],
           NEW next, next = Goto(label, c), next \notin {"done", "error"}
    PROVE  TypeAt(next, NumberType(b, label)) = NumberType(b, next)
<1>1. CASE label = "init"
    <2>1. next = IF c = Minus THEN "minus" ELSE IF c = Zero THEN "zero" ELSE "any1"
        BY <1>1 DEF Goto
    <2>2. CASE c = Minus
        BY <1>1, <2>1, <2>2 DEF TypeAt, NumberType
    <2>3. CASE c # Minus
        <3>1. next \in {"zero", "any1"}
            BY <2>1, <2>3
        <3>2. QED BY <1>1, <2>3, <3>1 DEF TypeAt, NumberType
    <2>4. QED BY <2>2, <2>3
<1>2. CASE label \in {"minus", "zero", "any1"}
    <2>1. next \in {"zero", "any1", "decimal1", "exponent"}
        BY <1>2 DEF Goto, AfterInteger
    <2>2. QED BY <1>2, <2>1 DEF TypeAt, NumberType
<1>3. CASE label \in {"decimal1", "decimal2", "exponent", "sign", "any2"}
    <2>1. next \in {"decimal2", "exponent", "sign", "any2"}
        BY <1>3 DEF Goto
    <2>2. QED BY <1>3, <2>1 DEF TypeAt, NumberType
<1>4. QED BY <1>1, <1>2, <1>3 DEF Labels

\* A lexer that has given back the byte behind the first n of a text.
HasNumber(b, m, n) ==
    /\ Open(b, m) /\ m.chars_read = n /\ Start(b, m) = 0 /\ m.token_buffer = Buffer(b, n)

\* A lexer that has converted them.
IsConverted(b, l, n, label) ==
    \E m : HasNumber(b, m, n) /\ l = Converted(m, NumberType(b, label))

\* One turn.
LEMMA LabelledAt ==
    ASSUME NEW b \in Seq(Nat), b # <<>>, b[1] \in NumberStarts, NEW n \in Nat, n <= Len(b),
           NEW s, At(b, s, n), NEW t, t = Labelled(s), NEW next, next = Goto(s.label, CharAt(b, n + 1))
    PROVE  /\ next = "error" => t.label = "error" /\ Failed(t.lexer)
           /\ next = "done" => t.label = "done" /\ IsConverted(b, t.lexer, n, s.label)
           /\ next \notin {"done", "error"} => t.label = next /\ n < Len(b) /\ At(b, t, n + 1)
<1> DEFINE l == s.lexer
           c == l.current
<1>1. Len(b) \in Nat /\ b \in Seq(Int) /\ DOMAIN b = 1..Len(b) /\ 1 \in 1..Len(b)
    <2>1. Len(b) \in Nat /\ DOMAIN b = 1..Len(b) /\ Len(b) # 0 /\ \A i \in 1..Len(b) : b[i] \in Nat
        BY LenProperties, EmptySeq, ElementOfSeq
    <2>2. b \in [1..Len(b) -> Int]
        BY <2>1, LenProperties
    <2>3. b \in Seq(Int)
        BY <2>1, <2>2
    <2>4. QED BY <2>1, <2>3
<1>2. /\ Read(b, l) /\ Kept(b, l) /\ Within(b, l) /\ l.chars_read = n + 1 /\ l.taken = n + 1
      /\ c = CharAt(b, n + 1) /\ c \in Int
    <2>1. Read(b, l) /\ Kept(b, l) /\ Within(b, l) /\ l.chars_read = n + 1
        BY DEF At, Read
    <2>2. l.taken = l.chars_read /\ c = CharAt(b, l.taken)
        BY DEF At, Read, Kept
    <2>3. c \in Int
        BY <1>1, <2>1, KeptTypes
    <2>4. QED BY <2>1, <2>2, <2>3
<1>3. next = Goto(s.label, c) /\ s.label \in Labels /\ s.number_type = NumberType(b, s.label)
    BY <1>2 DEF At
<1>4. s.label = "init" => c = b[1] /\ c \in NumberStarts
    BY <1>1, <1>2 DEF At, CharAt
<1>5. /\ next \in (Labels \ {"init"}) \cup {"done", "error"}
      /\ s.label = "init" => next \notin {"done", "error"}
    BY <1>2, <1>3, GotoFacts
<1>6. CASE next = "error"
    <2>1. t = AtLabel(Fails(l), "error", s.number_type)
        BY <1>3, <1>6 DEF Labelled
    <2>2. t.label = "error" /\ t.lexer = Fails(l)
        BY <2>1 DEF AtLabel
    <2>3. Failed(Fails(l))
        BY <1>1, <1>2, FailsGoes
    <2>4. QED BY <1>6, <2>2, <2>3
<1>7. CASE next = "done"
    <2> DEFINE m == unget(l)
    <2>1. t = AtLabel(Converted(m, s.number_type), "done", s.number_type)
        BY <1>3, <1>7 DEF Labelled
    <2>2. t.label = "done" /\ t.lexer = Converted(m, NumberType(b, s.label))
        BY <1>3, <2>1 DEF AtLabel
    <2>3. Open(b, m) /\ m.chars_read = l.chars_read - 1 /\ Start(b, m) = Start(b, l)
          /\ m.token_buffer = l.token_buffer
        BY <1>1, <1>2, UngetOpen
    <2> HIDE DEF m
    <2>4. HasNumber(b, m, n)
        BY <1>2, <2>3 DEF At, HasNumber
    <2>5. QED BY <1>7, <2>2, <2>4 DEF IsConverted
<1>8. CASE next \notin {"done", "error"}
    <2> DEFINE byte == IF c = Point THEN DecimalPoint ELSE c
               a == add(l, byte)
               g == get(a)
    <2>1. t = AtLabel(g, next, TypeAt(next, s.number_type))
        BY <1>3, <1>8 DEF Labelled
    <2>2. t.label = next /\ t.lexer = g /\ t.number_type = TypeAt(next, s.number_type)
        BY <2>1 DEF AtLabel
    <2>3. n < Len(b)
        <3>1. s.label = "init" => n = 0
            BY DEF At
        <3>2. n = Len(b) => c = EOF
            BY <1>1, <1>2 DEF CharAt
        <3>3. s.label # "init" => n # Len(b)
            <4>1. s.label # "init" => s.label \in Labels \ {"init"}
                BY <1>3
            <4>2. QED BY <1>3, <1>8, <3>2, <4>1, GotoEnds
        <3>4. s.label = "init" => n # Len(b)
            BY <1>1, <3>1
        <3>5. n # Len(b) /\ Len(b) \in Nat
            BY <1>1, <3>3, <3>4
        <3> DEFINE all == Len(b)
        <3>6. n # all /\ all \in Nat /\ n <= all
            BY <3>5
        <3> HIDE DEF all
        <3>7. n < all
            BY ONLY <3>6, n \in Nat
        <3>8. QED BY <3>7 DEF all
    <2>4. c = b[n + 1] /\ n + 1 \in 1..Len(b)
        BY <1>1, <1>2, <2>3 DEF CharAt
    <2>5. c \notin Surrogates
        <3>1. s.label = "init" => c \notin Surrogates
            <4>1. \A d \in NumberStarts : d \in Int /\ d < \hD800
                BY DEF NumberStarts, Digits, Zero, Minus
            <4>2. QED BY <1>4, <4>1, NoSurrogate
        <3>2. s.label # "init" => c \notin Surrogates
            BY <1>2, <1>3, <1>8, GotoFacts
        <3>3. QED BY <3>1, <3>2
    <2>6. Open(b, l)
        BY <1>1, <1>2, <2>5, ReadIsOpen
    <2>7. Open(b, a) /\ SameText(l, a) /\ a.token_buffer = Append(l.token_buffer, byte)
        <3>1. Kept(b, l) /\ Ahead(b, l)
            BY <2>6 DEF Open
        <3> HIDE DEF byte, c, l
        <3>2. QED BY ONLY <1>1, <3>1, AddKept
    <2>8. Append(Buffer(b, n), byte) = Buffer(b, n + 1)
        BY <2>3, <2>4, BufferOn
    <2> HIDE DEF a
    <2>9. Read(b, g) /\ g.chars_read = a.chars_read + 1 /\ Start(b, g) = Start(b, a)
          /\ g.token_buffer = a.token_buffer
        BY <1>1, <2>7, GetRead
    <2> HIDE DEF g
    <2>10. Start(b, a) = 0 /\ a.chars_read = n + 1 /\ l.token_buffer = Buffer(b, n)
        BY <1>2, <2>7 DEF SameText, At, Start, ReadOf
    <2>11. TypeAt(next, s.number_type) = NumberType(b, next)
        BY <1>3, <1>4, <1>8, TypeGoes
    <2>12. n + 1 # 0 /\ next \in Labels /\ next # "init"
        BY <1>5, <1>8
    <2>13. At(b, t, n + 1)
        BY <2>2, <2>7, <2>8, <2>9, <2>10, <2>11, <2>12 DEF At
    <2>14. QED BY <1>8, <2>2, <2>3, <2>13
<1>9. QED BY <1>5, <1>6, <1>7, <1>8

\* What scan_number makes of a text that begins with a number, or with what
\* might be one.
LEMMA NumberScanned ==
    ASSUME NEW b \in Seq(Nat), b # <<>>, b[1] \in NumberStarts,
           NEW l, Read(b, l), l.chars_read = 1,
           NEW M, M = Max({n \in DOMAIN b : IsNumberSoFar(SubSeq(b, 1, n))})
    PROVE  /\ M \in 1..Len(b)
           /\ ~IsNumber(SubSeq(b, 1, M)) => Failed(scan_number(l))
           /\ IsNumber(SubSeq(b, 1, M)) =>
                 \E label \in Accepting :
                    Shaped(b, IntegerAt(b), M, label) /\ IsConverted(b, scan_number(l), M, label)
<1>1. /\ Len(b) \in Nat /\ DOMAIN b = 1..Len(b) /\ 1 \in 1..Len(b) /\ b \in Seq(Int)
    <2>1. Len(b) \in Nat /\ DOMAIN b = 1..Len(b) /\ Len(b) # 0 /\ \A i \in 1..Len(b) : b[i] \in Nat
        BY LenProperties, EmptySeq, ElementOfSeq
    <2>2. b \in [1..Len(b) -> Int]
        BY <2>1, LenProperties
    <2>3. b \in Seq(Int)
        BY <2>1, <2>2
    <2>4. QED BY <2>1, <2>3
<1>2. l.ia = b /\ l.taken = 1 /\ l.current = b[1] /\ l.current # EOF /\ IsLexer(l)
    <2>1. l.ia = b /\ l.taken = 1 /\ l.current = CharAt(b, 1) /\ IsLexer(l)
        BY DEF Read, Kept
    <2>2. b[1] # EOF
        BY DEF NumberStarts, Digits, Zero, Minus, EOF
    <2>3. QED BY <1>1, <2>1, <2>2 DEF CharAt
<1>3. Turns(l) \in Nat /\ Turns(l) = Len(b) + 1
    BY <1>1, <1>2 DEF Turns
<1>4. PICK after : /\ scan_number(l) = after[Turns(l)].lexer
                   /\ \A n \in 0..Turns(l) : after[n] = NumberTurn(l, after[n - 1], n)
    BY ONLY <1>3, NumberTurns
<1>5. \A n \in 1..(Len(b) + 1) :
         after[n] = IF after[n - 1].label \in {"done", "error"} THEN after[n - 1]
                    ELSE Labelled(after[n - 1])
    <2>1. \A n \in 1..(Len(b) + 1) : n \in 0..Turns(l) /\ n # 0
        BY <1>1, <1>3
    <2>2. QED BY <1>4, <2>1 DEF NumberTurn
<1>6. At(b, after[0], 0) /\ after[0].label = "init"
    <2> DEFINE g == reset(l)
    <2>1. after[0] = AtLabel(g, "init", "value_unsigned")
        BY <1>3, <1>4 DEF NumberTurn
    <2>2. after[0].label = "init" /\ after[0].lexer = g /\ after[0].number_type = "value_unsigned"
        BY <2>1 DEF AtLabel
    <2>3. Read(b, g) /\ g.chars_read = 1 /\ g.token_buffer = <<>>
        BY <1>1, <1>2, ResetRead
    <2>4. g.token_string = <<b[1]>>
        BY <1>2, ResetFacts
    <2> HIDE DEF g
    <2>5. Start(b, g) = 0
        <3>1. Len(<<b[1]>>) = 1
            OBVIOUS
        <3>2. QED BY <1>1, <2>3, <2>4, <3>1 DEF Start, ReadOf
    <2>6. Buffer(b, 0) = <<>>
        BY DEF Buffer
    <2>7. NumberType(b, "init") = "value_unsigned"
        BY DEF NumberType
    <2>8. QED BY <2>2, <2>3, <2>5, <2>6, <2>7 DEF At, Labels
<1> DEFINE Was(n) == \/ after[n].label \in {"done", "error"}
                     \/ n <= Len(b) /\ At(b, after[n], n)
           G == {n \in Nat : Was(n)}
<1>7. 0 \in G
    BY <1>1, <1>6
<1>8. ASSUME NEW n \in 0..Len(b), Was(n)
      PROVE  /\ Was(n + 1)
             /\ after[n].label \in {"done", "error"} => after[n + 1] = after[n]
             /\ after[n].label \notin {"done", "error"} =>
                   /\ At(b, after[n], n) /\ after[n + 1] = Labelled(after[n])
                   /\ after[n + 1].label = Goto(after[n].label, CharAt(b, n + 1))
    <2>1. n \in Nat /\ n + 1 \in 1..(Len(b) + 1) /\ n + 1 - 1 = n /\ n <= Len(b)
        BY <1>1
    <2>2. after[n + 1] = IF after[n].label \in {"done", "error"} THEN after[n] ELSE Labelled(after[n])
        BY <1>5, <2>1
    <2>3. CASE after[n].label \in {"done", "error"}
        BY <2>2, <2>3
    <2>4. CASE after[n].label \notin {"done", "error"}
        <3> DEFINE next == Goto(after[n].label, CharAt(b, n + 1))
        <3>1. At(b, after[n], n) /\ after[n + 1] = Labelled(after[n])
            BY <1>8, <2>2, <2>4
        <3>2. /\ next = "error" => after[n + 1].label = "error"
              /\ next = "done" => after[n + 1].label = "done"
              /\ next \notin {"done", "error"} => /\ after[n + 1].label = next
                                                  /\ n < Len(b) /\ At(b, after[n + 1], n + 1)
            BY <2>1, <3>1, LabelledAt
        <3> HIDE DEF next
        <3>3. after[n + 1].label = next
            BY <3>2
        <3>4. Was(n + 1)
            BY <1>1, <2>1, <3>2, <3>3
        <3>5. QED BY <2>4, <3>1, <3>3, <3>4 DEF next
    <2>5. QED BY <2>3, <2>4
<1>9. \A n \in 0..(Len(b) + 1) : Was(n)
    <2>1. \A n \in 0..((Len(b) + 1) - 1) : n \in G => n + 1 \in G
        <3>1. SUFFICES ASSUME NEW n \in 0..((Len(b) + 1) - 1), n \in G PROVE n + 1 \in G
            OBVIOUS
        <3>2. n \in 0..Len(b) /\ n + 1 \in Nat
            BY <1>1
        <3>3. QED BY <1>8, <3>1, <3>2
    <2> HIDE DEF G
    <2>2. Len(b) + 1 \in Nat
        BY <1>1
    <2>3. \A n \in 0..(Len(b) + 1) : n \in G
        BY ONLY <1>7, <2>1, <2>2, InductionTo
    <2>4. QED BY <2>3 DEF G
<1> HIDE DEF Was, G
<1>10. \A n \in 0..Len(b) :
             /\ after[n].label \in {"done", "error"} => after[n + 1] = after[n]
             /\ after[n].label \notin {"done", "error"} =>
                   /\ At(b, after[n], n) /\ after[n + 1] = Labelled(after[n])
                   /\ after[n + 1].label = Goto(after[n].label, CharAt(b, n + 1))
    <2>1. \A n \in 0..Len(b) : n \in 0..(Len(b) + 1)
        BY <1>1
    <2>2. QED BY <1>8, <1>9, <2>1
<1> DEFINE path == [n \in 0..(Len(b) + 1) |-> after[n].label]
<1>11. \A n \in 0..(Len(b) + 1) : path[n] = after[n].label
    OBVIOUS
<1> HIDE DEF path
<1>12. IsPath(b, path)
    <2>1. path[0] = "init"
        BY <1>1, <1>6, <1>11
    <2>2. ASSUME NEW k \in 1..(Len(b) + 1)
          PROVE  path[k] = IF path[k - 1] \in {"done", "error"} THEN path[k - 1]
                           ELSE Goto(path[k - 1], CharAt(b, k))
        <3>1. k - 1 \in 0..Len(b) /\ k - 1 \in 0..(Len(b) + 1) /\ k \in 0..(Len(b) + 1)
              /\ (k - 1) + 1 = k
            BY <1>1
        <3>2. path[k] = after[k].label /\ path[k - 1] = after[k - 1].label
            BY <1>11, <3>1
        <3>3. /\ after[k - 1].label \in {"done", "error"} => after[k] = after[k - 1]
              /\ after[k - 1].label \notin {"done", "error"} =>
                    after[k].label = Goto(after[k - 1].label, CharAt(b, k))
            BY <1>10, <3>1
        <3>4. QED BY <3>2, <3>3
    <2>3. QED BY <2>1, <2>2 DEF IsPath
<1>13. /\ M \in 1..Len(b)
       /\ \A k \in 1..M : path[k] \in Labels \ {"init"} /\ Shaped(b, IntegerAt(b), k, path[k])
       /\ path[M + 1] \in {"done", "error"}
       /\ path[M + 1] = "done" <=> IsNumber(SubSeq(b, 1, M))
    BY <1>1, <1>12, PathEnds
<1>14. M \in Nat /\ M \in 1..M /\ M \in 0..Len(b) /\ M + 1 \in 0..(Len(b) + 1) /\ M \in 0..(Len(b) + 1)
    BY <1>1, <1>13
<1>15. path[M] = after[M].label /\ path[M + 1] = after[M + 1].label
    BY <1>11, <1>14
<1>16. /\ path[M] \in Labels \ {"init"} /\ Shaped(b, IntegerAt(b), M, path[M])
       /\ path[M] \notin {"done", "error"}
    <2>1. path[M] \in Labels \ {"init"} /\ Shaped(b, IntegerAt(b), M, path[M])
        BY <1>13, <1>14
    <2>2. QED BY <2>1 DEF Labels
<1>17. /\ At(b, after[M], M) /\ after[M + 1] = Labelled(after[M])
       /\ after[M + 1].label = Goto(after[M].label, CharAt(b, M + 1))
    BY <1>10, <1>14, <1>15, <1>16
<1>18. \A n \in 0..(Len(b) + 1) : n >= M + 1 => after[n] = after[M + 1]
    <2> DEFINE H == {n \in Nat : n >= M + 1 => after[n] = after[M + 1]}
    <2>1. 0 \in H
        BY <1>14
    <2>2. ASSUME NEW n \in 0..((Len(b) + 1) - 1), n \in H PROVE n + 1 \in H
        <3>1. n \in 0..Len(b) /\ n + 1 \in Nat /\ n \in Nat
            BY <1>1
        <3>2. CASE n + 1 > M + 1
            <4>1. n >= M + 1
                BY <1>14, <3>1, <3>2
            <4>2. after[n] = after[M + 1]
                BY <2>2, <4>1
            <4>3. after[n + 1] = after[n]
                BY <1>10, <1>13, <1>15, <3>1, <4>2
            <4>4. QED BY <3>1, <4>2, <4>3
        <3>3. CASE n + 1 = M + 1
            BY <3>1, <3>3
        <3>4. CASE n + 1 < M + 1
            BY <1>14, <3>1, <3>4
        <3>5. QED BY <1>14, <3>1, <3>2, <3>3, <3>4
    <2> HIDE DEF H
    <2>3. Len(b) + 1 \in Nat
        BY <1>1
    <2>4. \A n \in 0..(Len(b) + 1) : n \in H
        BY ONLY <2>1, <2>2, <2>3, InductionTo
    <2>5. QED BY <2>4 DEF H
<1>19. scan_number(l) = after[M + 1].lexer
    <2>1. Turns(l) \in 0..(Len(b) + 1) /\ Turns(l) >= M + 1
        BY <1>1, <1>3, <1>14
    <2>2. QED BY <1>4, <1>18, <2>1
<1> DEFINE next == Goto(after[M].label, CharAt(b, M + 1))
<1>20. /\ next = "error" => Failed(after[M + 1].lexer)
       /\ next = "done" => IsConverted(b, after[M + 1].lexer, M, after[M].label)
    <2>1. M <= Len(b)
        BY <1>1, <1>14
    <2> DEFINE s == after[M]
               t == after[M + 1]
    <2>2. At(b, s, M) /\ t = Labelled(s) /\ next = Goto(s.label, CharAt(b, M + 1)) /\ M \in Nat
        BY <1>14, <1>17
    <2> HIDE DEF s, t, next
    <2>3. next = "error" => Failed(t.lexer)
        BY ONLY <2>1, <2>2, LabelledAt, b \in Seq(Nat), b # <<>>, b[1] \in NumberStarts
    <2>4. next = "done" => IsConverted(b, t.lexer, M, s.label)
        BY <2>1, <2>2, LabelledAt
    <2>5. QED BY <2>3, <2>4 DEF s, t
<1>21. next = path[M + 1]
    BY <1>15, <1>17
<1> HIDE DEF next
<1>22. CASE next = "error"
    <2>1. ~IsNumber(SubSeq(b, 1, M))
        BY <1>13, <1>21, <1>22
    <2>2. QED BY <1>13, <1>19, <1>20, <1>22, <2>1
<1>23. CASE next = "done"
    <2>1. IsNumber(SubSeq(b, 1, M))
        BY <1>13, <1>21, <1>23
    <2>2. IsConverted(b, after[M + 1].lexer, M, after[M].label)
        BY <1>20, <1>23
    <2>3. after[M].label \in Accepting
        BY <1>15, <1>16, <1>23, GotoEnds DEF next
    <2>4. QED BY <1>13, <1>15, <1>16, <1>19, <2>1, <2>2, <2>3
<1>24. QED BY <1>13, <1>21, <1>22, <1>23

\* A number is written as an integer exactly if its type is none of a float.
LEMMA IntegerTexts ==
    ASSUME NEW b \in Seq(Nat), b # <<>>, b[1] \in NumberStarts, NEW M \in 1..Len(b),
           NEW label \in Accepting, Shaped(b, IntegerAt(b), M, label),
           NEW number, number = SubSeq(b, 1, M)
    PROVE  /\ label \in {"zero", "any1"} => /\ HasIntegerText(number)
                                            /\ \A k \in 1..M : b[k] # Point
           /\ label \notin {"zero", "any1"} => ~HasIntegerText(number)
<1> DEFINE f == IntegerAt(b)
<1>f. f = (IF b[1] = Minus THEN 2 ELSE 1) /\ f \in {1, 2}
    BY DEF IntegerAt
<1> HIDE DEF f
<1>1. Len(b) \in Nat /\ M \in Nat /\ M >= 1 /\ 1 \in 1..(Len(b) + 1) /\ M \in 0..Len(b) /\ b \in Seq(Int)
    <2>1. Len(b) \in Nat /\ \A i \in 1..Len(b) : b[i] \in Nat
        BY LenProperties, ElementOfSeq
    <2>2. b \in [1..Len(b) -> Int]
        BY <2>1, LenProperties
    <2>3. b \in Seq(Int)
        BY <2>1, <2>2
    <2>4. QED BY <2>1, <2>3
<1>2. /\ AllDigits(number) <=> Run(b, 1, M)
      /\ Head(number) = b[1] /\ Tail(number) = SubSeq(b, 2, M)
    <2>1. AllDigits(number) <=> Run(b, 1, M)
        BY <1>1, PartPlaces, Zenon
    <2>2. 1 <= M => Head(number) = b[1] /\ Tail(number) = SubSeq(b, 1 + 1, M)
        BY <1>1, PartPlaces
    <2>3. QED BY <1>1, <2>1, <2>2
<1>3. AllDigits(Tail(number)) <=> Run(b, 2, M)
    <2> DEFINE t == Tail(number)
    <2>1. 2 \in 1..(Len(b) + 1) /\ t = SubSeq(b, 2, M)
        BY <1>1, <1>2
    <2> HIDE DEF t
    <2>2. AllDigits(t) <=> Run(b, 2, M)
        BY <1>1, <2>1, PartPlaces, Zenon
    <2>3. QED BY <2>2 DEF t
<1>4. HasIntegerText(number) <=> Run(b, 1, M) \/ (b[1] = Minus /\ Run(b, 2, M))
    BY <1>2, <1>3, Zenon DEF HasIntegerText
<1>5. CASE label \in {"zero", "any1"}
    <2>1. Run(b, f, M) /\ f <= M
        <3>1. CASE label = "zero"
            <4>1. M = f /\ b[f] = Zero
                BY <3>1 DEF Shaped, f
            <4>2. QED BY <1>f, <4>1, NumberBytes, RunOfOne
        <3>2. CASE label = "any1"
            BY <3>2 DEF Shaped, Integral, f
        <3>3. QED BY <1>5, <3>1, <3>2
    <2>2. HasIntegerText(number)
        BY <1>f, <1>4, <2>1
    <2>3. ASSUME NEW k \in 1..M PROVE b[k] # Point
        <3>1. CASE k >= f
            <4>1. k \in f..M
                BY <1>f, <1>1, <3>1
            <4>2. b[k] \in Digits
                BY <2>1, <4>1 DEF Run
            <4>3. QED BY <4>2, NumberBytes
        <3>2. CASE ~(k >= f)
            <4>1. k = 1 /\ f = 2
                BY <1>f, <1>1, <3>2
            <4>2. b[k] = Minus
                BY <1>f, <4>1
            <4>3. QED BY <4>2 DEF Minus, Point
        <3>3. QED BY <3>1, <3>2
    <2>4. QED BY <1>5, <2>2, <2>3
<1>6. CASE label \notin {"zero", "any1"}
    <2>1. \E k \in 2..M : b[k] \notin Digits
        <3>1. CASE label = "decimal2"
            <4>1. PICK i \in Nat : f <= i /\ i + 2 <= M /\ b[i + 1] = Point
                BY <3>1 DEF Shaped, f
            <4>2. i + 1 \in 2..M
                BY <1>f, <1>1, <4>1
            <4>3. QED BY <4>1, <4>2, NumberBytes
        <3>2. CASE label = "any2"
            <4>1. PICK i, j \in Nat : Whole(b, f, i, j) /\ j < M /\ Exponential(b, j + 1, M)
                BY <3>2 DEF Shaped, f
            <4>2. f <= i /\ i <= j /\ j + 1 <= M
                BY <1>1, <4>1 DEF Whole
            <4>3. j + 1 \in 2..M
                BY <1>f, <1>1, <4>2
            <4>4. b[j + 1] \in ExponentMarks
                BY <4>1, <4>2 DEF Exponential
            <4>5. QED BY <4>3, <4>4, NumberBytes
        <3>3. QED BY <1>6, <3>1, <3>2 DEF Accepting
    <2>2. PICK k \in 2..M : b[k] \notin Digits
        BY <2>1
    <2>3. k \in 1..M
        BY <1>1
    <2>4. ~Run(b, 1, M) /\ ~Run(b, 2, M)
        BY <2>2, <2>3 DEF Run
    <2>5. QED BY <1>4, <1>6, <2>4
<1>7. QED BY <1>5, <1>6

\* What it is converted to.
LEMMA ConvertedIs ==
    ASSUME NEW b \in Seq(Nat), b # <<>>, b[1] \in NumberStarts, NEW M \in 1..Len(b),
           NEW label \in Accepting, Shaped(b, IntegerAt(b), M, label),
           NEW number, number = SubSeq(b, 1, M), IsNumber(number),
           NEW r, IsConverted(b, r, M, label)
    PROVE  NumberTaken(r, number)
<1> DEFINE type == NumberType(b, label)
<1>1. Len(b) \in Nat /\ M \in Nat /\ M >= 1 /\ M <= Len(b) /\ b \in Seq(Int)
    <2>1. Len(b) \in Nat /\ \A i \in 1..Len(b) : b[i] \in Nat
        BY LenProperties, ElementOfSeq
    <2>2. b \in [1..Len(b) -> Int]
        BY <2>1, LenProperties
    <2>3. b \in Seq(Int)
        BY <2>1, <2>2
    <2>4. QED BY <2>1, <2>3
<1>2. PICK m : HasNumber(b, m, M) /\ r = Converted(m, type)
    BY DEF IsConverted
<1>3. PICK token, value : r = Returns(m, token, value)
    BY <1>2, Zenon DEF Converted
<1>4. /\ number \in Seq(Int) /\ Len(number) = M /\ DOMAIN number = 1..M /\ Head(number) = b[1]
      /\ \A k \in 1..M : number[k] = b[k]
    BY <1>1, Beginning, LenProperties
<1>5. /\ Kept(b, m) /\ m.chars_read = M /\ Start(b, m) = 0 /\ m.token_buffer = Buffer(b, M)
      /\ Quotes(b, m)
    BY <1>2 DEF HasNumber, Open, Kept
<1>6. /\ r.chars_read = M /\ r.token_string = m.token_string /\ r.token_buffer = Buffer(b, M)
    BY <1>1, <1>3, <1>5, ReturnsKept DEF SameText
<1>7. m.token_string = number
    <2> DEFINE t == m.token_string
    <2>1. t \in Seq(Int) /\ Len(t) \in Nat /\ DOMAIN t = 1..Len(t)
        BY <1>5, LenProperties DEF Quotes
    <2>2. ReadOf(b, m) = M /\ ReadOf(b, m) - Len(t) = 0
        BY <1>1, <1>5 DEF ReadOf, Start
    <2>3. \A i \in DOMAIN t : t[i] = b[0 + i]
        BY <1>5 DEF Quotes
    <2> HIDE DEF t
    <2> DEFINE many == Len(t)
    <2>8. M - many = 0 /\ many \in Nat
        BY <2>1, <2>2
    <2> HIDE DEF many
    <2>9. many = M
        BY ONLY <1>1, <2>8
    <2>4. Len(t) = M
        BY <2>9 DEF many
    <2>5. \A i \in 1..Len(t) : t[i] = number[i]
        <3>1. TAKE i \in 1..Len(t)
        <3>2. 0 + i = i /\ i \in 1..M /\ i \in DOMAIN t
            BY <2>1, <2>4
        <3>3. QED BY <1>4, <2>3, <3>2
    <2>6. t = number
        BY ONLY <1>4, <2>1, <2>4, <2>5, SeqEqual
    <2>7. QED BY <2>6 DEF t
<1>8. Buffer(b, M) = [i \in DOMAIN number |-> IF number[i] = Point THEN DecimalPoint ELSE number[i]]
    BY <1>4 DEF Buffer
<1>9. /\ label \in {"zero", "any1"} => HasIntegerText(number) /\ Buffer(b, M) = number
      /\ label \notin {"zero", "any1"} => ~HasIntegerText(number)
    <2>1. /\ label \in {"zero", "any1"} => HasIntegerText(number) /\ \A k \in 1..M : b[k] # Point
          /\ label \notin {"zero", "any1"} => ~HasIntegerText(number)
        BY IntegerTexts
    <2>2. (\A k \in 1..M : b[k] # Point) => Buffer(b, M) = number
        <3>1. SUFFICES ASSUME \A k \in 1..M : b[k] # Point PROVE Buffer(b, M) = number
            OBVIOUS
        <3>2. number = [i \in 1..M |-> number[i]]
            BY <1>4
        <3>3. Buffer(b, M) = [i \in 1..M |-> number[i]]
            BY <1>4, <3>1 DEF Buffer
        <3>4. QED BY <3>2, <3>3
    <2>3. QED BY <2>1, <2>2
<1> DEFINE n == Magnitude(number)
           k == Magnitude(Tail(number))
           half == UnsignedMax \div 2 + 1
<1>10. CASE label \in {"zero", "any1"} /\ b[1] = Minus
    <2>1. type = "value_integer"
        BY <1>10 DEF NumberType
    <2>2. r = IF k <= half THEN Returns(m, "value_integer", -k) ELSE Returns(m, "value_float", number)
        BY <1>2, <1>5, <1>9, <1>10, <2>1, Zenon DEF Converted
    <2> HIDE DEF k, half
    <2>3. /\ k <= half => r.token = "value_integer" /\ r.value = -k
          /\ ~(k <= half) => r.token = "value_float"
        BY <1>1, <1>5, <2>2, ReturnsKept
    <2>4. HasIntegerText(number) /\ Head(number) = Minus
        BY <1>4, <1>9, <1>10
    <2>5. QED BY <1>4, <1>6, <1>7, <1>8, <2>3, <2>4, Zenon DEF NumberTaken, k, half
<1>11. CASE label \in {"zero", "any1"} /\ b[1] # Minus
    <2>1. type = "value_unsigned"
        <3>1. label # "init"
            BY DEF Accepting
        <3>2. QED BY <1>11, <3>1 DEF NumberType
    <2>2. r = IF n <= UnsignedMax THEN Returns(m, "value_unsigned", n) ELSE Returns(m, "value_float", number)
        BY <1>2, <1>5, <1>9, <1>11, <2>1, Zenon DEF Converted
    <2> HIDE DEF n
    <2>3. /\ n <= UnsignedMax => r.token = "value_unsigned" /\ r.value = n
          /\ ~(n <= UnsignedMax) => r.token = "value_float"
        BY <1>1, <1>5, <2>2, ReturnsKept
    <2>4. HasIntegerText(number) /\ Head(number) # Minus
        BY <1>4, <1>9, <1>11
    <2>5. QED BY <1>4, <1>6, <1>7, <1>8, <2>3, <2>4, Zenon DEF NumberTaken, n
<1>12. CASE label \notin {"zero", "any1"}
    <2>1. type = "value_float"
        <3>1. label \notin {"init", "minus"}
            BY DEF Accepting
        <3>2. QED BY <1>12, <3>1 DEF NumberType
    <2>2. r = Returns(m, "value_float", m.token_buffer)
        BY <1>2, <2>1, Zenon DEF Converted
    <2>3. r.token = "value_float"
        BY <1>1, <1>5, <2>2, ReturnsKept
    <2>4. ~HasIntegerText(number)
        BY <1>9, <1>12
    <2>5. QED BY <1>4, <1>6, <1>7, <1>8, <2>3, <2>4, Zenon DEF NumberTaken
<1>13. QED BY <1>10, <1>11, <1>12

\* A text that begins with neither a mark nor whitespace begins with a token.
LEMMA ScansFirst ==
    ASSUME NEW b \in Seq(Nat), b # <<>>, b[1] # \hEF, b[1] \notin Whitespace
    PROVE  \E l : /\ Read(b, l) /\ l.chars_read = 1 /\ l.current = b[1]
                  /\ l.token = "uninitialized" /\ scan(Lexer(b)) = scan_token(l)
<1> DEFINE begun == Begun(Lexer(b))
           first == get(begun)
           start == unget(first)
           l == get(start)
<1>1. /\ Len(b) \in Nat /\ DOMAIN b = 1..Len(b) /\ 1 \in 1..Len(b) /\ b \in Seq(Int)
    <2>1. Len(b) \in Nat /\ DOMAIN b = 1..Len(b) /\ Len(b) # 0 /\ \A i \in 1..Len(b) : b[i] \in Nat
        BY LenProperties, EmptySeq, ElementOfSeq
    <2>2. b \in [1..Len(b) -> Int]
        BY <2>1, LenProperties
    <2>3. b \in Seq(Int)
        BY <2>1, <2>2
    <2>4. QED BY <2>1, <2>3
<1>2. Open(b, begun) /\ begun.chars_read = 0 /\ begun.token = "uninitialized"
      /\ Lexer(b).chars_read = 0
    <2>1. Open(b, Lexer(b)) /\ Lexer(b).chars_read = 0
        BY <1>1, LexerOpen
    <2>2. QED BY <1>1, <2>1, ReturnsKept DEF Open, Begun, SameText
<1> HIDE DEF begun
<1>3. /\ Read(b, first) /\ first.chars_read = 1 /\ first.token = "uninitialized"
    BY <1>1, <1>2, GetRead
<1>4. first.current = b[1]
    <2>1. first.taken = 1 /\ first.current = CharAt(b, first.taken)
        BY <1>3 DEF Read, Kept
    <2>2. QED BY <1>1, <2>1 DEF CharAt
<1> HIDE DEF first
<1>5. Open(b, start) /\ start.chars_read = 0 /\ start.token = "uninitialized"
    BY <1>1, <1>3, UngetOpen
<1>6. b[1] # \hEF /\ b[1] \notin Whitespace
    OBVIOUS
<1>7. scan(Lexer(b)) = scan_token(skip_whitespace(start))
    <2>1. skip_bom(begun) = start
        BY <1>4, <1>6 DEF skip_bom, first, start
    <2>2. ~Done(start)
        BY <1>5 DEF Done
    <2>3. QED BY <1>2, <2>1, <2>2 DEF scan, begun
<1> HIDE DEF start
<1>8. Read(b, l) /\ l.chars_read = 1 /\ l.token = "uninitialized"
    BY <1>1, <1>5, GetRead
<1>9. l.current = b[1]
    <2>1. l.taken = 1 /\ l.current = CharAt(b, l.taken)
        BY <1>8 DEF Read, Kept
    <2>2. QED BY <1>1, <2>1 DEF CharAt
<1>10. skip_whitespace(start) = l
    <2>1. Turns(start) \in Nat
        BY <1>1, <1>5 DEF Turns, Open, Kept
    <2>2. PICK after : /\ skip_whitespace(start) = after[Turns(start)]
                       /\ \A n \in 0..Turns(start) : after[n] = WhitespaceTurn(start, after[n - 1], n)
        BY ONLY <2>1, WhitespaceTurns
    <2> DEFINE G == {n \in Nat : after[n] = l}
    <2>3. 0 \in G
        BY <2>1, <2>2 DEF WhitespaceTurn
    <2>4. ASSUME NEW n \in 0..(Turns(start) - 1), n \in G PROVE n + 1 \in G
        <3>1. n + 1 \in 0..Turns(start) /\ n + 1 - 1 = n /\ n + 1 # 0 /\ n + 1 \in Nat
            BY <2>1
        <3>2. after[n + 1] = IF after[n].current \in Whitespace THEN get(after[n]) ELSE after[n]
            BY <2>2, <3>1 DEF WhitespaceTurn
        <3>3. QED BY <1>6, <1>9, <2>4, <3>1, <3>2
    <2> HIDE DEF G
    <2>5. \A n \in 0..Turns(start) : n \in G
        BY ONLY <2>1, <2>3, <2>4, InductionTo
    <2>6. Turns(start) \in G
        BY <2>1, <2>5
    <2>7. QED BY <2>2, <2>6 DEF G
<1> HIDE DEF l
<1>11. QED BY <1>7, <1>8, <1>9, <1>10

\* The scanner reads the number from its first byte.
LEMMA ScansNumber ==
    ASSUME NEW b \in Seq(Nat), b # <<>>, b[1] \in NumberStarts
    PROVE  \E l : /\ Read(b, l) /\ l.chars_read = 1
                  /\ scan(Lexer(b)) = scan_number(l)
<1>1. b[1] # \hEF /\ b[1] \notin Whitespace /\ b[1] \notin DOMAIN Structural
      /\ b[1] \notin DOMAIN Literals /\ b[1] # Quote /\ b[1] \notin {0, EOF}
    <2>1. \A c \in NumberStarts : c \in Int /\ c >= \h2D /\ c <= \h39 /\ (c = \h2D \/ c >= \h30)
        BY DEF NumberStarts, Digits, Zero, Minus
    <2>2. QED BY <2>1 DEF Whitespace, Structural, Literals, Quote, EOF
<1>2. PICK l : /\ Read(b, l) /\ l.chars_read = 1 /\ l.current = b[1]
               /\ scan(Lexer(b)) = scan_token(l)
    BY <1>1, ScansFirst
<1>3. scan_token(l) = scan_number(l)
    <2>1. l.current = Minus \/ l.current \in Digits
        BY <1>2 DEF NumberStarts
    <2>2. QED BY <1>1, <1>2, <2>1, SMTT(60) DEF scan_token
<1>4. QED BY <1>2, <1>3

LEMMA TypedNumber == Typed => NumberIsLongest
<1>1. SUFFICES ASSUME Typed, Starts(Digits \cup {Minus})
               PROVE  LET longest == Max({n \in DOMAIN text : IsNumberSoFar(SubSeq(text, 1, n))})
                      IN  NumberTaken(scan(Lexer(text)), SubSeq(text, 1, longest))
    BY DEF NumberIsLongest
<1> DEFINE M == Max({n \in DOMAIN text : IsNumberSoFar(SubSeq(text, 1, n))})
           number == SubSeq(text, 1, M)
           r == scan(Lexer(text))
<1>2. text \in Seq(Nat)
    <2>1. Units(1) \subseteq Nat
        BY SMT DEF Units, LargestUnit
    <2>2. text \in Seq(Units(1))
        BY <1>1 DEF Typed, Starts, Narrow
    <2>3. QED BY <2>1, <2>2, SeqMonotonic
<1>3. text # <<>> /\ text[1] \in NumberStarts
    <2>1. text # <<>> /\ Head(text) \in NumberStarts
        BY <1>1 DEF Starts, NumberStarts
    <2>2. QED BY <1>2, <2>1
<1>4. PICK l : Read(text, l) /\ l.chars_read = 1 /\ r = scan_number(l)
    BY <1>2, <1>3, ScansNumber
<1> HIDE DEF r
<1>5. /\ M \in 1..Len(text)
      /\ ~IsNumber(number) => Failed(scan_number(l))
      /\ IsNumber(number) => \E label \in Accepting : /\ Shaped(text, IntegerAt(text), M, label)
                                                      /\ IsConverted(text, scan_number(l), M, label)
    <2> HIDE DEF M
    <2>1. M = Max({n \in DOMAIN text : IsNumberSoFar(SubSeq(text, 1, n))})
        BY DEF M
    <2>2. QED BY <1>2, <1>3, <1>4, <2>1, NumberScanned
<1> HIDE DEF M
<1>6. NumberTaken(r, number)
    <2>1. CASE ~IsNumber(number)
        BY <1>4, <1>5, <2>1 DEF NumberTaken
    <2>2. CASE IsNumber(number)
        <3>1. PICK label \in Accepting : /\ Shaped(text, IntegerAt(text), M, label)
                                         /\ IsConverted(text, r, M, label)
            BY <1>4, <1>5, <2>2
        <3>2. number = SubSeq(text, 1, M)
            OBVIOUS
        <3> HIDE DEF number
        <3>3. QED BY <1>2, <1>3, <1>5, <2>2, <3>1, <3>2, ConvertedIs
    <2>3. QED BY <2>1, <2>2
<1>7. QED BY <1>6 DEF number, M, r

(* Of every text that begins with a number the scanner takes the longest   *)
(* part that is one or might become one, and all tokens together are the   *)
(* text (scan_number, get, unget and reset, json.hpp 2970-3350).           *)
THEOREM TokensAreText == TextSpec => []TokensOfText
<1>1. Typed => TokensOfText
    BY TypedNumber, TypedCover DEF TokensOfText
<1>2. QED BY <1>1, TextTyped, PTL

-----------------------------------------------------------------------------
(* The code points of a string.                                            *)

\* Code points v, and what those after them are.
Join(v, w) == IF w = Bad THEN Bad ELSE v \o w

(* A code point more at either side.                                       *)
LEMMA JoinBefore ==
    ASSUME NEW v \in Seq(Int), NEW n \in Nat, NEW w \in Seq(Int)
    PROVE  Join(v, Before(n, w)) = Join(v \o <<n>>, w)
<1>1. CASE w = Bad
    BY <1>1 DEF Join, Before
<1>2. CASE w # Bad
    <2>1. <<n>> \in Seq(Int) /\ <<n>> \o w \in Seq(Int)
        BY ConcatProperties
    <2>2. (<<n>> \o w)[1] = n
        <3>1. Len(<<n>>) = 1 /\ <<n>>[1] = n /\ 1 \in DOMAIN <<n>>
            OBVIOUS
        <3>2. QED BY <2>1, <3>1, ConcatPlaces
    <2>3. <<n>> \o w # Bad
        <3>1. Bad[1] = -1 /\ n # -1
            BY DEF Bad
        <3>2. QED BY <2>2, <3>1
    <2>4. v \o (<<n>> \o w) = (v \o <<n>>) \o w
        BY <2>1, ConcatAssociative
    <2>5. QED BY <1>2, <2>3, <2>4 DEF Join, Before
<1>3. QED BY <1>1, <1>2

(* A code point before others makes a sequence of them.                    *)
LEMMA BeforeIsSeq ==
    ASSUME NEW n \in Nat, NEW w \in Seq(Int)
    PROVE  Before(n, w) \in Seq(Int)
<1>1. Bad \in Seq(Int) /\ <<n>> \in Seq(Int)
    BY DEF Bad
<1>2. <<n>> \o w \in Seq(Int)
    BY <1>1, ConcatProperties
<1>3. QED BY <1>1, <1>2 DEF Before

(* Scalar values are numbers.                                              *)
LEMMA ScalarsAreNumbers ==
    ASSUME NEW s \in Seq(Int)
    PROVE  Scalars(s) \in Seq(Int)
<1>1. Len(s) \in Nat
    BY LenProperties
<1>2. PICK f : /\ Scalars(s) = f[1]
               /\ \A i \in 1..(Len(s) + 1) : f[i] = ScalarsTurn(s, f, i)
    BY ONLY ScalarsTurns, s \in Seq(Int)
<1> DEFINE m == Len(s) + 1
           G == {i \in Nat : f[i] \in Seq(Int)}
<1>3. ASSUME NEW i \in 1..m, \A q \in (i + 1)..m : q \in G PROVE i \in G
    <2> DEFINE rest == SubSeq(s, i, Len(s))
               n == CharacterLength(rest)
    <2>1. i \in Nat /\ i \in 1..(Len(s) + 1) /\ f[i] = ScalarsTurn(s, f, i)
        BY <1>1, <1>2
    <2>2. CASE i > Len(s)
        <3>1. f[i] = <<>>
            BY <2>1, <2>2, Zenon DEF ScalarsTurn
        <3>2. <<>> \in Seq(Int)
            OBVIOUS
        <3>3. QED BY <2>1, <3>1, <3>2
    <2>3. CASE ~(i > Len(s)) /\ n = 0
        <3>1. f[i] = Bad
            BY <2>1, <2>3, Zenon DEF ScalarsTurn
        <3>2. QED BY <2>1, <3>1 DEF Bad
    <2>4. CASE ~(i > Len(s)) /\ n # 0
        <3>1. f[i] = Before(Payload(rest, n), f[i + n])
            BY <2>1, <2>4, Zenon DEF ScalarsTurn
        <3>2. Len(rest) = Len(s) - i + 1
            BY <1>1, <2>1, <2>4, SubSeqProperties, ElementOfSeq
        <3>3. Len(rest) \in Nat
            BY <1>1, <2>1, <2>4, <3>2
        <3> HIDE DEF rest
        <3>4. n \in 1..Len(rest)
            BY <2>4, <3>3, CharacterFits
        <3>5. IsScalar(Payload(rest, n))
            BY <2>4, Zenon DEF CharacterLength
        <3>6. Payload(rest, n) \in Nat
            BY <3>5, SMT DEF IsScalar
        <3> HIDE DEF n
        <3>7. i + n \in (i + 1)..m
            BY <1>1, <2>1, <2>4, <3>2, <3>4
        <3>8. f[i + n] \in Seq(Int)
            BY <1>3, <3>7
        <3>9. QED BY <2>1, <3>1, <3>6, <3>8, BeforeIsSeq
    <2>5. QED BY <2>2, <2>3, <2>4
<1>4. m \in Nat /\ 1 \in 1..m
    BY <1>1
<1> HIDE DEF G, m
<1>5. \A i \in 1..m : i \in G
    BY <1>3, <1>4, Downward
<1>6. QED BY <1>2, <1>4, <1>5 DEF G

\* The bytes of some code points, whatever comes after them.
Spells(buf, v) ==
    /\ buf \in Seq(Int) /\ v \in Seq(Nat)
    /\ \A y \in Seq(Int) : Scalars(buf \o y) = Join(v, Scalars(y))

SpellsOne(w, n) ==
    /\ w \in Seq(Int) /\ n \in Nat
    /\ \A y \in Seq(Int) : Scalars(w \o y) = Before(n, Scalars(y))

(* No bytes spell no code points.                                          *)
LEMMA SpellsNothing == Spells(<<>>, <<>>)
<1>1. <<>> \in Seq(Int) /\ <<>> \in Seq(Nat)
    OBVIOUS
<1>2. ASSUME NEW y \in Seq(Int) PROVE Scalars(<<>> \o y) = Join(<<>>, Scalars(y))
    <2>1. <<>> \o y = y /\ Scalars(y) \in Seq(Int)
        BY ConcatEmptySeq, ScalarsAreNumbers
    <2>2. <<>> \o Scalars(y) = Scalars(y)
        BY <2>1, ConcatEmptySeq
    <2>3. QED BY <2>1, <2>2 DEF Join
<1>3. QED BY <1>1, <1>2 DEF Spells

(* The bytes of a code point more.                                         *)
LEMMA SpellsMore ==
    ASSUME NEW buf, NEW v, Spells(buf, v), NEW w, NEW n, SpellsOne(w, n)
    PROVE  Spells(buf \o w, v \o <<n>>)
<1>1. buf \in Seq(Int) /\ v \in Seq(Nat) /\ w \in Seq(Int) /\ n \in Nat /\ v \in Seq(Int)
    <2>1. buf \in Seq(Int) /\ v \in Seq(Nat) /\ w \in Seq(Int) /\ n \in Nat
        BY DEF Spells, SpellsOne
    <2>2. v \in Seq(Int)
        BY <2>1, SeqMonotonic
    <2>3. QED BY <2>1, <2>2
<1>2. buf \o w \in Seq(Int)
    BY <1>1, ConcatProperties
<1>3. v \o <<n>> \in Seq(Nat)
    <2>1. <<n>> \in Seq(Nat)
        BY <1>1
    <2>2. QED BY <1>1, <2>1, ConcatProperties
<1>4. ASSUME NEW y \in Seq(Int) PROVE Scalars((buf \o w) \o y) = Join(v \o <<n>>, Scalars(y))
    <2>1. w \o y \in Seq(Int) /\ (buf \o w) \o y = buf \o (w \o y)
        <3>1. buf \in Seq(Int) /\ w \in Seq(Int) /\ y \in Seq(Int)
            BY <1>1
        <3>2. w \o y \in Seq(Int)
            BY ONLY <3>1, ConcatProperties
        <3>3. (buf \o w) \o y = buf \o (w \o y)
            BY <3>1, ConcatAssociative, SMTT(30)
        <3>4. QED BY <3>2, <3>3
    <2>2. Scalars(buf \o (w \o y)) = Join(v, Scalars(w \o y))
        BY <2>1 DEF Spells
    <2>3. Scalars(w \o y) = Before(n, Scalars(y)) /\ Scalars(y) \in Seq(Int)
        BY ScalarsAreNumbers DEF SpellsOne
    <2>4. Join(v, Before(n, Scalars(y))) = Join(v \o <<n>>, Scalars(y))
        BY <1>1, <2>3, JoinBefore
    <2>5. QED BY <2>1, <2>2, <2>3, <2>4
<1>5. QED BY <1>2, <1>3, <1>4 DEF Spells

(* The code points that bytes spell are their scalar values.               *)
LEMMA SpellsValue ==
    ASSUME NEW buf, NEW v, Spells(buf, v)
    PROVE  Scalars(buf) = v /\ v # Bad
<1>1. buf \in Seq(Int) /\ v \in Seq(Nat) /\ <<>> \in Seq(Int)
    BY DEF Spells
<1>2. Scalars(buf \o <<>>) = Join(v, <<>>)
    BY <1>1, NoScalars DEF Spells
<1>3. buf \o <<>> = buf /\ v \o <<>> = v
    BY <1>1, ConcatEmptySeq
<1>4. <<>> # Bad
    BY DEF Bad
<1>5. v # Bad
    <2>1. Len(v) = 1 => v[1] \in Nat
        <3>1. Len(v) = 1 => 1 \in 1..Len(v)
            OBVIOUS
        <3>2. QED BY <1>1, <3>1, ElementOfSeq
    <2>2. Len(Bad) = 1 /\ Bad[1] = -1
        BY DEF Bad
    <2>3. QED BY <2>1, <2>2
<1>6. QED BY <1>2, <1>3, <1>4, <1>5 DEF Join

(* What a digit after \u can be.                                           *)
LEMMA HexRange ==
    ASSUME NEW c \in Int
    PROVE  HexDigit(c) \in Int /\ -1 <= HexDigit(c) /\ HexDigit(c) <= 15
<1>1. CASE c \in Digits
    <2>1. c \notin \h41..\h46 /\ c \notin \h61..\h66 /\ c >= \h30 /\ c <= \h39
        BY <1>1 DEF Digits, Zero
    <2>2. HexDigit(c) = c - Zero
        BY <1>1, <2>1, SMTT(30) DEF HexDigit
    <2>3. QED BY <2>1, <2>2 DEF Zero
<1>2. CASE c \notin Digits /\ c \in \h41..\h46
    <2>1. HexDigit(c) = c - \h37
        BY <1>2, SMTT(30) DEF HexDigit
    <2>2. QED BY <1>2, <2>1
<1>3. CASE c \notin Digits /\ c \notin \h41..\h46 /\ c \in \h61..\h66
    <2>1. HexDigit(c) = c - \h57
        BY <1>3, SMTT(30) DEF HexDigit
    <2>2. QED BY <1>3, <2>1
<1>4. CASE c \notin Digits /\ c \notin \h41..\h46 /\ c \notin \h61..\h66
    <2>1. HexDigit(c) = -1
        BY <1>4, Zenon DEF HexDigit
    <2>2. QED BY <2>1
<1>5. QED BY <1>1, <1>2, <1>3, <1>4

(* An escaped unit is of six bytes and has sixteen bits.                   *)
LEMMA UnitFacts ==
    ASSUME NEW s \in Seq(Int)
    PROVE  LET u == EscapedUnit(s) IN
           /\ u \in Int
           /\ u # -1 => Len(s) >= 6 /\ s[1] = Backslash /\ s[2] = \h75 /\ u >= 0 /\ u <= 65535
<1>1. CASE ~(Len(s) >= 6 /\ s[1] = Backslash /\ s[2] = \h75 /\ \A i \in 3..6 : HexDigit(s[i]) >= 0)
    <2>1. EscapedUnit(s) = -1
        BY <1>1, Zenon DEF EscapedUnit
    <2> DEFINE u == EscapedUnit(s)
    <2>2. u = -1
        BY <2>1
    <2> HIDE DEF u
    <2>3. u \in Int /\ (u # -1 => Len(s) >= 6 /\ s[1] = Backslash /\ s[2] = \h75 /\ u >= 0 /\ u <= 65535)
        BY <2>2
    <2>4. QED BY <2>3 DEF u
<1>2. CASE Len(s) >= 6 /\ s[1] = Backslash /\ s[2] = \h75 /\ \A i \in 3..6 : HexDigit(s[i]) >= 0
    <2> DEFINE h(i) == HexDigit(s[i])
    <2>1. EscapedUnit(s) = ((h(3) * 16 + h(4)) * 16 + h(5)) * 16 + h(6)
        BY <1>2, Zenon DEF EscapedUnit
    <2>2. \A i \in 3..6 : h(i) \in Int /\ h(i) >= 0 /\ h(i) <= 15
        <3>1. \A i \in 3..6 : i \in 1..Len(s)
            BY <1>2, LenProperties
        <3>2. \A i \in 3..6 : s[i] \in Int
            BY <3>1, ElementOfSeq
        <3>3. ASSUME NEW i \in 3..6 PROVE h(i) \in Int /\ h(i) >= 0 /\ h(i) <= 15
            <4>1. s[i] \in Int /\ HexDigit(s[i]) >= 0
                BY <1>2, <3>2
            <4>2. QED BY <4>1, HexRange
        <3>4. QED BY <3>3
    <2> DEFINE h3 == h(3)
               h4 == h(4)
               h5 == h(5)
               h6 == h(6)
               u == EscapedUnit(s)
    <2>3. /\ h3 \in Int /\ h3 >= 0 /\ h3 <= 15 /\ h4 \in Int /\ h4 >= 0 /\ h4 <= 15
          /\ h5 \in Int /\ h5 >= 0 /\ h5 <= 15 /\ h6 \in Int /\ h6 >= 0 /\ h6 <= 15
        <3> HIDE DEF h
        <3>1. 3 \in 3..6 /\ 4 \in 3..6 /\ 5 \in 3..6 /\ 6 \in 3..6
            OBVIOUS
        <3>2. QED BY <2>2, <3>1
    <2>4. u = ((h3 * 16 + h4) * 16 + h5) * 16 + h6
        BY <2>1
    <2> HIDE DEF h, h3, h4, h5, h6, u
    <2>5. u \in Int /\ u >= 0 /\ u <= 65535
        BY <2>3, <2>4
    <2>6. QED BY <1>2, <2>5 DEF u
<1>3. QED BY <1>1, <1>2

(* What stands behind the six bytes of an escape.                          *)
LEMMA RestFacts ==
    ASSUME NEW s \in Seq(Nat)
    PROVE  LET rest == SubSeq(s, 7, Len(s)) IN
           /\ rest \in Seq(Nat)
           /\ Len(s) < 7 => rest = <<>>
           /\ Len(s) >= 6 => Len(rest) = Len(s) - 6
           /\ \A i \in 1..Len(rest) : rest[i] = s[6 + i] /\ 6 + i \in 1..Len(s)
<1> DEFINE rest == SubSeq(s, 7, Len(s))
           n == Len(s)
<1>1. n \in Nat
    BY LenProperties
<1>2. \A i \in 7..n : s[i] \in Nat
    BY <1>1, ElementOfSeq
<1>3. /\ rest \in Seq(Nat) /\ Len(rest) = IF 7 <= n THEN n - 7 + 1 ELSE 0
      /\ \A i \in 1..n - 7 + 1 : rest[i] = s[7 + i - 1]
    BY <1>1, <1>2, SubSeqProperties
<1>4. n < 7 => rest = <<>>
    BY <1>1, SubSeqEmpty
<1>5. \A i \in 1..Len(rest) : i \in 1..n - 7 + 1 /\ 7 + i - 1 = 6 + i /\ 6 + i \in 1..n
    <2> HIDE DEF n, rest
    <2>1. QED BY <1>1, <1>3
<1>6. n >= 6 => Len(rest) = n - 6
    <2> HIDE DEF n, rest
    <2>1. QED BY <1>1, <1>3
<1> HIDE DEF rest, n
<1>7. \A i \in 1..Len(rest) : rest[i] = s[6 + i] /\ 6 + i \in 1..n
    BY <1>3, <1>5
<1>8. QED BY <1>3, <1>4, <1>6, <1>7 DEF rest, n

\* The first of some characters or escapes of a string.
IsFirst(s, k, v) == k \in 1..Len(s) /\ v \in Nat /\ FirstOf(s) = <<k, v>>

(* A length and a code point are not Bad.                                  *)
LEMMA PairIsNotBad == \A k, v : <<k, v>> # Bad
    BY DEF Bad

(* The simple escapes are of bytes, for bytes of ASCII.                    *)
LEMMA SimpleFacts ==
    /\ \A c \in DOMAIN SimpleEscapes : c \in Nat /\ SimpleEscapes[c] \in 0..\h7F
    /\ \h75 \notin DOMAIN SimpleEscapes
<1>1. DOMAIN SimpleEscapes = {\h22, \h5C, \h2F, \h62, \h66, \h6E, \h72, \h74}
    BY DEF SimpleEscapes, Quote, Backslash
<1>2. ASSUME NEW c \in DOMAIN SimpleEscapes PROVE SimpleEscapes[c] \in {\h08, \h0C, \h0A, \h0D, \h09, c}
    <2>1. SimpleEscapes[c] = CASE c = \h62 -> \h08 [] c = \h66 -> \h0C [] c = \h6E -> \h0A [] c = \h72 -> \h0D
          [] c = \h74 -> \h09 [] OTHER -> c
        BY <1>2 DEF SimpleEscapes
    <2>2. CASE c = \h62
        BY <2>1, <2>2, SMTT(30)
    <2>3. CASE c = \h66
        BY <2>1, <2>3, SMTT(30)
    <2>4. CASE c = \h6E
        BY <2>1, <2>4, SMTT(30)
    <2>5. CASE c = \h72
        BY <2>1, <2>5, SMTT(30)
    <2>6. CASE c = \h74
        BY <2>1, <2>6, SMTT(30)
    <2>7. CASE c \notin {\h62, \h66, \h6E, \h72, \h74}
        BY <2>1, <2>7, SMTT(30)
    <2>8. QED BY <2>2, <2>3, <2>4, <2>5, <2>6, <2>7
<1>3. \A c \in DOMAIN SimpleEscapes : c \in Nat /\ c <= \h7F
    BY <1>1
<1>4. QED BY <1>1, <1>2, <1>3

FirstOrBad(s) == FirstOf(s) = Bad \/ \E k, v : IsFirst(s, k, v)

(* There is at least a byte of what a string begins with, unless it is Bad. *)
LEMMA FirstKinds ==
    ASSUME NEW s \in Seq(Nat), s # <<>>
    PROVE  FirstOrBad(s)
<1> DEFINE rest == SubSeq(s, 7, Len(s))
           n == CharacterLength(s)
           unit == EscapedUnit(s)
           low == EscapedUnit(rest)
           pair == CodePoint(unit, low)
<1>1. Len(s) \in Nat /\ Len(s) >= 1 /\ s \in Seq(Int) /\ \A i \in 1..Len(s) : s[i] \in Nat
    <2>1. Len(s) \in Nat /\ Len(s) # 0 /\ \A i \in 1..Len(s) : s[i] \in Nat
        BY LenProperties, EmptySeq, ElementOfSeq
    <2>2. s \in Seq(Int)
        BY SeqMonotonic
    <2>3. QED BY <2>1, <2>2
<1>2. unit \in Int /\ (unit # -1 => Len(s) >= 6)
    BY <1>1, UnitFacts
<1>3. rest \in Seq(Int) /\ (Len(s) >= 6 => Len(rest) = Len(s) - 6)
    <2>1. rest \in Seq(Nat) /\ (Len(s) >= 6 => Len(rest) = Len(s) - 6)
        BY RestFacts
    <2> HIDE DEF rest
    <2>2. rest \in Seq(Int)
        BY <2>1, SeqMonotonic
    <2>3. QED BY <2>1, <2>2
<1>4. low \in Int /\ (low # -1 => Len(rest) >= 6)
    <2> HIDE DEF rest
    <2>1. QED BY <1>3, UnitFacts
<1>5. n = 0 \/ n \in 1..Len(s)
    BY <1>1, CharacterFits
<1>6. FirstOf(s) =
        IF Head(s) = Backslash
        THEN IF IsScalar(unit) THEN <<6, unit>>
             ELSE IF unit \in HighSurrogates /\ low \in LowSurrogates THEN <<12, pair>>
             ELSE IF Len(s) > 1 /\ s[2] \in DOMAIN SimpleEscapes
             THEN <<2, SimpleEscapes[s[2]]>> ELSE Bad
        ELSE IF n = 0 \/ Head(s) < \h20 THEN Bad
        ELSE <<n, Payload(s, n)>>
    BY Zenon DEF FirstOf
<1>7. n # 0 => Payload(s, n) \in Nat
    <2>1. n # 0 => IsScalar(Payload(s, n))
        BY Zenon DEF CharacterLength
    <2> HIDE DEF n
    <2>2. QED BY <2>1, SMT DEF IsScalar
<1> DEFINE m == Len(s)
           r == Len(rest)
           p == Payload(s, n)
<1>8. m \in Nat /\ m >= 1 /\ (m >= 6 => r = m - 6)
    BY <1>1, <1>3
<1>9. CASE Head(s) = Backslash /\ IsScalar(unit)
    <2>1. FirstOf(s) = <<6, unit>>
        BY <1>6, <1>9, Zenon
    <2>2. unit \in Nat /\ unit # -1
        <3> HIDE DEF unit
        <3>1. QED BY <1>9, SMT DEF IsScalar
    <2>3. 6 \in 1..m
        <3> HIDE DEF m
        <3>1. m >= 6
            BY <1>2, <2>2 DEF m
        <3>2. QED BY <1>8, <3>1
    <2>4. IsFirst(s, 6, unit)
        BY <2>1, <2>2, <2>3, Zenon DEF IsFirst
    <2>5. QED BY <2>4, Zenon DEF FirstOrBad
<1>10. CASE Head(s) = Backslash /\ ~IsScalar(unit) /\ unit \in HighSurrogates /\ low \in LowSurrogates
    <2>1. FirstOf(s) = <<12, pair>>
        BY <1>6, <1>10, Zenon
    <2>2. pair \in Nat /\ unit # -1 /\ low # -1
        <3> HIDE DEF unit, low
        <3>1. IsScalar(CodePoint(unit, low))
            BY <1>10, PairOfSurrogates
        <3>2. unit # -1 /\ low # -1
            <4>1. (\A c \in HighSurrogates : c # -1) /\ \A c \in LowSurrogates : c # -1
                BY DEF HighSurrogates, LowSurrogates
            <4>2. QED BY <1>10, <4>1
        <3> HIDE DEF pair
        <3>3. IsScalar(pair)
            BY <3>1 DEF pair
        <3>4. QED BY <3>2, <3>3, SMT DEF IsScalar
    <2>3. 12 \in 1..m
        <3>1. m >= 6 /\ r >= 6
            BY <1>2, <1>4, <2>2
        <3> HIDE DEF m, r
        <3>2. QED BY <1>8, <3>1
    <2>4. IsFirst(s, 12, pair)
        BY <2>1, <2>2, <2>3, Zenon DEF IsFirst
    <2>5. QED BY <2>4, Zenon DEF FirstOrBad
<1>11. CASE /\ Head(s) = Backslash /\ ~IsScalar(unit)
            /\ ~(unit \in HighSurrogates /\ low \in LowSurrogates)
            /\ Len(s) > 1 /\ s[2] \in DOMAIN SimpleEscapes
    <2>1. FirstOf(s) = <<2, SimpleEscapes[s[2]]>>
        BY <1>6, <1>11, Zenon
    <2>2. SimpleEscapes[s[2]] \in Nat
        <3>1. SimpleEscapes[s[2]] \in 0..\h7F
            BY <1>11, SimpleFacts
        <3>2. 0..\h7F \subseteq Nat
            OBVIOUS
        <3>3. QED BY <3>1, <3>2, Zenon
    <2>3. 2 \in 1..m
        <3>1. m > 1
            BY <1>11
        <3> HIDE DEF m
        <3>2. QED BY <1>8, <3>1
    <2>4. IsFirst(s, 2, SimpleEscapes[s[2]])
        BY <2>1, <2>2, <2>3, Zenon DEF IsFirst
    <2>5. QED BY <2>4, Zenon DEF FirstOrBad
<1>12. CASE /\ Head(s) = Backslash /\ ~IsScalar(unit)
            /\ ~(unit \in HighSurrogates /\ low \in LowSurrogates)
            /\ ~(Len(s) > 1 /\ s[2] \in DOMAIN SimpleEscapes)
    BY <1>6, <1>12, Zenon DEF FirstOrBad
<1>13. CASE Head(s) # Backslash /\ (n = 0 \/ Head(s) < \h20)
    BY <1>6, <1>13, Zenon DEF FirstOrBad
<1>14. CASE Head(s) # Backslash /\ ~(n = 0 \/ Head(s) < \h20)
    <2>1. FirstOf(s) = <<n, p>>
        BY <1>6, <1>14, Zenon
    <2>2. n \in 1..m /\ p \in Nat
        BY <1>5, <1>7, <1>14
    <2>3. IsFirst(s, n, p)
        BY <2>1, <2>2, Zenon DEF IsFirst
    <2>4. QED BY <2>3, Zenon DEF FirstOrBad
<1> HIDE DEF unit, low, n, m, r, p, pair, rest
<1>15. QED BY <1>9, <1>10, <1>11, <1>12, <1>13, <1>14, Zenon

(* What is left of a text.                                                 *)
LEMMA PlacesFrom ==
    ASSUME NEW s \in Seq(Nat), NEW i \in 1..(Len(s) + 1)
    PROVE  LET rest == SubSeq(s, i, Len(s)) IN
           /\ rest \in Seq(Nat) /\ Len(rest) = Len(s) - i + 1
           /\ rest # <<>> <=> i <= Len(s)
           /\ rest # <<>> => Head(rest) = s[i]
           /\ \A k \in Nat \ {0} : CharAt(rest, k) = CharAt(s, i - 1 + k)
<1> DEFINE n == Len(s)
           rest == SubSeq(s, i, n)
           r == Len(rest)
<1>1. n \in Nat /\ DOMAIN s = 1..n /\ \A k \in 1..n : s[k] \in Nat
    BY LenProperties, ElementOfSeq
<1>2. i \in Int /\ i >= 1 /\ i <= n + 1
    <2>1. i \in 1..(n + 1)
        OBVIOUS
    <2> HIDE DEF n
    <2>2. QED BY <1>1, <2>1
<1>3. \A k \in i..n : s[k] \in Nat
    <2> HIDE DEF n
    <2>1. QED BY <1>1, <1>2
<1>4. /\ rest \in Seq(Nat) /\ r = IF i <= n THEN n - i + 1 ELSE 0
      /\ \A k \in 1..n - i + 1 : rest[k] = s[i + k - 1]
    BY <1>1, <1>2, <1>3, SubSeqProperties
<1>5. r = n - i + 1 /\ DOMAIN rest = 1..r
    <2>1. DOMAIN rest = 1..r
        BY <1>4, LenProperties
    <2> HIDE DEF n, rest, r
    <2>2. QED BY <1>1, <1>2, <1>4, <2>1
<1>6. rest # <<>> <=> r # 0
    BY <1>4, EmptySeq
<1>7. rest # <<>> => Head(rest) = rest[1]
    BY <1>4
<1> HIDE DEF n, rest, r
<1>8. rest # <<>> <=> i <= n
    BY <1>1, <1>2, <1>5, <1>6
<1>9. rest # <<>> => Head(rest) = s[i]
    <2>1. rest # <<>> => 1 \in 1..n - i + 1 /\ i + 1 - 1 = i
        BY <1>1, <1>2, <1>8
    <2>2. QED BY <1>4, <1>7, <2>1
<1>10. ASSUME NEW k \in Nat \ {0} PROVE CharAt(rest, k) = CharAt(s, i - 1 + k)
    <2>1. i + k - 1 = i - 1 + k /\ (k \in 1..r <=> i - 1 + k \in 1..n)
        BY <1>1, <1>2, <1>5
    <2>2. CASE k \in 1..r
        <3>1. rest[k] = s[i + k - 1]
            BY <1>4, <1>5, <2>2
        <3>2. QED BY <1>1, <1>5, <2>1, <2>2, <3>1, Zenon DEF CharAt
    <2>3. CASE k \notin 1..r
        BY <1>1, <1>5, <2>1, <2>3, Zenon DEF CharAt
    <2>4. QED BY <2>2, <2>3
<1>11. QED BY <1>4, <1>5, <1>8, <1>9, <1>10 DEF n, rest, r

\* What a string means from a byte on.
MeantTurn(s, f, i) ==
    LET rest == SubSeq(s, i, Len(s))
        first == FirstOf(rest)
    IN  IF rest = <<>> THEN Bad
        ELSE IF Head(rest) = Quote THEN <<>>
        ELSE IF first = Bad THEN Bad ELSE Before(first[2], f[i + first[1]])

(* Where a string goes on is a later place.                                *)
LEMMA FirstIsLater ==
    ASSUME NEW s \in Seq(Nat), NEW i \in 1..(Len(s) + 1),
           NEW rest, rest = SubSeq(s, i, Len(s)), rest # <<>>, FirstOf(rest) # Bad
    PROVE  /\ FirstOf(rest)[2] \in Nat
           /\ i + FirstOf(rest)[1] \in (i + 1)..(Len(s) + 1)
<1> DEFINE n == Len(s)
           r == Len(rest)
<1>1. rest \in Seq(Nat) /\ r = n - i + 1
    BY PlacesFrom
<1>2. FirstOrBad(rest)
    BY <1>1, FirstKinds
<1>3. PICK k, v : IsFirst(rest, k, v)
    BY <1>2, Zenon DEF FirstOrBad
<1>4. FirstOf(rest)[1] = k /\ FirstOf(rest)[2] = v /\ k \in 1..r /\ v \in Nat
    <2>1. FirstOf(rest) = <<k, v>> /\ k \in 1..r /\ v \in Nat
        BY <1>3, Zenon DEF IsFirst
    <2>2. QED BY <2>1
<1>5. n \in Nat /\ i \in 1..(n + 1) /\ r \in Nat
    BY <1>1, LenProperties
<1> HIDE DEF n, r
<1>6. i + k \in (i + 1)..(n + 1)
    BY <1>1, <1>4, <1>5
<1>7. QED BY <1>4, <1>6 DEF n

(* A turn of Meaning looks at what comes later only.                       *)
LEMMA MeantLater ==
    ASSUME NEW s, s \in Seq(Nat), NEW f, NEW g, NEW i \in 1..(Len(s) + 1),
           \A q \in (i + 1)..(Len(s) + 1) : f[q] = g[q]
    PROVE  MeantTurn(s, f, i) = MeantTurn(s, g, i)
<1> DEFINE rest == SubSeq(s, i, Len(s))
           first == FirstOf(rest)
<1>1. \A h : MeantTurn(s, h, i) =
        IF rest = <<>> THEN Bad
        ELSE IF Head(rest) = Quote THEN <<>>
        ELSE IF first = Bad THEN Bad ELSE Before(first[2], h[i + first[1]])
    BY DEF MeantTurn
<1>2. rest # <<>> /\ first # Bad => i + first[1] \in (i + 1)..(Len(s) + 1)
    BY FirstIsLater
<1> HIDE DEF rest, first
<1>3. QED BY <1>1, <1>2, Zenon

(* Meaning is the first of its turns. *)
LEMMA MeantTurns ==
    ASSUME NEW s, s \in Seq(Nat)
    PROVE  \E f : /\ Meaning(s) = f[1]
                 /\ \A p \in 1..Len(s) + 1 : f[p] = MeantTurn(s, f, p)
<1> DEFINE n == Len(s) + 1
           Is(f, from) == /\ f = [p \in 1..n |-> f[p]]
                          /\ \A p \in from..n : f[p] = MeantTurn(s, f, p)
           G == {m \in Nat : m <= n - 1 + 1 => \E f : Is(f, n + 1 - m)}
<1>1. n \in Nat /\ n >= 1
    BY SMT
<1>2. 0 \in G
    <2> DEFINE f == [p \in 1..n |-> <<>>]
    <2>1. f = [p \in 1..n |-> f[p]] /\ (n + 1 - 0)..n = {}
        BY <1>1
    <2>2. Is(f, n + 1 - 0)
        BY <2>1
    <2>3. QED BY <2>2
<1>3. ASSUME NEW m \in Nat, m \in G PROVE m + 1 \in G
    <2>1. SUFFICES ASSUME m + 1 <= n - 1 + 1 PROVE \E g : Is(g, n + 1 - (m + 1))
        OBVIOUS
    <2> DEFINE k == n - m
    <2>2. /\ k \in 1..n /\ n + 1 - (m + 1) = k /\ n + 1 - m = k + 1 /\ m <= n - 1 + 1
          /\ k..n = {k} \cup (k + 1)..n /\ k \notin (k + 1)..n
        <3> HIDE DEF n
        <3>1. QED BY <1>1, <2>1
    <2>3. PICK f : Is(f, k + 1)
        BY <1>3, <2>2
    <2> DEFINE g == [p \in 1..n |-> IF p = k THEN MeantTurn(s, f, k) ELSE f[p]]
    <2> HIDE DEF k, n
    <2>4. \A p \in (k + 1)..n : g[p] = f[p] /\ p \in 1..n
        BY <1>1, <2>2
    <2>5. g[k] = MeantTurn(s, f, k) /\ g = [p \in 1..n |-> g[p]]
        BY <2>2
    <2> HIDE DEF g
    <2>6. ASSUME NEW p \in k..n PROVE g[p] = MeantTurn(s, g, p)
        <3>1. p \in 1..n /\ \A q \in (p + 1)..n : q \in (k + 1)..n
            BY <1>1, <2>2
        <3>2. MeantTurn(s, f, p) = MeantTurn(s, g, p)
            <4>1. p \in 1..(Len(s) + 1) /\ \A q \in (p + 1)..(Len(s) + 1) : f[q] = g[q]
                BY <2>4, <3>1 DEF n
            <4>2. QED BY <4>1, MeantLater
        <3>3. CASE p = k
            BY <2>5, <3>2, <3>3
        <3>4. CASE p # k
            <4>1. p \in (k + 1)..n
                BY <2>2, <3>4
            <4>2. f[p] = MeantTurn(s, f, p)
                BY <2>3, <4>1
            <4>3. QED BY <2>4, <3>2, <4>1, <4>2
        <3>5. QED BY <3>3, <3>4
    <2>7. Is(g, k)
        BY <2>5, <2>6
    <2>8. QED BY <2>2, <2>7
<1>4. PICK f : Is(f, 1)
    <2> HIDE DEF G, n
    <2>1. \A m \in Nat : m \in G
        BY <1>2, <1>3, Induction
    <2>2. n - 1 + 1 \in Nat /\ n + 1 - (n - 1 + 1) = 1
        BY <1>1
    <2>3. n - 1 + 1 \in G
        BY <2>1, <2>2
    <2>4. QED BY <2>2, <2>3 DEF G
<1>5. \E h : h = [p \in 1..(Len(s) + 1) |-> MeantTurn(s, h, p)]
    <2> DEFINE h == [p \in 1..n |-> MeantTurn(s, f, p)]
    <2>1. h = [p \in 1..n |-> f[p]]
        BY <1>4
    <2>2. f = h
        BY <1>4, <2>1
    <2>3. QED BY <2>2
<1> DEFINE from == CHOOSE h : h = [p \in 1..(Len(s) + 1) |-> MeantTurn(s, h, p)]
<1>6. from = [p \in 1..(Len(s) + 1) |-> MeantTurn(s, from, p)]
    BY <1>5, Zenon
<1>7. Meaning(s) = from[1]
    BY DEF Meaning, MeantTurn
<1> HIDE DEF from
<1>8. \A p \in 1..(Len(s) + 1) : from[p] = MeantTurn(s, from, p)
    BY <1>6
<1>9. QED BY <1>7, <1>8

(* What a string means is code points, or Bad.                             *)
LEMMA MeantValues ==
    ASSUME NEW s \in Seq(Nat), NEW f, \A i \in 1..(Len(s) + 1) : f[i] = MeantTurn(s, f, i)
    PROVE  \A i \in 1..(Len(s) + 1) : f[i] \in Seq(Int)
<1> DEFINE m == Len(s) + 1
           G == {i \in Nat : f[i] \in Seq(Int)}
<1>1. m \in Nat
    BY LenProperties
<1>2. ASSUME NEW i \in 1..m, \A q \in (i + 1)..m : q \in G PROVE i \in G
    <2> DEFINE rest == SubSeq(s, i, Len(s))
               first == FirstOf(rest)
    <2>1. i \in Nat /\ i \in 1..(Len(s) + 1)
        BY <1>1
    <2>2. f[i] = IF rest = <<>> THEN Bad
                 ELSE IF Head(rest) = Quote THEN <<>>
                 ELSE IF first = Bad THEN Bad ELSE Before(first[2], f[i + first[1]])
        BY <2>1 DEF MeantTurn
    <2>3. Bad \in Seq(Int) /\ <<>> \in Seq(Int)
        BY DEF Bad
    <2>4. CASE rest # <<>> /\ Head(rest) # Quote /\ first # Bad
        <3>1. first[2] \in Nat /\ i + first[1] \in (i + 1)..m
            BY <2>1, <2>4, FirstIsLater
        <3>2. f[i + first[1]] \in Seq(Int)
            BY <1>2, <3>1
        <3>3. f[i] = Before(first[2], f[i + first[1]])
            BY <2>2, <2>4, Zenon
        <3> HIDE DEF first
        <3>4. Before(first[2], f[i + first[1]]) \in Seq(Int)
            BY <3>1, <3>2, BeforeIsSeq
        <3>5. QED BY <2>1, <3>3, <3>4
    <2>5. CASE ~(rest # <<>> /\ Head(rest) # Quote /\ first # Bad)
        <3>1. f[i] \in Seq(Int)
            BY <2>2, <2>3, <2>5, Zenon
        <3>2. QED BY <2>1, <3>1
    <2>6. QED BY <2>4, <2>5
<1> HIDE DEF G, m
<1>3. 1 \in Nat
    OBVIOUS
<1>4. \A i \in 1..m : i \in G
    BY ONLY <1>1, <1>2, <1>3, Downward
<1>5. QED BY <1>4 DEF G, m

\* A lexer that has taken q bytes of a text and not returned a token yet.
Reads(b, l, q) ==
    /\ IsLexer(l) /\ l.ia = b /\ q \in Nat /\ l.taken = q /\ l.current = CharAt(b, q)
    /\ l.next_unget \in BOOLEAN /\ ~l.next_unget /\ l.chars_read \in Int
    /\ l.token = "uninitialized"

(* A byte more has been taken.                                             *)
LEMMA ReadsGet ==
    ASSUME NEW b, NEW l, NEW q, Reads(b, l, q)
    PROVE  LET g == get(l) IN
           /\ Reads(b, g, q + 1) /\ g.current = CharAt(b, q + 1) /\ IsLexer(g)
           /\ g.token_buffer = l.token_buffer
<1> DEFINE g == get(l)
<1>1. IsLexer(l) /\ l.ia = b /\ q \in Nat /\ l.taken = q /\ l.next_unget \in BOOLEAN
      /\ ~l.next_unget /\ l.chars_read \in Int /\ l.token = "uninitialized" /\ l.taken \in Int
    BY DEF Reads
<1>2. /\ IsLexer(g) /\ g.ia = l.ia /\ g.taken = l.taken + 1 /\ g.current = CharAt(g.ia, g.taken)
      /\ g.next_unget = FALSE /\ g.chars_read = l.chars_read + 1 /\ g.token = l.token
      /\ g.token_buffer = l.token_buffer
    BY <1>1, GetFacts
<1> HIDE DEF g
<1>3. g.next_unget \in BOOLEAN /\ ~g.next_unget
    BY <1>2, Zenon
<1>4. q + 1 \in Nat /\ g.taken = q + 1 /\ g.ia = b /\ g.current = CharAt(b, q + 1)
      /\ g.chars_read \in Int /\ g.token = "uninitialized"
    BY <1>1, <1>2
<1>5. Reads(b, g, q + 1)
    BY <1>2, <1>3, <1>4, Zenon DEF Reads
<1>6. QED BY <1>2, <1>4, <1>5 DEF g

(* A byte is added, and none taken.                                        *)
LEMMA ReadsAdd ==
    ASSUME NEW b, NEW l, NEW q, Reads(b, l, q), NEW c
    PROVE  LET g == add(l, c) IN
           Reads(b, g, q) /\ g.token_buffer = Append(l.token_buffer, c)
<1> DEFINE g == add(l, c)
<1>1. IsLexer(l)
    BY DEF Reads
<1>2. /\ IsLexer(g) /\ g.ia = l.ia /\ g.taken = l.taken /\ g.current = l.current
      /\ g.next_unget = l.next_unget /\ g.chars_read = l.chars_read /\ g.token = l.token
      /\ g.token_buffer = Append(l.token_buffer, c)
    BY <1>1, AddFacts
<1> HIDE DEF g
<1>3. Reads(b, g, q)
    BY ONLY <1>2, Reads(b, l, q) DEF Reads
<1>4. QED BY <1>2, <1>3 DEF g

\* The lexer g has added the bytes w and taken q of the text.
Gains(b, buf, q, w, g) == Reads(b, g, q) /\ g.token_buffer = buf \o w

(* The bytes of a code point are added, and none taken.                    *)
LEMMA ReadsCodepoint ==
    ASSUME NEW b, NEW l, NEW q, Reads(b, l, q), NEW codepoint
    PROVE  Gains(b, l.token_buffer, q, Utf8(codepoint), AddCodepoint(l, codepoint))
<1> DEFINE g == AddCodepoint(l, codepoint)
<1>1. IsLexer(l)
    BY DEF Reads
<1>2. /\ IsLexer(g) /\ g.ia = l.ia /\ g.taken = l.taken /\ g.current = l.current
      /\ g.next_unget = l.next_unget /\ g.chars_read = l.chars_read /\ g.token = l.token
      /\ g.token_buffer = l.token_buffer \o Utf8(codepoint)
    BY <1>1 DEF IsLexer, AddCodepoint
<1> HIDE DEF g
<1>3. Reads(b, g, q)
    BY ONLY <1>2, Reads(b, l, q) DEF Reads
<1>4. QED BY <1>2, <1>3 DEF Gains, g

(* A function that fails has failed.                                       *)
LEMMA FailsIsFailed ==
    ASSUME NEW l, IsLexer(l)
    PROVE  Failed(Fails(l))
    BY ReturnsFacts DEF Failed, Fails

\* A digit more of the four after \u.
NextDigit(x, c) == IF x = -1 \/ HexDigit(c) = -1 THEN -1 ELSE x * 16 + HexDigit(c)

(* The number so far, or -1.                                               *)
LEMMA NextIsInt ==
    ASSUME NEW x \in Int, x >= -1, NEW c \in Int
    PROVE  NextDigit(x, c) \in Int /\ NextDigit(x, c) >= -1
<1>1. HexDigit(c) \in Int /\ -1 <= HexDigit(c)
    BY HexRange
<1>2. QED BY <1>1 DEF NextDigit

(* An escaped unit is the number of its four digits.                       *)
LEMMA UnitIsNext ==
    ASSUME NEW s \in Seq(Nat), s # <<>>, s[1] = Backslash, CharAt(s, 2) = \h75
    PROVE  EscapedUnit(s) = NextDigit(NextDigit(NextDigit(NextDigit(0, CharAt(s, 3)),
                                CharAt(s, 4)), CharAt(s, 5)), CharAt(s, 6))
<1> DEFINE n == Len(s)
           c(i) == CharAt(s, i)
           d(i) == HexDigit(CharAt(s, i))
<1>1. n \in Nat /\ DOMAIN s = 1..n /\ \A i \in 1..n : s[i] \in Nat
    BY LenProperties, ElementOfSeq
<1>2. HexDigit(EOF) = -1
    <2>1. EOF = -1
        BY DEF EOF
    <2>2. EOF \notin Digits /\ EOF \notin \h41..\h46 /\ EOF \notin \h61..\h66
        BY <2>1 DEF Digits, Zero
    <2>3. QED BY <2>2, SMTT(30) DEF HexDigit
<1>3. \A i \in Nat : (i \in 1..n => c(i) = s[i]) /\ (i \notin 1..n => c(i) = EOF)
    BY <1>1 DEF CharAt
<1>4. \A i \in Nat : c(i) \in Int
    BY <1>1, <1>3 DEF EOF
<1>5. \A i \in Nat : d(i) \in Int /\ d(i) >= -1
    <2> HIDE DEF c
    <2>1. \A i \in Nat : HexDigit(c(i)) \in Int /\ -1 <= HexDigit(c(i))
        BY <1>4, HexRange
    <2>2. QED BY <2>1 DEF c
<1>6. \A i \in 3..6 : i \in Nat
    OBVIOUS
<1>7. s[2] = \h75 /\ n >= 2
    <2>1. c(2) # EOF
        BY DEF EOF
    <2> HIDE DEF n
    <2>2. 2 \in 1..n
        BY <1>3, <2>1
    <2>3. QED BY <1>1, <1>3, <2>2
<1>8. CASE \A i \in 3..6 : d(i) # -1
    <2>1. \A i \in 3..6 : i \in 1..n
        <3> HIDE DEF n, c
        <3>1. \A i \in 3..6 : c(i) # EOF
            BY <1>2, <1>8 DEF c
        <3>2. QED BY <1>3, <1>6, <3>1
    <2>2. n >= 6
        <3>1. 6 \in 1..n
            BY <2>1
        <3> HIDE DEF n
        <3>2. QED BY <1>1, <3>1
    <2>3. \A i \in 3..6 : HexDigit(s[i]) = d(i) /\ d(i) >= 0
        <3>1. \A i \in 3..6 : c(i) = s[i]
            BY <1>3, <1>6, <2>1
        <3>2. ASSUME NEW i \in 3..6 PROVE d(i) >= 0
            <4> HIDE DEF d
            <4>1. d(i) \in Int /\ d(i) >= -1 /\ d(i) # -1
                BY <1>5, <1>6, <1>8
            <4>2. QED BY <4>1
        <3>3. QED BY <3>1, <3>2
    <2>4. EscapedUnit(s) = ((HexDigit(s[3]) * 16 + HexDigit(s[4])) * 16 + HexDigit(s[5])) * 16 + HexDigit(s[6])
        <3>1. Len(s) >= 6 /\ s[1] = Backslash /\ s[2] = \h75 /\ \A i \in 3..6 : HexDigit(s[i]) >= 0
            BY <1>7, <2>2, <2>3
        <3>2. QED BY <3>1, Zenon DEF EscapedUnit
    <2>5. 3 \in 3..6 /\ 4 \in 3..6 /\ 5 \in 3..6 /\ 6 \in 3..6
        OBVIOUS
    <2>6. EscapedUnit(s) = ((d(3) * 16 + d(4)) * 16 + d(5)) * 16 + d(6)
        <3> HIDE DEF d
        <3>1. HexDigit(s[3]) = d(3) /\ HexDigit(s[4]) = d(4) /\ HexDigit(s[5]) = d(5) /\ HexDigit(s[6]) = d(6)
            BY <2>3, <2>5
        <3>2. QED BY <2>4, <3>1
    <2>7. /\ d(3) \in Int /\ d(3) >= 0 /\ d(4) \in Int /\ d(4) >= 0
          /\ d(5) \in Int /\ d(5) >= 0 /\ d(6) \in Int /\ d(6) >= 0
        <3> HIDE DEF d
        <3>1. QED BY <1>5, <1>6, <2>3, <2>5
    <2> DEFINE x3 == d(3)
               x4 == x3 * 16 + d(4)
               x5 == x4 * 16 + d(5)
               x6 == x5 * 16 + d(6)
               d4 == d(4)
               d5 == d(5)
               d6 == d(6)
    <2>8. /\ x3 \in Int /\ x3 >= 0 /\ x4 = x3 * 16 + d4 /\ x5 = x4 * 16 + d5 /\ x6 = x5 * 16 + d6
          /\ d4 \in Int /\ d4 >= 0 /\ d5 \in Int /\ d5 >= 0 /\ d6 \in Int /\ d6 >= 0
        BY <2>7
    <2>9. /\ x3 = NextDigit(0, c(3))
        BY <1>8, <2>5, <2>7 DEF NextDigit
    <2>10. x3 # -1 => NextDigit(x3, c(4)) = x3 * 16 + d4
        BY <1>8, <2>5, Zenon DEF NextDigit
    <2>11. x4 # -1 => NextDigit(x4, c(5)) = x4 * 16 + d5
        BY <1>8, <2>5, Zenon DEF NextDigit
    <2>12. x5 # -1 => NextDigit(x5, c(6)) = x5 * 16 + d6
        BY <1>8, <2>5, Zenon DEF NextDigit
    <2>13. EscapedUnit(s) = x6
        BY <2>6
    <2> HIDE DEF c, d, x3, x4, x5, x6, d4, d5, d6
    <2>14. x3 # -1 /\ x4 # -1 /\ x5 # -1
        BY <2>8
    <2>15. x6 = NextDigit(NextDigit(NextDigit(NextDigit(0, c(3)), c(4)), c(5)), c(6))
        BY <2>8, <2>9, <2>10, <2>11, <2>12, <2>14
    <2>16. QED BY <2>13, <2>15 DEF c
<1>9. CASE ~\A i \in 3..6 : d(i) # -1
    <2>1. PICK i \in 3..6 : d(i) = -1
        BY <1>9
    <2>2. EscapedUnit(s) = -1
        <3>1. ~(n >= 6 /\ \A k \in 3..6 : HexDigit(s[k]) >= 0)
            <4>1. n >= 6 => i \in 1..n
                <5> HIDE DEF n
                <5>1. QED BY <1>1
            <4>2. n >= 6 => HexDigit(s[i]) = -1
                BY <1>3, <1>6, <2>1, <4>1
            <4>3. SUFFICES ASSUME n >= 6, HexDigit(s[i]) >= 0 PROVE FALSE
                OBVIOUS
            <4>4. HexDigit(s[i]) = -1
                BY <4>2, <4>3
            <4>5. QED BY <4>3, <4>4
        <3>2. QED BY <3>1, Zenon DEF EscapedUnit
    <2>3. i = 3 \/ i = 4 \/ i = 5 \/ i = 6
        OBVIOUS
    <2> DEFINE y3 == NextDigit(0, c(3))
               y4 == NextDigit(y3, c(4))
               y5 == NextDigit(y4, c(5))
               y6 == NextDigit(y5, c(6))
    <2>4. /\ d(3) = -1 => y3 = -1
          /\ d(4) = -1 \/ y3 = -1 => y4 = -1
          /\ d(5) = -1 \/ y4 = -1 => y5 = -1
          /\ d(6) = -1 \/ y5 = -1 => y6 = -1
        BY Zenon DEF NextDigit
    <2> HIDE DEF c, d, y3, y4, y5, y6
    <2>5. y6 = -1
        BY <2>1, <2>3, <2>4
    <2>6. QED BY <2>2, <2>5 DEF y6, y5, y4, y3, c
<1>10. QED BY <1>8, <1>9

\* A text of which q bytes have been taken goes on with s.
Follows(b, s, q) ==
    /\ b \in Seq(Nat) /\ s \in Seq(Nat) /\ q \in Nat
    /\ \A k \in Nat \ {0} : CharAt(s, k) = CharAt(b, q + k)

(* The bytes of a text and the end of it.                                  *)
LEMMA CharFacts ==
    ASSUME NEW s \in Seq(Nat)
    PROVE  /\ \A k \in Nat : CharAt(s, k) \in Int /\ CharAt(s, k) >= -1
           /\ \A k \in Nat : k \in 1..Len(s) <=> CharAt(s, k) # EOF
           /\ \A k \in 1..Len(s) : CharAt(s, k) = s[k]
           /\ s # <<>> => 1 \in 1..Len(s) /\ Head(s) = s[1]
           /\ s = <<>> <=> CharAt(s, 1) = EOF
<1> DEFINE n == Len(s)
<1>1. n \in Nat /\ DOMAIN s = 1..n /\ (s = <<>> <=> n = 0) /\ \A i \in 1..n : s[i] \in Nat
    BY LenProperties, EmptySeq, ElementOfSeq
<1>2. s # <<>> => Head(s) = s[1]
    OBVIOUS
<1> HIDE DEF n
<1>3. \A k \in Nat : CharAt(s, k) = IF k \in 1..n THEN s[k] ELSE EOF
    BY <1>1, Zenon DEF CharAt
<1>4. \A k \in 1..n : k \in Nat
    OBVIOUS
<1>5. EOF = -1
    BY DEF EOF
<1>6. \A k \in Nat : CharAt(s, k) \in Int /\ CharAt(s, k) >= -1
    BY <1>1, <1>3, <1>5
<1>7. \A k \in Nat : k \in 1..n <=> CharAt(s, k) # EOF
    BY <1>1, <1>3, <1>5
<1>8. 1 \in 1..n <=> n # 0
    BY <1>1
<1>9. 1 \in Nat
    OBVIOUS
<1>10. s = <<>> <=> CharAt(s, 1) = EOF
    BY <1>1, <1>7, <1>8, <1>9, Zenon
<1>11. \A k \in 1..n : CharAt(s, k) = s[k]
    BY <1>3, <1>4, Zenon
<1>12. QED BY <1>1, <1>2, <1>6, <1>7, <1>8, <1>10, <1>11 DEF n

(* Only an escape has a unit.                                              *)
LEMMA UnitNeeds ==
    ASSUME NEW t \in Seq(Nat), EscapedUnit(t) # -1
    PROVE  CharAt(t, 1) = Backslash /\ CharAt(t, 2) = \h75
<1>1. t \in Seq(Int)
    BY SeqMonotonic
<1>2. Len(t) >= 6 /\ t[1] = Backslash /\ t[2] = \h75
    BY <1>1, UnitFacts
<1>3. 1 \in 1..Len(t) /\ 2 \in 1..Len(t)
    <2> DEFINE n == Len(t)
    <2>1. n \in Nat /\ n >= 6
        BY <1>2, LenProperties
    <2> HIDE DEF n
    <2>2. 1 \in 1..n /\ 2 \in 1..n
        BY <2>1
    <2>3. QED BY <2>2 DEF n
<1>4. \A k \in 1..Len(t) : CharAt(t, k) = t[k]
    BY CharFacts
<1>5. CharAt(t, 1) = t[1] /\ CharAt(t, 2) = t[2]
    BY ONLY <1>3, <1>4
<1>6. QED BY <1>2, <1>5

\* So many of the four digits have been read.
Digited(b, l, q, r, x) ==
    /\ r[2] = x /\ x \in Int /\ x >= -1 /\ IsLexer(r[1])
    /\ x # -1 => Reads(b, r[1], q) /\ r[1].token_buffer = l.token_buffer

(* A digit more has been read, or the first that is none.                  *)
LEMMA DigitedOn ==
    ASSUME NEW b \in Seq(Nat), NEW l, NEW q \in Nat, NEW before, NEW x,
           Digited(b, l, q, before, x), NEW n \in 1..4, NEW r, r = CodepointTurn(l, before, n)
    PROVE  Digited(b, l, q + 1, r, NextDigit(x, CharAt(b, q + 1)))
<1> DEFINE g == get(before[1])
           c == CharAt(b, q + 1)
           y == NextDigit(x, c)
<1>1. before[2] = x /\ x \in Int /\ x >= -1 /\ IsLexer(before[1])
    BY DEF Digited
<1>2. c \in Int
    <2>1. q + 1 \in Nat
        OBVIOUS
    <2>2. QED BY <2>1, CharFacts
<1>3. y \in Int /\ y >= -1
    <2> HIDE DEF c
    <2>1. QED BY <1>1, <1>2, NextIsInt
<1>4. n # 0
    OBVIOUS
<1>5. CASE x = -1
    <2>1. r = before
        BY <1>1, <1>4, <1>5, Zenon DEF CodepointTurn
    <2>2. y = -1
        BY <1>5, Zenon DEF NextDigit
    <2> HIDE DEF y
    <2>3. Digited(b, l, q + 1, r, y)
        BY <1>1, <1>5, <2>1, <2>2 DEF Digited
    <2>4. QED BY <2>3 DEF y
<1>6. CASE x # -1
    <2>1. Reads(b, before[1], q) /\ before[1].token_buffer = l.token_buffer
        BY <1>6 DEF Digited
    <2>2. Reads(b, g, q + 1) /\ g.current = c /\ IsLexer(g) /\ g.token_buffer = l.token_buffer
        BY <2>1, ReadsGet
    <2>3. r = <<g, IF HexDigit(g.current) = -1 THEN -1 ELSE before[2] * 16 + HexDigit(g.current)>>
        BY <1>1, <1>4, <1>6, Zenon DEF CodepointTurn
    <2>4. r = <<g, y>>
        BY <1>1, <1>6, <2>2, <2>3, Zenon DEF NextDigit
    <2> HIDE DEF g, y
    <2>5. r[1] = g /\ r[2] = y
        BY <2>4
    <2>6. Digited(b, l, q + 1, r, y)
        BY <1>3, <2>2, <2>5, Zenon DEF Digited
    <2>7. QED BY <2>6 DEF y
<1>7. QED BY <1>5, <1>6

(* The four digits are the unit that is escaped.                           *)
LEMMA CodepointRead ==
    ASSUME NEW b, NEW s, NEW p, Follows(b, s, p), CharAt(s, 1) = Backslash, CharAt(s, 2) = \h75,
           NEW l, Reads(b, l, p + 2)
    PROVE  Digited(b, l, p + 6, get_codepoint(l), EscapedUnit(s))
<1>1. b \in Seq(Nat) /\ s \in Seq(Nat) /\ p \in Nat /\ \A k \in Nat \ {0} : CharAt(s, k) = CharAt(b, p + k)
    BY DEF Follows
<1>2. PICK after : /\ get_codepoint(l) = after[4]
                   /\ \A n \in 0..4 : after[n] = CodepointTurn(l, after[n - 1], n)
    BY ONLY CodepointTurns
<1> DEFINE c(k) == CharAt(b, p + k)
           x3 == NextDigit(0, c(3))
           x4 == NextDigit(x3, c(4))
           x5 == NextDigit(x4, c(5))
           x6 == NextDigit(x5, c(6))
<1>3. /\ after[0] = CodepointTurn(l, after[0 - 1], 0) /\ after[1] = CodepointTurn(l, after[0], 1)
      /\ after[2] = CodepointTurn(l, after[1], 2) /\ after[3] = CodepointTurn(l, after[2], 3)
      /\ after[4] = CodepointTurn(l, after[3], 4)
    <2>1. 0 \in 0..4 /\ 1 \in 0..4 /\ 2 \in 0..4 /\ 3 \in 0..4 /\ 4 \in 0..4
          /\ 1 - 1 = 0 /\ 2 - 1 = 1 /\ 3 - 1 = 2 /\ 4 - 1 = 3
        OBVIOUS
    <2>2. QED BY <1>2, <2>1
<1>4. Digited(b, l, p + 2, after[0], 0)
    <2>1. after[0] = <<l, 0>>
        BY <1>3, Zenon DEF CodepointTurn
    <2>2. after[0][1] = l /\ after[0][2] = 0
        BY <2>1
    <2>3. 0 \in Int /\ 0 >= -1 /\ IsLexer(l)
        BY DEF Reads
    <2>4. QED BY <2>2, <2>3, Zenon DEF Digited
<1>5. /\ p + 2 \in Nat /\ p + 3 \in Nat /\ p + 4 \in Nat /\ p + 5 \in Nat
      /\ p + 2 + 1 = p + 3 /\ p + 3 + 1 = p + 4 /\ p + 4 + 1 = p + 5 /\ p + 5 + 1 = p + 6
      /\ 1 \in 1..4 /\ 2 \in 1..4 /\ 3 \in 1..4 /\ 4 \in 1..4
    BY <1>1
<1> HIDE DEF x3, x4, x5, x6
<1>6. Digited(b, l, p + 3, after[1], x3)
    <2>1. Digited(b, l, p + 2 + 1, after[1], NextDigit(0, CharAt(b, p + 2 + 1)))
        BY ONLY <1>1, <1>3, <1>4, <1>5, DigitedOn
    <2>2. QED BY <1>5, <2>1 DEF x3
<1>7. Digited(b, l, p + 4, after[2], x4)
    <2>1. Digited(b, l, p + 3 + 1, after[2], NextDigit(x3, CharAt(b, p + 3 + 1)))
        BY ONLY <1>1, <1>3, <1>6, <1>5, DigitedOn
    <2>2. QED BY <1>5, <2>1 DEF x4
<1>8. Digited(b, l, p + 5, after[3], x5)
    <2>1. Digited(b, l, p + 4 + 1, after[3], NextDigit(x4, CharAt(b, p + 4 + 1)))
        BY ONLY <1>1, <1>3, <1>7, <1>5, DigitedOn
    <2>2. QED BY <1>5, <2>1 DEF x5
<1>9. Digited(b, l, p + 6, after[4], x6)
    <2>1. Digited(b, l, p + 5 + 1, after[4], NextDigit(x5, CharAt(b, p + 5 + 1)))
        BY ONLY <1>1, <1>3, <1>8, <1>5, DigitedOn
    <2>2. QED BY <1>5, <2>1 DEF x6
<1>10. x6 = EscapedUnit(s)
    <2>1. CharAt(s, 3) = c(3) /\ CharAt(s, 4) = c(4) /\ CharAt(s, 5) = c(5) /\ CharAt(s, 6) = c(6)
        <3>1. 3 \in Nat \ {0} /\ 4 \in Nat \ {0} /\ 5 \in Nat \ {0} /\ 6 \in Nat \ {0}
            OBVIOUS
        <3>2. QED BY <1>1, <3>1
    <2>2. s # <<>> /\ s[1] = Backslash
        <3>1. Backslash # EOF
            BY DEF Backslash, EOF
        <3>2. s # <<>>
            BY <1>1, <3>1, CharFacts
        <3>3. QED BY <1>1, <3>2, CharFacts
    <2>3. EscapedUnit(s) = NextDigit(NextDigit(NextDigit(NextDigit(0, CharAt(s, 3)),
                                CharAt(s, 4)), CharAt(s, 5)), CharAt(s, 6))
        BY <1>1, <2>2, UnitIsNext
    <2>4. QED BY <2>1, <2>3 DEF x3, x4, x5, x6
<1>11. QED BY <1>2, <1>9, <1>10

(* Which code units are surrogates, and which are code points.             *)
LEMMA UnitKinds ==
    ASSUME NEW x \in Int
    PROVE  /\ x \in HighSurrogates => x # -1 /\ x \notin LowSurrogates /\ ~IsScalar(x)
           /\ x \in LowSurrogates => x # -1 /\ x \notin HighSurrogates /\ ~IsScalar(x)
           /\ x = -1 => ~IsScalar(x)
           /\ x >= 0 /\ x <= 65535 => x \in HighSurrogates \/ x \in LowSurrogates \/ IsScalar(x)
<1>1. x \in HighSurrogates <=> x >= \hD800 /\ x <= \hDBFF
    BY SMT DEF HighSurrogates
<1>2. x \in LowSurrogates <=> x >= \hDC00 /\ x <= \hDFFF
    BY SMT DEF LowSurrogates
<1>3. x \in Surrogates <=> x >= \hD800 /\ x <= \hDFFF
    BY SMT DEF Surrogates
<1>4. IsScalar(x) <=> x >= 0 /\ x <= \h10FFFF /\ x \notin Surrogates
    BY SMT DEF IsScalar
<1>5. QED BY <1>1, <1>2, <1>3, <1>4, SMT

(* A pair is added as the code point that it stands for.                   *)
LEMMA AddPairIs ==
    ASSUME NEW l, NEW high, NEW low
    PROVE  /\ low \notin LowSurrogates => AddPair(l, high, low) = Fails(l)
           /\ high \in HighSurrogates /\ low \in LowSurrogates =>
                 AddPair(l, high, low) = AddCodepoint(l, CodePoint(high, low))
<1>1. low \notin LowSurrogates => AddPair(l, high, low) = Fails(l)
    BY SMT DEF AddPair
<1>2. ASSUME high \in HighSurrogates, low \in LowSurrogates
      PROVE  AddPair(l, high, low) = AddCodepoint(l, CodePoint(high, low))
    <2>1. AddPair(l, high, low) = AddCodepoint(l, high * 1024 + low - \h35FDC00)
        BY <1>2, SMT DEF AddPair
    <2>2. high \in Int /\ low \in Int
        BY <1>2, SMT DEF HighSurrogates, LowSurrogates
    <2>3. high * 1024 + low - \h35FDC00 = CodePoint(high, low)
        BY <2>2, SMT DEF CodePoint
    <2>4. QED BY <2>1, <2>3, SMT
<1>3. QED BY <1>1, <1>2

\* What a second escape makes of a high surrogate.
Paired(b, l, p, high, low, r) ==
    /\ low \notin LowSurrogates => Failed(r)
    /\ low \in LowSurrogates => Gains(b, l.token_buffer, p + 6, Utf8(CodePoint(high, low)), r)

(* The second escape of a pair is a low surrogate, or fails.               *)
LEMMA SecondRead ==
    ASSUME NEW b, NEW t, NEW p, Follows(b, t, p), NEW l, Reads(b, l, p),
           NEW high \in HighSurrogates
    PROVE  Paired(b, l, p, high, EscapedUnit(t), SecondEscape(l, high))
<1> DEFINE backslash == get(l)
           u == get(backslash)
           second == get_codepoint(u)
           low == EscapedUnit(t)
           r == SecondEscape(l, high)
           point == CodePoint(high, low)
<1>1. /\ b \in Seq(Nat) /\ t \in Seq(Nat) /\ p \in Nat
      /\ CharAt(t, 1) = CharAt(b, p + 1) /\ CharAt(t, 2) = CharAt(b, p + 2)
      /\ p + 1 + 1 = p + 2
    <2>1. b \in Seq(Nat) /\ t \in Seq(Nat) /\ p \in Nat
          /\ \A k \in Nat \ {0} : CharAt(t, k) = CharAt(b, p + k)
        BY DEF Follows
    <2>2. 1 \in Nat \ {0} /\ 2 \in Nat \ {0}
        OBVIOUS
    <2>3. QED BY <2>1, <2>2
<1>2. /\ Reads(b, backslash, p + 1) /\ backslash.current = CharAt(t, 1)
      /\ backslash.token_buffer = l.token_buffer /\ IsLexer(backslash)
    BY <1>1, ReadsGet
<1>3. /\ Reads(b, u, p + 2) /\ u.current = CharAt(t, 2)
      /\ u.token_buffer = l.token_buffer /\ IsLexer(u)
    <2> HIDE DEF backslash
    <2>1. Reads(b, u, p + 1 + 1) /\ u.current = CharAt(b, p + 1 + 1)
          /\ u.token_buffer = backslash.token_buffer /\ IsLexer(u)
        BY <1>2, ReadsGet
    <2>2. QED BY <1>1, <1>2, <2>1
<1>4. r = IF backslash.current # Backslash THEN Fails(backslash)
          ELSE IF u.current # \h75 THEN Fails(u)
          ELSE AddPair(second[1], high, second[2])
    BY Zenon DEF SecondEscape
<1>5. -1 \notin LowSurrogates
    BY NoSurrogate
<1> HIDE DEF backslash, u
<1>6. CASE CharAt(t, 1) # Backslash \/ CharAt(t, 2) # \h75
    <2>1. low = -1
        BY <1>1, <1>6, UnitNeeds
    <2>2. r = Fails(backslash) \/ r = Fails(u)
        BY <1>2, <1>3, <1>4, <1>6, Zenon
    <2>3. Failed(r)
        BY <1>2, <1>3, <2>2, FailsIsFailed
    <2> HIDE DEF low, r
    <2>4. QED BY <1>5, <2>1, <2>3, Zenon DEF low, r, Paired
<1>7. CASE CharAt(t, 1) = Backslash /\ CharAt(t, 2) = \h75
    <2>1. Digited(b, u, p + 6, second, low)
        BY <1>3, <1>7, CodepointRead
    <2>2. r = AddPair(second[1], high, second[2])
        BY <1>2, <1>3, <1>4, <1>7, Zenon
    <2>3. second[2] = low /\ IsLexer(second[1])
        BY <2>1 DEF Digited
    <2>4. CASE low \notin LowSurrogates
        <3>1. r = Fails(second[1])
            <4> HIDE DEF low, r, second
            <4>1. QED BY <2>2, <2>3, <2>4, AddPairIs
        <3>2. Failed(r)
            BY <2>3, <3>1, FailsIsFailed
        <3>3. QED BY <2>4, <3>2, Zenon DEF Paired
    <2>5. CASE low \in LowSurrogates
        <3>1. r = AddCodepoint(second[1], point)
            <4> HIDE DEF low, r, second
            <4>1. QED BY <2>2, <2>3, <2>5, AddPairIs
        <3>2. Reads(b, second[1], p + 6) /\ second[1].token_buffer = l.token_buffer
            BY <1>3, <1>5, <2>1, <2>5 DEF Digited
        <3> HIDE DEF second, point
        <3>3. Gains(b, second[1].token_buffer, p + 6, Utf8(point), AddCodepoint(second[1], point))
            BY ONLY <3>2, ReadsCodepoint
        <3>4. Gains(b, l.token_buffer, p + 6, Utf8(point), r)
            BY <3>1, <3>2, <3>3, Zenon
        <3>5. QED BY <2>5, <3>4, Zenon DEF point, Paired
    <2>6. QED BY <2>4, <2>5, Zenon
<1>8. QED BY <1>6, <1>7, Zenon

\* What is read of a character or an escape is what it means.
Steps(b, s, q, buf, r) ==
    \/ FirstOf(s) = Bad /\ Failed(r)
    \/ \E k, v, w : IsFirst(s, k, v) /\ SpellsOne(w, v) /\ Gains(b, buf, q + k, w, r)

(* What a string begins with, if it is not Bad.                            *)
LEMMA FirstIs ==
    ASSUME NEW s \in Seq(Nat), s # <<>>, NEW k, NEW v, FirstOf(s) = <<k, v>>
    PROVE  IsFirst(s, k, v)
<1>1. FirstOrBad(s)
    BY FirstKinds
<1>2. <<k, v>> # Bad
    BY PairIsNotBad
<1>3. PICK x, y : IsFirst(s, x, y)
    BY <1>1, <1>2, Zenon DEF FirstOrBad
<1>4. FirstOf(s) = <<x, y>>
    BY <1>3, Zenon DEF IsFirst
<1>5. x = k /\ y = v
    <2>1. <<x, y>> = <<k, v>>
        BY <1>4
    <2>2. QED BY <2>1
<1>6. QED BY <1>3, <1>5

(* The UTF-8 of a code point spells it.                                    *)
LEMMA SpellsScalar ==
    ASSUME NEW v, IsScalar(v)
    PROVE  SpellsOne(Utf8(v), v)
<1>1. v \in Nat
    BY SMT DEF IsScalar
<1>2. Utf8(v) \in Seq(Int)
    BY <1>1, Utf8Bytes
<1>3. \A y \in Seq(Int) : Scalars(Utf8(v) \o y) = Before(v, Scalars(y))
    BY Utf8Before
<1>4. QED BY <1>1, <1>2, <1>3, Zenon DEF SpellsOne

(* Bytes have been added that spell the code point meant.                  *)
LEMMA StepsTo ==
    ASSUME NEW b, NEW s \in Seq(Nat), s # <<>>, NEW q, NEW buf, NEW r, NEW k, NEW v, NEW w,
           FirstOf(s) = <<k, v>>, SpellsOne(w, v), Gains(b, buf, q + k, w, r)
    PROVE  Steps(b, s, q, buf, r)
<1>1. IsFirst(s, k, v)
    BY FirstIs
<1>2. QED BY <1>1, Zenon DEF Steps

(* An escape of code units is the code point that they are of.             *)
LEMMA UnicodeSteps ==
    ASSUME NEW b, NEW s, NEW q, Follows(b, s, q), CharAt(s, 1) = Backslash, CharAt(s, 2) = \h75,
           NEW l, Reads(b, l, q + 2)
    PROVE  Steps(b, s, q, l.token_buffer, UnicodeEscape(l))
<1> DEFINE first == get_codepoint(l)
           unit == EscapedUnit(s)
           rest == SubSeq(s, 7, Len(s))
           low == EscapedUnit(rest)
           r == UnicodeEscape(l)
           buf == l.token_buffer
<1>1. b \in Seq(Nat) /\ s \in Seq(Nat) /\ q \in Nat /\ \A k \in Nat \ {0} : CharAt(s, k) = CharAt(b, q + k)
    BY DEF Follows
<1>2. Digited(b, l, q + 6, first, unit)
    BY CodepointRead
<1>3. first[2] = unit /\ IsLexer(first[1]) /\ unit \in Int
      /\ (unit # -1 => Reads(b, first[1], q + 6) /\ first[1].token_buffer = buf)
    BY <1>2 DEF Digited
<1>4. s # <<>> /\ Head(s) = Backslash
    <2>1. Backslash # EOF
        BY DEF Backslash, EOF
    <2>2. s # <<>>
        BY <1>1, <2>1, CharFacts
    <2>3. 1 \in 1..Len(s) /\ Head(s) = s[1] /\ CharAt(s, 1) = s[1]
        BY <1>1, <2>2, CharFacts
    <2>4. QED BY <2>2, <2>3
<1>5. ~(Len(s) > 1 /\ s[2] \in DOMAIN SimpleEscapes)
    <2>1. SUFFICES ASSUME Len(s) > 1 PROVE s[2] = \h75
        BY SimpleFacts
    <2>2. 2 \in 1..Len(s)
        <3> DEFINE n == Len(s)
        <3>1. n \in Nat /\ n > 1
            BY <1>1, <2>1, LenProperties
        <3> HIDE DEF n
        <3>2. 2 \in 1..n
            BY <3>1
        <3>3. QED BY <3>2 DEF n
    <2>3. s[2] = CharAt(s, 2)
        <3>1. \A k \in 1..Len(s) : CharAt(s, k) = s[k]
            BY <1>1, CharFacts
        <3>2. QED BY ONLY <2>2, <3>1
    <2>4. QED BY <2>3
<1>6. FirstOf(s) = IF IsScalar(unit) THEN <<6, unit>>
                   ELSE IF unit \in HighSurrogates /\ low \in LowSurrogates
                   THEN <<12, CodePoint(unit, low)>> ELSE Bad
    BY <1>4, <1>5, Zenon DEF FirstOf
<1>7. r = IF first[2] = -1 \/ first[2] \in LowSurrogates THEN Fails(first[1])
          ELSE IF first[2] \in HighSurrogates THEN SecondEscape(first[1], first[2])
          ELSE AddCodepoint(first[1], first[2])
    BY Zenon DEF UnicodeEscape
<1>8. unit # -1 => unit >= 0 /\ unit <= 65535 /\ Len(s) >= 6
    <2>1. s \in Seq(Int)
        BY <1>1, SeqMonotonic
    <2>2. QED BY <2>1, UnitFacts, SMT DEF unit
<1> HIDE DEF first, unit, low, r, buf
<1>9. /\ unit \in HighSurrogates => unit # -1 /\ unit \notin LowSurrogates /\ ~IsScalar(unit)
      /\ unit \in LowSurrogates => unit # -1 /\ unit \notin HighSurrogates /\ ~IsScalar(unit)
      /\ unit = -1 => ~IsScalar(unit) /\ unit \notin HighSurrogates
      /\ unit >= 0 /\ unit <= 65535 =>
            unit \in HighSurrogates \/ unit \in LowSurrogates \/ IsScalar(unit)
    BY <1>3, UnitKinds, SMT
<1>10. CASE unit = -1 \/ unit \in LowSurrogates
    <2>1. r = Fails(first[1])
        BY <1>3, <1>7, <1>10, Zenon
    <2>2. Failed(r)
        BY <1>3, <2>1, FailsIsFailed
    <2>3. FirstOf(s) = Bad
        <3>1. ~IsScalar(unit) /\ unit \notin HighSurrogates
            BY <1>9, <1>10, SMT
        <3>2. QED BY <1>6, <3>1, Zenon
    <2>4. QED BY <2>2, <2>3, Zenon DEF Steps, r
<1>11. CASE unit \in HighSurrogates
    <2>1. unit # -1 /\ unit \notin LowSurrogates /\ ~IsScalar(unit)
        BY <1>9, <1>11, SMT
    <2>2. r = SecondEscape(first[1], unit)
        BY <1>3, <1>7, <1>11, <2>1, Zenon
    <2>3. Follows(b, rest, q + 6)
        <3> DEFINE n == Len(s)
        <3>1. n \in Nat /\ n >= 6
            BY <1>1, <1>8, <2>1, LenProperties
        <3> HIDE DEF n
        <3>2. 7 \in 1..(n + 1)
            BY <3>1
        <3>3. rest \in Seq(Nat) /\ \A k \in Nat \ {0} : CharAt(rest, k) = CharAt(s, 7 - 1 + k)
            BY <1>1, <3>2, PlacesFrom DEF n
        <3> HIDE DEF rest
        <3>4. ASSUME NEW k \in Nat \ {0} PROVE CharAt(rest, k) = CharAt(b, q + 6 + k)
            <4>1. 7 - 1 + k \in Nat \ {0} /\ q + (7 - 1 + k) = q + 6 + k
                BY <1>1
            <4>2. CharAt(s, 7 - 1 + k) = CharAt(b, q + (7 - 1 + k))
                BY <1>1, <4>1
            <4>3. QED BY <3>3, <4>1, <4>2
        <3>5. q + 6 \in Nat
            BY <1>1
        <3>6. QED BY <1>1, <3>3, <3>4, <3>5 DEF Follows
    <2>4. Reads(b, first[1], q + 6) /\ first[1].token_buffer = buf
        BY <1>3, <2>1
    <2> DEFINE point == CodePoint(unit, low)
    <2>5. /\ low \notin LowSurrogates => Failed(r)
          /\ low \in LowSurrogates => Gains(b, first[1].token_buffer, q + 6 + 6, Utf8(point), r)
        <3> HIDE DEF rest
        <3>1. Paired(b, first[1], q + 6, unit, EscapedUnit(rest), SecondEscape(first[1], unit))
            BY ONLY <1>11, <2>3, <2>4, SecondRead
        <3>2. QED BY <2>2, <3>1, Zenon DEF low, Paired
    <2>6. CASE low \notin LowSurrogates
        <3>1. FirstOf(s) = Bad
            BY <1>6, <2>1, <2>6, Zenon
        <3>2. QED BY <2>5, <2>6, <3>1 DEF Steps, r
    <2>7. CASE low \in LowSurrogates
        <3>1. FirstOf(s) = <<12, CodePoint(unit, low)>>
            BY <1>6, <1>11, <2>1, <2>7, Zenon
        <3>2. point = CodePoint(unit, low)
            OBVIOUS
        <3>3. IsScalar(point)
            BY <1>11, <2>7, <3>2, PairOfSurrogates
        <3> HIDE DEF point
        <3>4. SpellsOne(Utf8(point), point)
            BY <3>3, SpellsScalar
        <3>5. q + 6 + 6 = q + 12
            BY <1>1
        <3>6. Gains(b, buf, q + 12, Utf8(point), r)
            BY <2>4, <2>5, <2>7, <3>5, SMT
        <3>7. FirstOf(s) = <<12, point>>
            BY <3>1, <3>2
        <3>8. Steps(b, s, q, buf, r)
            BY ONLY <1>1, <1>4, <3>4, <3>6, <3>7, StepsTo
        <3>9. QED BY <3>8, Zenon DEF r, buf
    <2>8. QED BY <2>6, <2>7
<1>12. CASE unit # -1 /\ unit \notin LowSurrogates /\ unit \notin HighSurrogates
    <2>1. IsScalar(unit)
        BY <1>8, <1>9, <1>12, SMT
    <2>2. r = AddCodepoint(first[1], unit)
        BY <1>3, <1>7, <1>12, Zenon
    <2>3. Reads(b, first[1], q + 6) /\ first[1].token_buffer = buf
        BY <1>3, <1>12
    <2>4. Gains(b, buf, q + 6, Utf8(unit), r)
        <3>1. Gains(b, first[1].token_buffer, q + 6, Utf8(unit), AddCodepoint(first[1], unit))
            BY ONLY <2>3, ReadsCodepoint
        <3>2. QED BY <2>2, <2>3, <3>1, Zenon
    <2>5. FirstOf(s) = <<6, unit>>
        BY <1>6, <2>1, Zenon
    <2>6. SpellsOne(Utf8(unit), unit)
        BY <2>1, SpellsScalar
    <2>7. Steps(b, s, q, buf, r)
        BY ONLY <1>1, <1>4, <2>4, <2>5, <2>6, StepsTo
    <2>8. QED BY <2>7, Zenon DEF r, buf
<1>13. QED BY <1>10, <1>11, <1>12, Zenon

(* The code points, as bounds.                                             *)
LEMMA ScalarBounds ==
    ASSUME NEW x \in Int
    PROVE  IsScalar(x) <=> x >= 0 /\ x <= \h10FFFF /\ ~(x >= \hD800 /\ x <= \hDFFF)
<1>1. x \in Surrogates <=> x >= \hD800 /\ x <= \hDFFF
    BY SMT DEF Surrogates
<1>2. QED BY <1>1, SMT DEF IsScalar

(* The bytes that continue a character, as bounds.                         *)
LEMMA ContinuationBounds ==
    ASSUME NEW x \in Int
    PROVE  x \in Continuation <=> x >= \h80 /\ x <= \hBF
    BY SMT DEF Continuation

(* How long a character is, by the bytes that continue it.                 *)
LEMMA LengthIs ==
    ASSUME NEW s \in Seq(Nat), s # <<>>, NEW n \in 1..4, n = Utf8Length(s[1])
    PROVE  /\ (\A i \in 2..n : CharAt(s, i) \in Continuation) => \A i \in 2..n : s[i] = CharAt(s, i)
           /\ CharacterLength(s) =
                IF /\ \A i \in 2..n : CharAt(s, i) \in Continuation
                   /\ Payload(s, n) >= Shortest(n) /\ IsScalar(Payload(s, n))
                THEN n ELSE 0
<1> DEFINE m == Len(s)
<1>1. /\ \A i \in Nat : i \in 1..m <=> CharAt(s, i) # EOF
      /\ \A i \in 1..m : CharAt(s, i) = s[i]
      /\ Head(s) = s[1] /\ 1 \in 1..m /\ m \in Nat
    BY CharFacts, LenProperties
<1>2. EOF \notin Continuation
    BY DEF EOF, Continuation
<1>3. \A i \in 2..n : i \in Nat
    OBVIOUS
<1>4. ASSUME \A i \in 2..n : CharAt(s, i) \in Continuation
      PROVE  /\ \A i \in 2..n : s[i] = CharAt(s, i)
             /\ n \in 1..m
    <2>1. \A i \in 2..n : i \in 1..m
        BY <1>1, <1>2, <1>3, <1>4
    <2>2. \A i \in 2..n : s[i] = CharAt(s, i)
        BY <1>1, <2>1
    <2>3. n = 1 \/ n \in 2..n
        OBVIOUS
    <2>4. n \in 1..m
        BY <1>1, <2>1, <2>3
    <2>5. QED BY <2>2, <2>4
<1>5. ASSUME n \in 1..m, \A i \in 2..n : s[i] \in Continuation
      PROVE  \A i \in 2..n : CharAt(s, i) \in Continuation
    <2>1. \A i \in 2..n : i \in 1..m
        <3> HIDE DEF m
        <3>1. QED BY <1>1, <1>5
    <2>2. QED BY <1>1, <1>5, <2>1
<1>6. CharacterLength(s) =
        IF /\ n \in 1..m /\ \A i \in 2..n : s[i] \in Continuation
           /\ Payload(s, n) >= Shortest(n) /\ IsScalar(Payload(s, n))
        THEN n ELSE 0
    BY <1>1, Zenon DEF CharacterLength, Continuation
<1>7. (\A i \in 2..n : CharAt(s, i) \in Continuation) <=> n \in 1..m /\ \A i \in 2..n : s[i] \in Continuation
    <2>1. ASSUME \A i \in 2..n : CharAt(s, i) \in Continuation
          PROVE  n \in 1..m /\ \A i \in 2..n : s[i] \in Continuation
        <3>1. \A i \in 2..n : s[i] = CharAt(s, i)
            BY <1>4, <2>1
        <3>2. \A i \in 2..n : s[i] \in Continuation
            BY <2>1, <3>1, Zenon
        <3>3. QED BY <1>4, <2>1, <3>2
    <2>2. QED BY <1>5, <2>1
<1> HIDE DEF m
<1>8. QED BY <1>4, <1>6, <1>7, Zenon

(* The payload of a byte that continues a character.                       *)
LEMMA LowBits ==
    ASSUME NEW x \in Int, x >= 128, x <= 191
    PROVE  x % 64 = x - 128
    OBVIOUS

(* The characters of two bytes: none could be shorter.                     *)
LEMMA TwoLong ==
    ASSUME NEW s \in Seq(Nat), s # <<>>, s[1] >= \hC0, s[1] <= \hDF
    PROVE  CharacterLength(s) = IF CharAt(s, 2) \in Continuation /\ s[1] >= \hC2 THEN 2 ELSE 0
<1> DEFINE c == s[1]
           x == CharAt(s, 2)
           p == Payload(s, 2)
<1>1. c \in Int /\ x \in Int
    <2>1. 1 \in 1..Len(s) /\ \A k \in Nat : CharAt(s, k) \in Int
        BY CharFacts
    <2>2. c \in Nat
        BY <2>1, ElementOfSeq
    <2>3. 2 \in Nat
        OBVIOUS
    <2>4. QED BY <2>1, <2>2, <2>3
<1>2. 2 = Utf8Length(s[1]) /\ 2 \in 1..4 /\ 2..2 = {2}
    <2>1. Utf8Length(c) = 2
        <3>1. c >= \hC0 /\ c <= \hDF
            OBVIOUS
        <3> HIDE DEF c
        <3>2. c \in \hC0..\hDF /\ ~(c < \h80) /\ c \notin \hE0..\hEF /\ c \notin \hF0..\hF7
            BY <1>1, <3>1, SMT
        <3>3. QED BY <3>2, SMTT(30) DEF Utf8Length
    <2>2. QED BY <2>1
<1>3. /\ x \in Continuation => s[2] = x
      /\ CharacterLength(s) = IF x \in Continuation /\ p >= Shortest(2) /\ IsScalar(p) THEN 2 ELSE 0
    <2>1. /\ (\A i \in 2..2 : CharAt(s, i) \in Continuation) => \A i \in 2..2 : s[i] = CharAt(s, i)
          /\ CharacterLength(s) =
                IF /\ \A i \in 2..2 : CharAt(s, i) \in Continuation
                   /\ Payload(s, 2) >= Shortest(2) /\ IsScalar(Payload(s, 2))
                THEN 2 ELSE 0
        BY <1>2, LengthIs
    <2>2. (\A i \in 2..2 : CharAt(s, i) \in Continuation) <=> x \in Continuation
        BY <1>2, Zenon
    <2>3. (\A i \in 2..2 : s[i] = CharAt(s, i)) => s[2] = x
        BY <1>2, Zenon
    <2> HIDE DEF x
    <2>4. QED BY <2>1, <2>2, <2>3, Zenon
<1>4. x \in Continuation => p = (c - 192) * 64 + (x - 128)
    <2>1. SUFFICES ASSUME x \in Continuation PROVE p = (c - 192) * 64 + (x - 128)
        OBVIOUS
    <2>2. p = (c % 32) * 64 + (s[2] % 64)
        BY DEF Payload
    <2>3. x >= 128 /\ x <= 191 /\ s[2] = x
        BY <1>1, <1>3, <2>1, ContinuationBounds
    <2>4. c >= 192 /\ c <= 223
        OBVIOUS
    <2> HIDE DEF c, x, p
    <2>5. c % 32 = c - 192 /\ x % 64 = x - 128
        BY <1>1, <2>3, <2>4
    <2>6. QED BY <2>2, <2>3, <2>5
<1>5. Shortest(2) = 128
    BY DEF Shortest
<1>6. c >= 192 /\ c <= 223 /\ (x \in Continuation => x >= 128 /\ x <= 191)
    BY <1>1, ContinuationBounds
<1> HIDE DEF c, x, p
<1>7. x \in Continuation => (p >= 128 <=> c >= \hC2) /\ p \in Int /\ p >= 0 /\ p <= 2047
    BY <1>1, <1>4, <1>6
<1>8. x \in Continuation => IsScalar(p)
    BY <1>7, ScalarBounds
<1>9. QED BY <1>3, <1>5, <1>7, <1>8 DEF c, x

(* The characters of three bytes: none could be shorter or is a surrogate. *)
LEMMA ThreeLong ==
    ASSUME NEW s \in Seq(Nat), s # <<>>, s[1] >= \hE0, s[1] <= \hEF
    PROVE  CharacterLength(s) =
             IF /\ CharAt(s, 2) \in Continuation /\ CharAt(s, 3) \in Continuation
                /\ s[1] = \hE0 => CharAt(s, 2) >= \hA0
                /\ s[1] = \hED => CharAt(s, 2) <= \h9F
             THEN 3 ELSE 0
<1> DEFINE c == s[1]
           x == CharAt(s, 2)
           y == CharAt(s, 3)
           p == Payload(s, 3)
           Both == x \in Continuation /\ y \in Continuation
<1>1. c \in Int /\ x \in Int /\ y \in Int
    <2>1. 1 \in 1..Len(s) /\ \A k \in Nat : CharAt(s, k) \in Int
        BY CharFacts
    <2>2. c \in Nat
        BY <2>1, ElementOfSeq
    <2>3. 2 \in Nat /\ 3 \in Nat
        OBVIOUS
    <2>4. QED BY <2>1, <2>2, <2>3
<1>2. 3 = Utf8Length(s[1]) /\ 3 \in 1..4 /\ 2..3 = {2, 3}
    <2>1. Utf8Length(c) = 3
        <3>1. c >= \hE0 /\ c <= \hEF
            OBVIOUS
        <3> HIDE DEF c
        <3>2. c \in \hE0..\hEF /\ ~(c < \h80) /\ c \notin \hC0..\hDF /\ c \notin \hF0..\hF7
            BY <1>1, <3>1, SMT
        <3>3. QED BY <3>2, SMTT(30) DEF Utf8Length
    <2>2. QED BY <2>1
<1>3. /\ Both => s[2] = x /\ s[3] = y
      /\ CharacterLength(s) = IF Both /\ p >= Shortest(3) /\ IsScalar(p) THEN 3 ELSE 0
    <2>1. /\ (\A i \in 2..3 : CharAt(s, i) \in Continuation) => \A i \in 2..3 : s[i] = CharAt(s, i)
          /\ CharacterLength(s) =
                IF /\ \A i \in 2..3 : CharAt(s, i) \in Continuation
                   /\ Payload(s, 3) >= Shortest(3) /\ IsScalar(Payload(s, 3))
                THEN 3 ELSE 0
        BY <1>2, LengthIs
    <2>2. (\A i \in 2..3 : CharAt(s, i) \in Continuation) <=> Both
        BY <1>2, Zenon
    <2>3. (\A i \in 2..3 : s[i] = CharAt(s, i)) => s[2] = x /\ s[3] = y
        BY <1>2, Zenon
    <2> HIDE DEF x, y
    <2>4. QED BY <2>1, <2>2, <2>3, Zenon
<1>4. Both => p = (c - 224) * 4096 + (x - 128) * 64 + (y - 128)
    <2>1. SUFFICES ASSUME Both PROVE p = (c - 224) * 4096 + (x - 128) * 64 + (y - 128)
        OBVIOUS
    <2>2. p = (c % 16) * 4096 + (s[2] % 64) * 64 + (s[3] % 64)
        BY DEF Payload
    <2>3. x >= 128 /\ x <= 191 /\ s[2] = x /\ y >= 128 /\ y <= 191 /\ s[3] = y
        BY <1>1, <1>3, <2>1, ContinuationBounds
    <2>4. c >= 224 /\ c <= 239
        OBVIOUS
    <2> HIDE DEF c, x, y, p
    <2>5. c % 16 = c - 224 /\ x % 64 = x - 128 /\ y % 64 = y - 128
        BY <1>1, <2>3, <2>4
    <2>6. QED BY <2>2, <2>3, <2>5
<1>5. Shortest(3) = 2048
    BY DEF Shortest
<1>6. c >= 224 /\ c <= 239 /\ (Both => x >= 128 /\ x <= 191 /\ y >= 128 /\ y <= 191)
    BY <1>1, ContinuationBounds
<1> HIDE DEF c, x, y, p, Both
<1>7. ASSUME Both
      PROVE  /\ p >= 2048 <=> (c = 224 => x >= 160)
             /\ p \in Int /\ p >= 0 /\ p <= 65535
             /\ (p >= \hD800 /\ p <= \hDFFF) <=> (c = 237 /\ x >= 160)
    <2>1. p \in Int /\ p >= 0 /\ p <= 65535
        BY <1>1, <1>4, <1>6, <1>7, SMT
    <2>2. p >= 2048 <=> (c = 224 => x >= 160)
        BY <1>1, <1>4, <1>6, <1>7, SMT
    <2>3. (p >= \hD800 /\ p <= \hDFFF) <=> (c = 237 /\ x >= 160)
        BY <1>1, <1>4, <1>6, <1>7, SMT
    <2>4. QED BY <2>1, <2>2, <2>3, SMT
<1>8. Both => (IsScalar(p) <=> (c = 237 => x <= 159))
    BY <1>1, <1>7, ScalarBounds, SMT
<1>9. CharacterLength(s) = IF Both /\ (c = 224 => x >= 160) /\ (c = 237 => x <= 159) THEN 3 ELSE 0
    BY <1>3, <1>5, <1>7, <1>8, SMT
<1>10. QED BY <1>9 DEF c, x, y, Both

(* The characters of four bytes: none could be shorter or is too large.    *)
LEMMA FourLong ==
    ASSUME NEW s \in Seq(Nat), s # <<>>, s[1] >= \hF0, s[1] <= \hF7
    PROVE  CharacterLength(s) =
             IF /\ CharAt(s, 2) \in Continuation /\ CharAt(s, 3) \in Continuation
                /\ CharAt(s, 4) \in Continuation /\ s[1] <= \hF4
                /\ s[1] = \hF0 => CharAt(s, 2) >= \h90
                /\ s[1] = \hF4 => CharAt(s, 2) <= \h8F
             THEN 4 ELSE 0
<1> DEFINE c == s[1]
           x == CharAt(s, 2)
           y == CharAt(s, 3)
           z == CharAt(s, 4)
           p == Payload(s, 4)
           Rest == x \in Continuation /\ y \in Continuation /\ z \in Continuation
<1>1. c \in Int /\ x \in Int /\ y \in Int /\ z \in Int
    <2>1. 1 \in 1..Len(s) /\ \A k \in Nat : CharAt(s, k) \in Int
        BY CharFacts
    <2>2. c \in Nat
        BY <2>1, ElementOfSeq
    <2>3. 2 \in Nat /\ 3 \in Nat /\ 4 \in Nat
        OBVIOUS
    <2>4. QED BY <2>1, <2>2, <2>3
<1>2. 4 = Utf8Length(s[1]) /\ 4 \in 1..4 /\ 2..4 = {2, 3, 4}
    <2>1. Utf8Length(c) = 4
        <3>1. c >= \hF0 /\ c <= \hF7
            OBVIOUS
        <3> HIDE DEF c
        <3>2. c \in \hF0..\hF7
            BY <1>1, <3>1
        <3>3. ~(c < \h80)
            BY <1>1, <3>1
        <3>4. c \notin \hC0..\hDF
            BY <1>1, <3>1
        <3>5. c \notin \hE0..\hEF
            BY <1>1, <3>1
        <3>6. QED BY <3>2, <3>3, <3>4, <3>5, SMTT(30) DEF Utf8Length
    <2>2. QED BY <2>1
<1>3. /\ Rest => s[2] = x /\ s[3] = y /\ s[4] = z
      /\ CharacterLength(s) = IF Rest /\ p >= Shortest(4) /\ IsScalar(p) THEN 4 ELSE 0
    <2>1. /\ (\A i \in 2..4 : CharAt(s, i) \in Continuation) => \A i \in 2..4 : s[i] = CharAt(s, i)
          /\ CharacterLength(s) =
                IF /\ \A i \in 2..4 : CharAt(s, i) \in Continuation
                   /\ Payload(s, 4) >= Shortest(4) /\ IsScalar(Payload(s, 4))
                THEN 4 ELSE 0
        BY <1>2, LengthIs
    <2>2. (\A i \in 2..4 : CharAt(s, i) \in Continuation) <=> Rest
        BY <1>2, Zenon
    <2>3. (\A i \in 2..4 : s[i] = CharAt(s, i)) => s[2] = x /\ s[3] = y /\ s[4] = z
        BY <1>2, Zenon
    <2> HIDE DEF x, y, z
    <2>4. QED BY <2>1, <2>2, <2>3, Zenon
<1>4. Rest => p = (c - 240) * 262144 + (x - 128) * 4096 + (y - 128) * 64 + (z - 128)
    <2>1. SUFFICES ASSUME Rest
                   PROVE  p = (c - 240) * 262144 + (x - 128) * 4096 + (y - 128) * 64 + (z - 128)
        BY SMT
    <2>2. p = (c % 8) * 262144 + (s[2] % 64) * 4096 + (s[3] % 64) * 64 + (s[4] % 64)
        BY SMT DEF Payload
    <2>3. /\ x >= 128 /\ x <= 191 /\ s[2] = x /\ y >= 128 /\ y <= 191 /\ s[3] = y
          /\ z >= 128 /\ z <= 191 /\ s[4] = z
        BY <1>1, <1>3, <2>1, ContinuationBounds
    <2>4. c >= 240 /\ c <= 247
        OBVIOUS
    <2> HIDE DEF c, x, y, z, p
    <2>5. c % 8 = c - 240
        BY <1>1, <2>4
    <2>6. x % 64 = x - 128 /\ y % 64 = y - 128 /\ z % 64 = z - 128
        BY <1>1, <2>3, LowBits
    <2>7. QED BY <2>2, <2>3, <2>5, <2>6, SMT
<1>5. Shortest(4) = 65536
    BY SMT DEF Shortest
<1>6. c >= 240 /\ c <= 247 /\ (Rest => /\ x >= 128 /\ x <= 191 /\ y >= 128 /\ y <= 191
                                       /\ z >= 128 /\ z <= 191)
    BY <1>1, ContinuationBounds
<1> HIDE DEF c, x, y, z, p, Rest
<1>7. ASSUME Rest
      PROVE  /\ p >= 65536 <=> (c = 240 => x >= 144)
             /\ p \in Int /\ p >= 0
             /\ p <= \h10FFFF <=> (c <= 244 /\ (c = 244 => x <= 143))
    <2>1. p \in Int /\ p >= 0
        BY <1>1, <1>4, <1>6, <1>7, SMT
    <2>2. p >= 65536 <=> (c = 240 => x >= 144)
        BY <1>1, <1>4, <1>6, <1>7, SMT
    <2>3. p <= \h10FFFF <=> (c <= 244 /\ (c = 244 => x <= 143))
        BY <1>1, <1>4, <1>6, <1>7, SMT
    <2>4. QED BY <2>1, <2>2, <2>3, SMT
<1>8. Rest => (p >= 65536 /\ IsScalar(p) <=>
                 (c = 240 => x >= 144) /\ c <= 244 /\ (c = 244 => x <= 143))
    BY <1>1, <1>7, ScalarBounds, SMT
<1>9. CharacterLength(s) =
        IF Rest /\ c <= 244 /\ (c = 240 => x >= 144) /\ (c = 244 => x <= 143) THEN 4 ELSE 0
    BY <1>3, <1>5, <1>8, SMT
<1>10. QED BY <1>9 DEF c, x, y, z, Rest

\* The range of the byte that follows a lead byte.
SecondRange(c) ==
    IF c = \hE0 THEN \hA0..\hBF ELSE IF c = \hED THEN \h80..\h9F
    ELSE IF c = \hF0 THEN \h90..\hBF ELSE IF c = \hF4 THEN \h80..\h8F ELSE Continuation

(* The range of the second byte, as bounds.                                *)
LEMMA SecondIs ==
    ASSUME NEW c \in Nat, NEW x \in Int
    PROVE  x \in SecondRange(c) <=>
             /\ x \in Continuation
             /\ c = \hE0 => x >= \hA0
             /\ c = \hED => x <= \h9F
             /\ c = \hF0 => x >= \h90
             /\ c = \hF4 => x <= \h8F
<1>1. CASE c = \hE0
    BY <1>1, SMT DEF SecondRange, Continuation
<1>2. CASE c = \hED
    BY <1>2, SMT DEF SecondRange, Continuation
<1>3. CASE c = \hF0
    BY <1>3, SMT DEF SecondRange, Continuation
<1>4. CASE c = \hF4
    BY <1>4, SMT DEF SecondRange, Continuation
<1>5. CASE c # \hE0 /\ c # \hED /\ c # \hF0 /\ c # \hF4
    BY <1>5 DEF SecondRange
<1>6. QED BY <1>1, <1>2, <1>3, <1>4, <1>5

(* The table of ranges, by the lead byte.                                  *)
LEMMA RangesAre ==
    ASSUME NEW c \in Nat, c >= \hC2, c <= \hF4
    PROVE  /\ c \in DOMAIN Utf8Ranges
           /\ c <= \hDF => Utf8Ranges[c] = <<SecondRange(c)>>
           /\ c >= \hE0 /\ c <= \hEF => Utf8Ranges[c] = <<SecondRange(c), Continuation>>
           /\ c >= \hF0 => Utf8Ranges[c] = <<SecondRange(c), Continuation, Continuation>>
<1>1. c \in \hC2..\hF4 /\ c \in DOMAIN Utf8Ranges
    <2>1. c \in \hC2..\hF4
        OBVIOUS
    <2>2. DOMAIN Utf8Ranges = \hC2..\hF4
        BY DEF Utf8Ranges
    <2>3. QED BY <2>1, <2>2
<1>2. CASE c <= \hDF
    <2>1. c # \hE0 /\ c # \hED /\ c # \hF0 /\ c # \hF4 /\ c \notin \hF1..\hF3
        BY <1>2
    <2>2. Utf8Ranges[c] = <<Continuation>>
        BY <1>1, <1>2, <2>1, SMTT(30) DEF Utf8Ranges
    <2>3. SecondRange(c) = Continuation
        BY <2>1 DEF SecondRange
    <2>4. ~(c >= \hE0) /\ ~(c >= \hF0)
        BY <1>2
    <2>5. QED BY <1>1, <2>2, <2>3, <2>4, Zenon
<1>3. CASE c = \hE0
    <2>1. Utf8Ranges[c] = <<\hA0..\hBF, Continuation>>
        BY <1>1, <1>3 DEF Utf8Ranges
    <2>2. SecondRange(c) = \hA0..\hBF
        BY <1>3 DEF SecondRange
    <2>3. ~(c <= \hDF) /\ ~(c >= \hF0)
        BY <1>3
    <2>4. QED BY <1>1, <2>1, <2>2, <2>3
<1>4. CASE c = \hED
    <2>1. Utf8Ranges[c] = <<\h80..\h9F, Continuation>>
        BY <1>1, <1>4 DEF Utf8Ranges
    <2>2. SecondRange(c) = \h80..\h9F
        <3>1. c # \hE0
            BY <1>4
        <3>2. QED BY <1>4, <3>1 DEF SecondRange
    <2>3. ~(c <= \hDF) /\ ~(c >= \hF0)
        BY <1>4
    <2>4. QED BY <1>1, <2>1, <2>2, <2>3
<1>5. CASE c = \hF0
    <2>1. Utf8Ranges[c] = <<\h90..\hBF, Continuation, Continuation>>
        BY <1>1, <1>5 DEF Utf8Ranges
    <2>2. SecondRange(c) = \h90..\hBF
        <3>1. c # \hE0 /\ c # \hED
            BY <1>5
        <3>2. QED BY <1>5, <3>1 DEF SecondRange
    <2>3. ~(c <= \hDF) /\ ~(c <= \hEF)
        BY <1>5
    <2>4. QED BY <1>1, <2>1, <2>2, <2>3
<1>6. CASE c = \hF4
    <2>1. Utf8Ranges[c] = <<\h80..\h8F, Continuation, Continuation>>
        BY <1>1, <1>6 DEF Utf8Ranges
    <2>2. SecondRange(c) = \h80..\h8F
        <3>1. c # \hE0 /\ c # \hED /\ c # \hF0
            BY <1>6
        <3>2. QED BY <1>6, <3>1 DEF SecondRange
    <2>3. ~(c <= \hDF) /\ ~(c <= \hEF)
        BY <1>6
    <2>4. QED BY <1>1, <2>1, <2>2, <2>3
<1>7. CASE c >= \hF1 /\ c <= \hF3
    <2>1. ~(c <= \hDF) /\ c # \hE0 /\ c # \hED /\ c # \hF0 /\ c # \hF4 /\ c \in \hF1..\hF3 /\ ~(c <= \hEF)
        BY <1>7
    <2>2. Utf8Ranges[c] = <<Continuation, Continuation, Continuation>>
        BY <1>1, <2>1, SMTT(30) DEF Utf8Ranges
    <2>3. SecondRange(c) = Continuation
        BY <2>1 DEF SecondRange
    <2>4. QED BY <1>1, <2>1, <2>2, <2>3
<1>8. CASE ~(c <= \hDF) /\ c \notin {\hE0, \hED, \hF0, \hF4} /\ c <= \hEF
    <2>1. c # \hE0 /\ c # \hED /\ c # \hF0 /\ c # \hF4 /\ c \notin \hF1..\hF3 /\ ~(c >= \hF0)
        BY <1>8
    <2>2. Utf8Ranges[c] = <<Continuation, Continuation>>
        BY <1>1, <1>8, <2>1, SMTT(30) DEF Utf8Ranges
    <2>3. SecondRange(c) = Continuation
        BY <2>1 DEF SecondRange
    <2>4. QED BY <1>1, <1>8, <2>1, <2>2, <2>3, Zenon
<1>9. QED BY <1>2, <1>3, <1>4, <1>5, <1>6, <1>7, <1>8

\* What follows a lead byte is in these ranges.
InRanges(s, ranges) == \A n \in 1..Len(ranges) : CharAt(s, n + 1) \in ranges[n]

(* The ranges of one, two and three bytes.                                 *)
LEMMA InEach ==
    ASSUME NEW s, NEW a, NEW b
    PROVE  /\ Len(<<a>>) = 1 /\ Len(<<a, b>>) = 2 /\ Len(<<a, b, b>>) = 3
           /\ InRanges(s, <<a>>) <=> CharAt(s, 2) \in a
           /\ InRanges(s, <<a, b>>) <=> CharAt(s, 2) \in a /\ CharAt(s, 3) \in b
           /\ InRanges(s, <<a, b, b>>) <=>
                 CharAt(s, 2) \in a /\ CharAt(s, 3) \in b /\ CharAt(s, 4) \in b
<1>1. 1..1 = {1} /\ 1..2 = {1, 2} /\ 1..3 = {1, 2, 3} /\ 1 + 1 = 2 /\ 2 + 1 = 3 /\ 3 + 1 = 4
    OBVIOUS
<1>2. /\ Len(<<a>>) = 1 /\ Len(<<a, b>>) = 2 /\ Len(<<a, b, b>>) = 3
      /\ <<a>>[1] = a /\ <<a, b>>[1] = a /\ <<a, b>>[2] = b
      /\ <<a, b, b>>[1] = a /\ <<a, b, b>>[2] = b /\ <<a, b, b>>[3] = b
    OBVIOUS
<1>3. InRanges(s, <<a>>) <=> CharAt(s, 2) \in a
    BY <1>1, <1>2, Zenon DEF InRanges
<1>4. InRanges(s, <<a, b>>) <=> CharAt(s, 2) \in a /\ CharAt(s, 3) \in b
    BY <1>1, <1>2, Zenon DEF InRanges
<1>5. InRanges(s, <<a, b, b>>) <=> CharAt(s, 2) \in a /\ CharAt(s, 3) \in b /\ CharAt(s, 4) \in b
    BY <1>1, <1>2, Zenon DEF InRanges
<1>6. QED BY <1>2, <1>3, <1>4, <1>5

(* A number that is below or above a range is not in it.                   *)
LEMMA NotWithin ==
    ASSUME NEW c \in Int, NEW lo \in Int, NEW hi \in Int, ~(c >= lo /\ c <= hi)
    PROVE  c \notin lo..hi
OBVIOUS

(* The ranges are those of the characters there are.                       *)
LEMMA LeadIs ==
    ASSUME NEW s \in Seq(Nat), s # <<>>, s[1] \in Nat, s[1] >= \h80
    PROVE  /\ s[1] \in DOMAIN Utf8Ranges =>
                CharacterLength(s) = IF InRanges(s, Utf8Ranges[s[1]]) THEN Len(Utf8Ranges[s[1]]) + 1 ELSE 0
           /\ s[1] \notin DOMAIN Utf8Ranges => CharacterLength(s) = 0
<1> DEFINE c == s[1]
           x == CharAt(s, 2)
           y == CharAt(s, 3)
           z == CharAt(s, 4)
           R == Utf8Ranges[c]
           n == CharacterLength(s)
           C == Continuation
<1>1. c \in Nat /\ c >= 128 /\ x \in Int /\ y \in Int /\ z \in Int
    <2>1. \A k \in Nat : CharAt(s, k) \in Int
        BY CharFacts
    <2>2. 2 \in Nat /\ 3 \in Nat /\ 4 \in Nat
        OBVIOUS
    <2>3. QED BY <2>1, <2>2
<1>2. c \in DOMAIN Utf8Ranges <=> c >= \hC2 /\ c <= \hF4
    <2> HIDE DEF c
    <2>1. DOMAIN Utf8Ranges = \hC2..\hF4
        BY DEF Utf8Ranges
    <2>2. c \in \hC2..\hF4 <=> c >= \hC2 /\ c <= \hF4
        BY <1>1
    <2>3. QED BY <2>1, <2>2
<1>3. c >= \hC0 /\ c <= \hDF => n = IF x \in C /\ c >= \hC2 THEN 2 ELSE 0
    BY TwoLong
<1>4. c >= \hE0 /\ c <= \hEF =>
        n = IF x \in C /\ y \in C /\ (c = \hE0 => x >= \hA0) /\ (c = \hED => x <= \h9F) THEN 3 ELSE 0
    BY ThreeLong
<1>5. c >= \hF0 /\ c <= \hF7 =>
        n = IF x \in C /\ y \in C /\ z \in C /\ c <= \hF4 /\ (c = \hF0 => x >= \h90) /\ (c = \hF4 => x <= \h8F)
            THEN 4 ELSE 0
    BY FourLong
<1>6. c < \hC0 \/ c > \hF7 => n = 0
    <2>1. SUFFICES ASSUME c < \hC0 \/ c > \hF7 PROVE n = 0
        OBVIOUS
    <2>2. Utf8Length(c) = 0
        <3> HIDE DEF c
        <3>1. ~(c < \h80) /\ ~(c >= \hC0 /\ c <= \hDF) /\ ~(c >= \hE0 /\ c <= \hEF) /\ ~(c >= \hF0 /\ c <= \hF7)
            BY <1>1, <2>1
        <3>2. c \notin \hC0..\hDF
            <4>1. c \in Int /\ \hC0 \in Int /\ \hDF \in Int
                BY <1>1
            <4>2. QED BY ONLY <3>1, <4>1, NotWithin
        <3>3. c \notin \hE0..\hEF
            <4>1. c \in Int /\ \hE0 \in Int /\ \hEF \in Int
                BY <1>1
            <4>2. QED BY ONLY <3>1, <4>1, NotWithin
        <3>4. c \notin \hF0..\hF7
            <4>1. c \in Int /\ \hF0 \in Int /\ \hF7 \in Int
                BY <1>1
            <4>2. QED BY ONLY <3>1, <4>1, NotWithin
        <3>5. QED BY <3>1, <3>2, <3>3, <3>4, Zenon DEF Utf8Length
    <2>3. Head(s) = c
        BY CharFacts
    <2>4. 0 \notin 1..Len(s)
        BY LenProperties
    <2>5. QED BY <2>2, <2>3, <2>4, Zenon DEF CharacterLength
<1>7. x \in SecondRange(c) <=> /\ x \in C
                               /\ c = \hE0 => x >= \hA0
                               /\ c = \hED => x <= \h9F
                               /\ c = \hF0 => x >= \h90
                               /\ c = \hF4 => x <= \h8F
    <2> HIDE DEF c, x, y, z, n, R, C
    <2>1. QED BY <1>1, SecondIs DEF C
<1>8. c >= \hC2 /\ c <= \hF4 =>
        /\ c <= \hDF => R = <<SecondRange(c)>>
        /\ c >= \hE0 /\ c <= \hEF => R = <<SecondRange(c), C>>
        /\ c >= \hF0 => R = <<SecondRange(c), C, C>>
    BY <1>1, RangesAre
<1>9. ASSUME c >= \hC2, c <= \hF4
      PROVE  n = IF InRanges(s, R) THEN Len(R) + 1 ELSE 0
    <2> HIDE DEF c, n, R, C
    <2>1. CASE c <= \hDF
        <3>1. R = <<SecondRange(c)>>
            BY <1>8, <1>9, <2>1
        <3>2. Len(R) = 1 /\ (InRanges(s, R) <=> x \in SecondRange(c))
            BY <3>1, InEach, Zenon
        <3> HIDE DEF x, y, z
        <3>3. x \in SecondRange(c) <=> x \in C
            BY <1>1, <1>7, <2>1, SMT
        <3>4. n = IF x \in C THEN 2 ELSE 0
            BY <1>1, <1>3, <1>9, <2>1, SMT
        <3>5. QED BY <3>2, <3>3, <3>4, SMT
    <2>2. CASE c >= \hE0 /\ c <= \hEF
        <3>1. R = <<SecondRange(c), C>>
            BY <1>8, <1>9, <2>2
        <3>2. Len(R) = 2 /\ (InRanges(s, R) <=> x \in SecondRange(c) /\ y \in C)
            BY <3>1, InEach, Zenon
        <3> HIDE DEF x, y, z
        <3>3. x \in SecondRange(c) <=> x \in C /\ (c = \hE0 => x >= \hA0) /\ (c = \hED => x <= \h9F)
            BY <1>1, <1>7, <2>2, SMT
        <3>4. n = IF x \in SecondRange(c) /\ y \in C THEN 3 ELSE 0
            BY <1>1, <1>4, <2>2, <3>3, SMT
        <3>5. QED BY <3>2, <3>4, SMT
    <2>3. CASE c >= \hF0
        <3>1. R = <<SecondRange(c), C, C>>
            BY <1>8, <1>9, <2>3
        <3>2. Len(R) = 3 /\ (InRanges(s, R) <=> x \in SecondRange(c) /\ y \in C /\ z \in C)
            BY <3>1, InEach, Zenon
        <3> HIDE DEF x, y, z
        <3>3. x \in SecondRange(c) <=> x \in C /\ (c = \hF0 => x >= \h90) /\ (c = \hF4 => x <= \h8F)
            BY <1>1, <1>7, <2>3, SMT
        <3>4. n = IF x \in SecondRange(c) /\ y \in C /\ z \in C THEN 4 ELSE 0
            BY <1>1, <1>5, <1>9, <2>3, <3>3, SMT
        <3>5. QED BY <3>2, <3>4, SMT
    <2>4. QED BY <1>1, <2>1, <2>2, <2>3
<1>10. ~(c >= \hC2 /\ c <= \hF4) => n = 0
    <2> HIDE DEF c, x, y, z, n
    <2>1. QED BY <1>1, <1>3, <1>5, <1>6, SMT
<1>11. QED BY <1>2, <1>9, <1>10, Zenon

\* The first n bytes.
FirstBytes(s, n) == [i \in 1..n |-> CharAt(s, i)]

(* A byte more.                                                            *)
LEMMA BeginningOn ==
    ASSUME NEW s \in Seq(Nat), NEW n \in Nat
    PROVE  /\ FirstBytes(s, n) \in Seq(Int) /\ Len(FirstBytes(s, n)) = n
           /\ CharAt(s, n + 1) \in Int
           /\ FirstBytes(s, n + 1) = Append(FirstBytes(s, n), CharAt(s, n + 1))
<1> DEFINE p == FirstBytes(s, n)
           t == FirstBytes(s, n + 1)
           c == CharAt(s, n + 1)
           a == Append(p, c)
<1>1. \A i \in Nat : CharAt(s, i) \in Int
    BY CharFacts
<1>2. /\ p = [i \in 1..n |-> p[i]] /\ t = [i \in 1..(n + 1) |-> t[i]]
      /\ \A i \in 1..n : p[i] = CharAt(s, i)
      /\ \A i \in 1..(n + 1) : t[i] = CharAt(s, i)
    BY DEF FirstBytes
<1>3. n + 1 \in Nat /\ n + 1 \in 1..(n + 1) /\ (\A i \in 1..(n + 1) : i \in Nat)
      /\ \A i \in 1..n : i \in 1..(n + 1)
    OBVIOUS
<1>4. c \in Int /\ t[n + 1] = c /\ (\A i \in 1..n : p[i] = t[i] /\ p[i] \in Int)
      /\ \A i \in 1..(n + 1) : t[i] \in Int
    BY <1>1, <1>2, <1>3
<1> HIDE DEF p, t, c
<1>5. p \in Seq(Int) /\ Len(p) = n /\ t \in Seq(Int) /\ Len(t) = n + 1
    <2>1. p \in [1..n -> Int]
        BY <1>2, <1>4, Zenon
    <2>2. t \in [1..(n + 1) -> Int]
        BY <1>2, <1>4, Zenon
    <2>3. p \in Seq(Int) /\ Len(p) = n
        BY <2>1
    <2>4. QED BY <1>3, <2>2, <2>3
<1>6. a \in Seq(Int) /\ Len(a) = n + 1 /\ a[n + 1] = c /\ \A i \in 1..n : a[i] = p[i]
    <2>1. /\ a \in Seq(Int) /\ Len(a) = Len(p) + 1 /\ a[Len(p) + 1] = c
          /\ \A i \in 1..Len(p) : a[i] = p[i]
        BY ONLY <1>4, <1>5, AppendProperties
    <2> HIDE DEF a
    <2>2. QED BY <1>5, <2>1
<1> HIDE DEF a
<1>7. \A i \in 1..Len(a) : a[i] = t[i]
    <2>1. SUFFICES ASSUME NEW i \in 1..(n + 1) PROVE a[i] = t[i]
        BY <1>6
    <2>2. i \in 1..n \/ i = n + 1
        OBVIOUS
    <2>3. QED BY <1>4, <1>6, <2>2
<1>8. a = t
    BY ONLY <1>5, <1>6, <1>7, SeqEqual
<1>9. QED BY <1>4, <1>5, <1>8 DEF a, p, t, c

(* The first byte.                                                         *)
LEMMA BeginningOfOne ==
    ASSUME NEW s \in Seq(Nat)
    PROVE  FirstBytes(s, 1) = <<CharAt(s, 1)>>
<1>1. 0 \in Nat /\ 0 + 1 = 1
    OBVIOUS
<1> DEFINE p == FirstBytes(s, 0)
<1>2. p \in Seq(Int) /\ Len(p) = 0 /\ CharAt(s, 1) \in Int
      /\ FirstBytes(s, 1) = Append(p, CharAt(s, 1))
    BY ONLY <1>1, BeginningOn, s \in Seq(Nat)
<1> HIDE DEF p
<1>3. p = <<>>
    BY <1>2, EmptySeq
<1>4. QED BY <1>2, <1>3

(* A character of UTF-8 is spelt by its bytes.                             *)
LEMMA CharacterSpells ==
    ASSUME NEW s \in Seq(Nat), s # <<>>, CharacterLength(s) # 0
    PROVE  LET n == CharacterLength(s) IN
           n \in 1..Len(s) /\ SpellsOne(FirstBytes(s, n), Payload(s, n))
<1> DEFINE n == CharacterLength(s)
           v == Payload(s, n)
           w == FirstBytes(s, n)
<1>1. Head(s) = s[1] /\ Len(s) \in Nat
    BY CharFacts, LenProperties
<1>2. n = Utf8Length(s[1]) /\ n \in 1..Len(s) /\ (\A i \in 2..n : s[i] \in Continuation)
      /\ v >= Shortest(n) /\ IsScalar(v)
    BY <1>1, Zenon DEF CharacterLength, Continuation
<1>3. n \in 1..4
    <2>1. Utf8Length(s[1]) \in 0..4
        BY SMTT(30) DEF Utf8Length
    <2> HIDE DEF n
    <2>2. n # 0 /\ n \in 0..4
        BY <1>2, <2>1 DEF n
    <2>3. QED BY <2>2
<1> HIDE DEF n, v
<1>4. n \in Nat /\ w \in Seq(Int) /\ Len(w) = n
    <2>1. n \in Nat
        BY <1>3
    <2>2. QED BY <2>1, BeginningOn
<1>5. \A i \in 1..n : w[i] = s[i]
    <2>1. \A i \in 1..n : i \in 1..Len(s)
        BY <1>1, <1>2
    <2>2. \A i \in 1..Len(s) : CharAt(s, i) = s[i]
        BY CharFacts
    <2>3. \A i \in 1..n : w[i] = CharAt(s, i)
        BY DEF FirstBytes
    <2>4. QED BY <2>1, <2>2, <2>3
<1> HIDE DEF w
<1>6. v \in Nat
    BY <1>2, SMT DEF IsScalar
<1>7. ASSUME NEW y \in Seq(Int) PROVE Scalars(w \o y) = Before(v, Scalars(y))
    <2> DEFINE e == w \o y
    <2>1. \A i \in 1..n : e[i] = s[i]
        <3>1. \A i \in 1..Len(w) : e[i] = w[i]
            BY <1>4, ConcatProperties
        <3>2. QED BY <1>4, <1>5, <3>1
    <2>2. Len(e) \in Nat /\ Len(e) = n + Len(y) /\ Len(y) \in Nat /\ e \in Seq(Int)
        BY <1>4, ConcatProperties, LenProperties
    <2>3. n \in 1..Len(e) /\ 1 \in 1..n /\ n > 0
        BY <1>3, <2>2
    <2>4. Head(e) = e[1]
        BY <2>2, <2>3
    <2> HIDE DEF e
    <2>5. IsCharacter(e, n, v)
        <3>1. Utf8Length(e[1]) = n
            BY <1>2, <2>1, <2>3
        <3>2. \A i \in 2..n : e[i] \in Continuation
            <4>1. \A i \in 2..n : i \in 1..n
                BY <1>3
            <4>2. QED BY <1>2, <2>1, <4>1
        <3>3. Payload(e, n) = v
            <4>1. Payload(e, n) = Payload(s, n)
                <5>1. \A k \in 1..4 : n = k => \A i \in 1..k : e[i] = s[i]
                    BY <2>1
                <5>2. CASE n = 1
                    <6>1. e[1] = s[1]
                        BY <2>1, <2>3
                    <6>2. QED BY <5>2, <6>1 DEF Payload
                <5>3. CASE n = 2
                    <6>1. 1 \in 1..n /\ 2 \in 1..n
                        BY <5>3
                    <6>2. e[1] = s[1] /\ e[2] = s[2]
                        BY <2>1, <6>1
                    <6>3. QED BY <5>3, <6>2 DEF Payload
                <5>4. CASE n = 3
                    <6>1. 1 \in 1..n /\ 2 \in 1..n /\ 3 \in 1..n
                        BY <5>4
                    <6>2. e[1] = s[1] /\ e[2] = s[2] /\ e[3] = s[3]
                        BY <2>1, <6>1
                    <6>3. QED BY <5>4, <6>2 DEF Payload
                <5>5. CASE n = 4
                    <6>1. 1 \in 1..n /\ 2 \in 1..n /\ 3 \in 1..n /\ 4 \in 1..n
                        BY <5>5
                    <6>2. e[1] = s[1] /\ e[2] = s[2] /\ e[3] = s[3] /\ e[4] = s[4]
                        BY <2>1, <6>1
                    <6>3. QED BY <5>5, <6>2 DEF Payload
                <5>6. n = 1 \/ n = 2 \/ n = 3 \/ n = 4
                    BY <1>3
                <5>7. QED BY <5>2, <5>3, <5>4, <5>5, <5>6
            <4>2. QED BY <4>1 DEF v
        <3>4. QED BY <1>2, <3>1, <3>2, <3>3, Zenon DEF IsCharacter
    <2>6. CharacterLength(e) = n /\ Payload(e, n) = v
        BY <1>2, <2>2, <2>3, <2>4, <2>5, CharacterHasLength
    <2>7. QED BY <1>4, <2>3, <2>6, ScalarsOfBoth DEF e
<1>8. SpellsOne(w, v)
    BY <1>4, <1>6, <1>7, Zenon DEF SpellsOne
<1>9. QED BY <1>2, <1>8 DEF n, v, w

\* After n bytes of the rest of a character: they were in range, or it has failed.
Ranged(b, s, q, buf, ranges, n, l) ==
    \/ Failed(l) /\ ~InRanges(s, ranges)
    \/ /\ \A i \in 1..n : CharAt(s, i + 1) \in ranges[i]
       /\ Gains(b, buf, q + 1 + n, FirstBytes(s, n + 1), l)

(* The next byte of a character is in its range, or fails.                 *)
LEMMA RangedOn ==
    ASSUME NEW b, NEW s, NEW q, Follows(b, s, q), NEW buf \in Seq(Int), NEW ranges,
           NEW n \in Nat, n + 1 \in 1..Len(ranges), NEW before, NEW after, NEW l,
           Ranged(b, s, q, buf, ranges, n, before), after = RangeTurn(l, ranges, before, n + 1)
    PROVE  Ranged(b, s, q, buf, ranges, n + 1, after)
<1> DEFINE g == get(before)
           p == FirstBytes(s, n + 1)
           c == CharAt(s, n + 2)
<1>1. /\ b \in Seq(Nat) /\ s \in Seq(Nat) /\ q \in Nat
      /\ c = CharAt(b, q + (n + 2)) /\ q + (n + 2) = q + 1 + n + 1
      /\ n + 1 + 1 = n + 2 /\ q + 1 + n + 1 = q + 1 + (n + 1) /\ n + 1 \in Nat /\ n + 1 # 0
    <2>1. b \in Seq(Nat) /\ s \in Seq(Nat) /\ q \in Nat
          /\ \A k \in Nat \ {0} : CharAt(s, k) = CharAt(b, q + k)
        BY DEF Follows
    <2>2. n + 2 \in Nat \ {0}
        OBVIOUS
    <2>3. CharAt(s, n + 2) = CharAt(b, q + (n + 2))
        BY ONLY <2>1, <2>2
    <2>4. /\ q + (n + 2) = q + 1 + n + 1 /\ n + 1 + 1 = n + 2
          /\ q + 1 + n + 1 = q + 1 + (n + 1) /\ n + 1 \in Nat /\ n + 1 # 0
        BY <2>1
    <2>5. QED BY <2>1, <2>3, <2>4
<1>2. after = IF Done(before) THEN before
              ELSE IF g.current \in ranges[n + 1] THEN add(g, g.current) ELSE Fails(g)
    BY <1>1, Zenon DEF RangeTurn
<1>3. CASE Failed(before) /\ ~InRanges(s, ranges)
    <2>1. Done(before)
        BY <1>3 DEF Failed, Done
    <2>2. QED BY <1>2, <1>3, <2>1, Zenon DEF Ranged
<1>4. CASE /\ \A i \in 1..n : CharAt(s, i + 1) \in ranges[i]
           /\ Gains(b, buf, q + 1 + n, p, before)
    <2>1. Reads(b, before, q + 1 + n) /\ before.token_buffer = buf \o p
        BY <1>4, Zenon DEF Gains
    <2>2. ~Done(before)
        BY <2>1 DEF Reads, Done
    <2>3. Reads(b, g, q + 1 + n + 1) /\ g.current = CharAt(b, q + 1 + n + 1) /\ IsLexer(g)
          /\ g.token_buffer = before.token_buffer
        BY ONLY <2>1, ReadsGet
    <2>4. g.current = c
        BY <1>1, <2>3
    <2> HIDE DEF g
    <2>5. p \in Seq(Int) /\ c \in Int /\ FirstBytes(s, n + 2) = Append(p, c)
        <3>1. n + 1 \in Nat /\ s \in Seq(Nat)
            BY <1>1
        <3>2. p \in Seq(Int) /\ CharAt(s, n + 1 + 1) \in Int
              /\ FirstBytes(s, n + 1 + 1) = Append(p, CharAt(s, n + 1 + 1))
            BY ONLY <3>1, BeginningOn
        <3>3. QED BY <1>1, <3>2
    <2> HIDE DEF p, c
    <2>6. CASE c \in ranges[n + 1]
        <3> DEFINE h == add(g, c)
        <3>1. after = h
            BY <1>2, <2>2, <2>4, <2>6, Zenon
        <3>2. Reads(b, h, q + 1 + n + 1) /\ h.token_buffer = Append(g.token_buffer, c)
            BY ONLY <2>3, ReadsAdd
        <3> HIDE DEF h
        <3>3. h.token_buffer = buf \o Append(p, c)
            <4>1. buf \o Append(p, c) = Append(buf \o p, c)
                BY ONLY <2>5, buf \in Seq(Int), AppendToSecond
            <4>2. QED BY <2>1, <2>3, <3>2, <4>1
        <3>4. Gains(b, buf, q + 1 + (n + 1), FirstBytes(s, n + 1 + 1), h)
            <4>1. Gains(b, buf, q + 1 + n + 1, Append(p, c), h)
                BY <3>2, <3>3, Zenon DEF Gains
            <4>2. QED BY ONLY <1>1, <2>5, <4>1
        <3>5. \A i \in 1..(n + 1) : CharAt(s, i + 1) \in ranges[i]
            <4>1. SUFFICES ASSUME NEW i \in 1..(n + 1) PROVE CharAt(s, i + 1) \in ranges[i]
                OBVIOUS
            <4>2. i \in 1..n \/ i = n + 1
                OBVIOUS
            <4>3. CASE i = n + 1
                BY <1>1, <2>6, <4>3 DEF c
            <4>4. QED BY <1>4, <4>2, <4>3
        <3>6. QED BY ONLY <3>1, <3>4, <3>5 DEF Ranged
    <2>7. CASE c \notin ranges[n + 1]
        <3>1. after = Fails(g)
            BY <1>2, <2>2, <2>4, <2>7, Zenon
        <3>2. Failed(after)
            BY <2>3, <3>1, FailsIsFailed
        <3>3. ~InRanges(s, ranges)
            <4>1. CharAt(s, n + 1 + 1) \notin ranges[n + 1]
                BY <1>1, <2>7 DEF c
            <4>2. QED BY <4>1, Zenon DEF InRanges
        <3>4. QED BY <3>2, <3>3, Zenon DEF Ranged
    <2>8. QED BY <2>6, <2>7
<1>5. QED BY <1>3, <1>4, Zenon DEF Ranged

(* The rest of a character is in its ranges, or fails.                     *)
LEMMA RangesRead ==
    ASSUME NEW b, NEW s, NEW q, Follows(b, s, q), NEW l, Reads(b, l, q + 1),
           l.token_buffer \in Seq(Int), NEW ranges, Len(ranges) \in Nat
    PROVE  LET r == next_byte_in_range(l, ranges)
               m == Len(ranges)
           IN  /\ InRanges(s, ranges) =>
                     Gains(b, l.token_buffer, q + 1 + m, FirstBytes(s, m + 1), r)
               /\ ~InRanges(s, ranges) => Failed(r)
<1> DEFINE m == Len(ranges)
           buf == l.token_buffer
           r == next_byte_in_range(l, ranges)
<1>1. PICK after : /\ r = after[m]
                   /\ \A n \in 0..m : after[n] = RangeTurn(l, ranges, after[n - 1], n)
    <2>1. Len(ranges) \in Nat
        OBVIOUS
    <2>2. QED BY ONLY <2>1, RangeTurns
<1> DEFINE G == {n \in Nat : Ranged(b, s, q, buf, ranges, n, after[n])}
<1> HIDE DEF r, buf
<1>2. m \in Nat /\ s \in Seq(Nat) /\ q \in Nat /\ buf \in Seq(Int)
    BY DEF Follows, buf
<1>3. 0 \in G
    <2>1. after[0] = add(l, l.current)
        BY <1>1 DEF RangeTurn
    <2> DEFINE c == CharAt(s, 1)
    <2>2. l.current = c
        <3>1. \A k \in Nat \ {0} : CharAt(s, k) = CharAt(b, q + k)
            BY DEF Follows
        <3>2. 1 \in Nat \ {0}
            OBVIOUS
        <3>3. c = CharAt(b, q + 1)
            BY ONLY <3>1, <3>2
        <3>4. QED BY <3>3 DEF Reads
    <2>3. c \in Int
        <3>1. 1 \in Nat
            OBVIOUS
        <3>2. QED BY ONLY <1>2, <3>1, CharFacts
    <2> HIDE DEF c
    <2> DEFINE h == add(l, c)
    <2>4. Reads(b, h, q + 1) /\ h.token_buffer = Append(buf, c)
        BY ReadsAdd DEF buf
    <2>5. FirstBytes(s, 1) = <<c>>
        BY <1>2, BeginningOfOne DEF c
    <2>6. Append(buf, c) = buf \o <<c>>
        BY <1>2, <2>3, AppendIsConcat
    <2>7. after[0] = h
        BY <2>1, <2>2
    <2> HIDE DEF h
    <2>8. Gains(b, buf, q + 1 + 0, FirstBytes(s, 0 + 1), h)
        <3>1. q + 1 + 0 = q + 1 /\ 0 + 1 = 1
            BY <1>2
        <3>2. QED BY ONLY <2>4, <2>5, <2>6, <3>1 DEF Gains
    <2>9. \A i \in 1..0 : CharAt(s, i + 1) \in ranges[i]
        OBVIOUS
    <2>10. Ranged(b, s, q, buf, ranges, 0, after[0])
        BY ONLY <2>7, <2>8, <2>9 DEF Ranged
    <2>11. QED BY <2>10
<1>4. ASSUME NEW n \in 0..(m - 1), n \in G PROVE n + 1 \in G
    <2>1. n \in Nat /\ n + 1 \in Nat /\ n + 1 \in 1..m /\ n + 1 \in 0..m /\ (n + 1) - 1 = n
        BY <1>2
    <2>2. after[n + 1] = RangeTurn(l, ranges, after[n], n + 1)
        BY <1>1, <2>1
    <2>3. Ranged(b, s, q, buf, ranges, n, after[n])
        BY <1>4
    <2>4. Ranged(b, s, q, buf, ranges, n + 1, after[n + 1])
        BY ONLY <1>2, <2>1, <2>2, <2>3, Follows(b, s, q), RangedOn DEF m
    <2>5. QED BY <2>1, <2>4
<1> HIDE DEF G, m
<1>5. \A n \in 0..m : n \in G
    BY ONLY <1>2, <1>3, <1>4, InductionTo
<1>6. m \in G
    BY <1>2, <1>5
<1>7. Ranged(b, s, q, buf, ranges, m, r)
    BY <1>1, <1>6 DEF G
<1>8. InRanges(s, ranges) <=> \A i \in 1..m : CharAt(s, i + 1) \in ranges[i]
    BY DEF InRanges, m
<1>9. /\ InRanges(s, ranges) => Gains(b, buf, q + 1 + m, FirstBytes(s, m + 1), r)
      /\ ~InRanges(s, ranges) => Failed(r)
    BY ONLY <1>7, <1>8 DEF Ranged
<1>10. QED BY <1>9 DEF r, m, buf

(* The first two bytes of what follows.                                    *)
LEMMA FollowsFirst ==
    ASSUME NEW b, NEW s, NEW q, Follows(b, s, q)
    PROVE  /\ b \in Seq(Nat) /\ s \in Seq(Nat) /\ q \in Nat
           /\ CharAt(s, 1) = CharAt(b, q + 1) /\ CharAt(s, 2) = CharAt(b, q + 2)
           /\ CharAt(s, 1) \in Int /\ CharAt(s, 2) \in Int
           /\ q + 1 + 1 = q + 2 /\ q + 1 \in Nat /\ q + 2 \in Nat
<1>1. b \in Seq(Nat) /\ s \in Seq(Nat) /\ q \in Nat
      /\ \A k \in Nat \ {0} : CharAt(s, k) = CharAt(b, q + k)
    BY DEF Follows
<1>2. 1 \in Nat \ {0} /\ 2 \in Nat \ {0} /\ 1 \in Nat /\ 2 \in Nat
    OBVIOUS
<1>3. CharAt(s, 1) = CharAt(b, q + 1) /\ CharAt(s, 2) = CharAt(b, q + 2)
    BY ONLY <1>1, <1>2
<1>4. CharAt(s, 1) \in Int /\ CharAt(s, 2) \in Int
    BY ONLY <1>1, <1>2, CharFacts
<1>5. q + 1 + 1 = q + 2 /\ q + 1 \in Nat /\ q + 2 \in Nat
    BY <1>1
<1>6. QED BY <1>1, <1>3, <1>4, <1>5

\* A byte that fails where nothing is meant.
LEMMA FailSteps ==
    ASSUME NEW b, NEW s, NEW q, NEW buf, NEW g, IsLexer(g), FirstOf(s) = Bad
    PROVE  Steps(b, s, q, buf, Fails(g))
    BY FailsIsFailed, Zenon DEF Steps

(* A byte of ASCII has been added.                                         *)
LEMMA AddSteps ==
    ASSUME NEW b, NEW s \in Seq(Nat), s # <<>>, NEW q, NEW g, Reads(b, g, q), NEW p, NEW k,
           q = p + k, NEW v \in 0..\h7F, FirstOf(s) = <<k, v>>, g.token_buffer \in Seq(Int)
    PROVE  Steps(b, s, p, g.token_buffer, add(g, v))
<1> DEFINE h == add(g, v)
           buf == g.token_buffer
<1>1. Reads(b, h, q) /\ h.token_buffer = Append(buf, v)
    BY ReadsAdd
<1>2. v \in Int /\ v \in Nat /\ v < \h80 /\ v <= \h10FFFF /\ ~(v >= \hD800 /\ v <= \hDFFF) /\ v >= 0
    BY SMT
<1>3. IsScalar(v)
    BY ONLY <1>2, ScalarBounds, SMT
<1>4. Utf8(v) = <<v>>
    BY ONLY <1>2, SMT DEF Utf8
<1>5. SpellsOne(<<v>>, v)
    <2>1. SpellsOne(Utf8(v), v)
        BY <1>3, SpellsScalar
    <2>2. QED BY <1>4, <2>1, Zenon
<1>6. Append(buf, v) = buf \o <<v>>
    <2>1. buf \in Seq(Int) /\ v \in Int
        BY <1>2
    <2>2. QED BY ONLY <2>1, AppendIsConcat
<1> HIDE DEF h
<1>7. Gains(b, buf, p + k, <<v>>, h)
    BY ONLY <1>1, <1>6, q = p + k DEF Gains
<1> HIDE DEF buf
<1>8. Steps(b, s, p, buf, h)
    BY ONLY <1>5, <1>7, StepsTo, s \in Seq(Nat), s # <<>>, FirstOf(s) = <<k, v>>
<1>9. QED BY <1>8 DEF h, buf

(* An escape is the character that it stands for.                          *)
LEMMA EscapeSteps ==
    ASSUME NEW b, NEW s, NEW q, Follows(b, s, q), s # <<>>, CharAt(s, 1) = Backslash,
           NEW l, Reads(b, l, q + 1), l.token_buffer \in Seq(Int)
    PROVE  Steps(b, s, q, l.token_buffer, Escape(l))
<1> DEFINE g == get(l)
           c == CharAt(s, 2)
           buf == l.token_buffer
<1>1. /\ s \in Seq(Nat) /\ q \in Nat /\ c = CharAt(b, q + 2) /\ q + 1 + 1 = q + 2
      /\ c \in Int
    BY FollowsFirst
<1>2. Reads(b, g, q + 2) /\ g.current = c /\ IsLexer(g) /\ g.token_buffer = buf
    <2>1. Reads(b, g, q + 1 + 1) /\ g.current = CharAt(b, q + 1 + 1) /\ IsLexer(g)
          /\ g.token_buffer = buf
        BY ReadsGet
    <2> HIDE DEF g, buf
    <2>2. QED BY <1>1, <2>1
<1>3. Escape(l) = IF c = \h75 THEN UnicodeEscape(g)
                  ELSE IF c \in DOMAIN SimpleEscapes THEN add(g, SimpleEscapes[c]) ELSE Fails(g)
    BY <1>2, Zenon DEF Escape
<1> HIDE DEF g, c, buf
<1>4. CASE c = \h75
    <2>1. Steps(b, s, q, g.token_buffer, UnicodeEscape(g))
        BY <1>2, <1>4, UnicodeSteps DEF c
    <2>2. QED BY <1>2, <1>3, <1>4, <2>1 DEF buf
<1>5. CASE c # \h75
    <2>1. EscapedUnit(s) = -1
        BY <1>1, <1>5, UnitNeeds DEF c
    <2>2. ~IsScalar(-1) /\ -1 \notin HighSurrogates
        <3>1. -1 \in Int
            OBVIOUS
        <3>2. -1 \notin HighSurrogates
            BY SMT DEF HighSurrogates
        <3>3. ~IsScalar(-1)
            BY SMT DEF IsScalar
        <3>4. QED BY <3>2, <3>3
    <2>3. Head(s) = Backslash
        <3>1. 1 \in 1..Len(s) /\ Head(s) = s[1] /\ \A k \in 1..Len(s) : CharAt(s, k) = s[k]
            BY <1>1, CharFacts
        <3>2. CharAt(s, 1) = s[1]
            BY ONLY <3>1
        <3>3. QED BY <3>1, <3>2
    <2>4. Len(s) > 1 /\ s[2] \in DOMAIN SimpleEscapes <=> c \in DOMAIN SimpleEscapes
        <3> DEFINE n == Len(s)
        <3>1. n \in Nat /\ 2 \in Nat
            BY <1>1, LenProperties
        <3>2. 2 \in 1..n <=> n > 1
            <4> HIDE DEF n
            <4>1. QED BY <3>1
        <3>3. 2 \in 1..n <=> c # EOF
            BY <1>1, <3>1, CharFacts DEF c
        <3>4. \A k \in 1..n : CharAt(s, k) = s[k]
            BY <1>1, CharFacts
        <3>5. 2 \in 1..n => c = s[2]
            BY ONLY <3>4 DEF c
        <3>6. EOF \notin DOMAIN SimpleEscapes
            BY SimpleFacts DEF EOF
        <3>7. QED BY <3>2, <3>3, <3>5, <3>6
    <2>5. FirstOf(s) = IF c \in DOMAIN SimpleEscapes THEN <<2, SimpleEscapes[s[2]]>> ELSE Bad
        BY <2>1, <2>2, <2>3, <2>4, Zenon DEF FirstOf
    <2>6. CASE c \in DOMAIN SimpleEscapes
        <3>1. c = s[2]
            <4> DEFINE n == Len(s)
            <4>1. n \in Nat /\ n > 1
                BY <1>1, <2>4, <2>6, LenProperties
            <4> HIDE DEF n
            <4>2. 2 \in 1..n
                BY <4>1
            <4>3. \A k \in 1..n : CharAt(s, k) = s[k]
                BY <1>1, CharFacts DEF n
            <4>4. QED BY ONLY <4>2, <4>3 DEF c
        <3> DEFINE v == SimpleEscapes[c]
        <3>2. v \in 0..\h7F /\ FirstOf(s) = <<2, v>>
            BY <2>5, <2>6, <3>1, SimpleFacts
        <3>3. Escape(l) = add(g, v)
            BY <1>3, <1>5, <2>6, Zenon
        <3> HIDE DEF v
        <3>4. Steps(b, s, q, g.token_buffer, add(g, v))
            <4>1. g.token_buffer \in Seq(Int)
                BY <1>2 DEF buf
            <4>2. QED BY ONLY <1>1, <1>2, <3>2, <4>1, s # <<>>, q + 2 = q + 2, AddSteps
        <3>5. QED BY <1>2, <3>3, <3>4 DEF buf
    <2>7. CASE c \notin DOMAIN SimpleEscapes
        <3>1. FirstOf(s) = Bad
            BY <2>5, <2>7, Zenon
        <3>2. Escape(l) = Fails(g)
            BY <1>3, <1>5, <2>7, Zenon
        <3>3. QED BY <1>2, <3>1, <3>2, FailSteps
    <2>8. QED BY <2>6, <2>7
<1>6. QED BY <1>4, <1>5

(* A byte of ASCII is a character.                                         *)
LEMMA PlainFirst ==
    ASSUME NEW s \in Seq(Nat), s # <<>>, NEW c, c = s[1], c \in PlainBytes
    PROVE  c \in 0..\h7F /\ FirstOf(s) = <<1, c>>
<1>1. c \in 0..\h7F /\ c >= \h20 /\ c # Backslash
    <2>1. c \in \h20..\h7F /\ c # Backslash
        BY Zenon DEF PlainBytes
    <2>2. QED BY ONLY <2>1
<1>2. Len(s) \in Nat /\ 1 \in 1..Len(s) /\ Head(s) = s[1]
    BY CharFacts, LenProperties
<1>3. IsScalar(c)
    <2>1. c \in Int /\ c >= 0 /\ c <= \h10FFFF /\ ~(c >= \hD800 /\ c <= \hDFFF)
        BY ONLY <1>1, SMT
    <2>2. QED BY ONLY <2>1, ScalarBounds, SMT
<1>4. IsCharacter(s, 1, c)
    BY ONLY <1>1, OneByte, c = s[1]
<1>5. CharacterLength(s) = 1 /\ Payload(s, 1) = c
    BY ONLY <1>2, <1>3, <1>4, CharacterHasLength
<1>6. Head(s) # Backslash /\ ~(Head(s) < \h20) /\ Head(s) = c
    <2>1. ~(c < \h20)
        BY ONLY <1>1
    <2>2. QED BY ONLY <1>1, <1>2, <2>1, c = s[1]
<1>7. FirstOf(s) = <<1, c>>
    <2>1. 1 # 0
        OBVIOUS
    <2>2. FirstOf(s) = <<CharacterLength(s), Payload(s, CharacterLength(s))>>
        BY <1>5, <1>6, <2>1, Zenon DEF FirstOf
    <2>3. QED BY <1>5, <2>2
<1>8. QED BY <1>1, <1>7

(* A lead byte and what follows it are a character, or fail.               *)
LEMMA LeadSteps ==
    ASSUME NEW b, NEW s, NEW q, Follows(b, s, q), s # <<>>, NEW c, c = s[1],
           c \in DOMAIN Utf8Ranges, NEW l, Reads(b, l, q + 1), l.token_buffer \in Seq(Int)
    PROVE  Steps(b, s, q, l.token_buffer, next_byte_in_range(l, Utf8Ranges[c]))
<1> DEFINE R == Utf8Ranges[c]
           r == next_byte_in_range(l, R)
           n == CharacterLength(s)
           m == Len(R)
           buf == l.token_buffer
           w == FirstBytes(s, n)
<1>1. s \in Seq(Nat) /\ q \in Nat
    BY FollowsFirst
<1>2. Head(s) = c
    BY <1>1, CharFacts
<1>3. c \in Nat /\ c >= \hC2 /\ c <= \hF4
    <2>1. c \in \hC2..\hF4
        BY Zenon DEF Utf8Ranges
    <2>2. QED BY ONLY <2>1
<1>4. m \in Nat
    <2>1. m = 1 \/ m = 2 \/ m = 3
        <3>1. (c <= \hDF) \/ (c >= \hE0 /\ c <= \hEF) \/ c >= \hF0
            BY <1>3
        <3>2. \/ R = <<SecondRange(c)>> \/ R = <<SecondRange(c), Continuation>>
              \/ R = <<SecondRange(c), Continuation, Continuation>>
            BY <1>3, <3>1, RangesAre
        <3> HIDE DEF R
        <3>3. QED BY <3>2, InEach, Zenon
    <2> HIDE DEF m
    <2>2. QED BY <2>1
<1>5. n = IF InRanges(s, R) THEN m + 1 ELSE 0
    <2>1. s[1] \in Nat /\ s[1] >= \h80 /\ s[1] \in DOMAIN Utf8Ranges
        BY <1>3
    <2>2. QED BY <1>1, <2>1, LeadIs
<1>6. /\ InRanges(s, R) => Gains(b, buf, q + 1 + m, FirstBytes(s, m + 1), r)
      /\ ~InRanges(s, R) => Failed(r)
    BY <1>4, RangesRead
<1>7. Head(s) # Backslash /\ ~(Head(s) < \h20)
    <2>1. c # Backslash /\ ~(c < \h20)
        BY <1>3 DEF Backslash
    <2>2. QED BY <1>2, <2>1
<1>8. FirstOf(s) = IF n = 0 THEN Bad ELSE <<n, Payload(s, n)>>
    BY <1>7, Zenon DEF FirstOf
<1> HIDE DEF R, r, n, m, buf
<1>9. CASE InRanges(s, R)
    <2>1. n = m + 1 /\ n # 0 /\ q + 1 + m = q + n
        BY <1>1, <1>4, <1>5, <1>9
    <2>2. SpellsOne(FirstBytes(s, n), Payload(s, n))
        BY ONLY <1>1, <2>1, CharacterSpells, s # <<>> DEF n
    <2>3. Gains(b, buf, q + n, FirstBytes(s, n), r)
        BY ONLY <1>6, <1>9, <2>1
    <2>4. FirstOf(s) = <<n, Payload(s, n)>>
        BY <1>8, <2>1
    <2>5. Steps(b, s, q, buf, r)
        BY ONLY <1>1, <2>2, <2>3, <2>4, StepsTo, s # <<>>
    <2>6. QED BY <2>5 DEF r, buf, R
<1>10. CASE ~InRanges(s, R)
    <2>1. FirstOf(s) = Bad /\ Failed(r)
        BY <1>5, <1>6, <1>8, <1>10
    <2>2. QED BY <2>1, Zenon DEF Steps, r, R
<1>11. QED BY <1>9, <1>10

(* What a string goes on with is what it means, or fails.                  *)
LEMMA InStringSteps ==
    ASSUME NEW b, NEW s, NEW q, Follows(b, s, q), s # <<>>, CharAt(s, 1) # Quote,
           NEW l, Reads(b, l, q + 1), l.token_buffer \in Seq(Int)
    PROVE  Steps(b, s, q, l.token_buffer, InString(l))
<1> DEFINE c == s[1]
           buf == l.token_buffer
<1>1. s \in Seq(Nat) /\ q \in Nat /\ CharAt(s, 1) = CharAt(b, q + 1) /\ q + 1 = q + 1
    BY FollowsFirst
<1>2. Head(s) = c /\ CharAt(s, 1) = c /\ c \in Nat
    <2>1. 1 \in 1..Len(s) /\ Head(s) = s[1] /\ \A k \in 1..Len(s) : CharAt(s, k) = s[k]
        BY <1>1, CharFacts
    <2>2. CharAt(s, 1) = c
        BY ONLY <2>1
    <2>3. c \in Nat
        BY <1>1, <2>1, ElementOfSeq
    <2>4. QED BY <2>1, <2>2, <2>3
<1>3. IsLexer(l) /\ l.current = c
    BY <1>1, <1>2 DEF Reads
<1>4. InString(l) = IF c = Backslash THEN Escape(l)
                    ELSE IF c \in PlainBytes THEN add(l, c)
                    ELSE IF c \in DOMAIN Utf8Ranges THEN next_byte_in_range(l, Utf8Ranges[c])
                    ELSE Fails(l)
    BY <1>2, <1>3, Zenon DEF InString
<1>5. c \in PlainBytes <=> c >= \h20 /\ c <= \h7F /\ c # Backslash
    <2> HIDE DEF c
    <2>1. c # Quote
        BY <1>2
    <2>2. QED BY <1>2, <2>1, SMT DEF PlainBytes
<1>6. CASE c = Backslash
    <2>1. Steps(b, s, q, buf, Escape(l))
        BY <1>2, <1>6, EscapeSteps
    <2>2. QED BY <1>4, <1>6, <2>1
<1>7. CASE c \in PlainBytes
    <2>1. c \in 0..\h7F /\ FirstOf(s) = <<1, c>>
        BY <1>1, <1>7, PlainFirst
    <2>2. InString(l) = add(l, c)
        BY <1>4, <1>5, <1>7, Zenon
    <2> HIDE DEF c
    <2>3. Steps(b, s, q, buf, add(l, c))
        BY ONLY <1>1, <2>1, s # <<>>, Reads(b, l, q + 1), l.token_buffer \in Seq(Int), AddSteps
    <2>4. QED BY <2>2, <2>3
<1>8. CASE c # Backslash /\ c \notin PlainBytes /\ c \in DOMAIN Utf8Ranges
    <2>1. InString(l) = next_byte_in_range(l, Utf8Ranges[c])
        BY <1>4, <1>8, Zenon
    <2>2. Steps(b, s, q, buf, next_byte_in_range(l, Utf8Ranges[c]))
        BY <1>8, LeadSteps
    <2>3. QED BY <2>1, <2>2
<1>9. CASE c # Backslash /\ c \notin PlainBytes /\ c \notin DOMAIN Utf8Ranges
    <2>1. InString(l) = Fails(l)
        BY <1>4, <1>9, Zenon
    <2>2. FirstOf(s) = Bad
        <3>1. CASE c < \h20
            BY <1>2, <1>9, <3>1, Zenon DEF FirstOf
        <3>2. CASE ~(c < \h20)
            <4>1. c >= \h80
                BY <1>2, <1>5, <1>9, <3>2
            <4>2. CharacterLength(s) = 0
                BY <1>1, <1>2, <1>9, <4>1, LeadIs
            <4>3. QED BY <1>2, <1>9, <4>2, Zenon DEF FirstOf
        <3>3. QED BY <3>1, <3>2
    <2>3. QED BY <1>3, <2>1, <2>2, FailSteps
<1>10. QED BY <1>6, <1>7, <1>8, <1>9

(* Where a string is read, the rest of its text is.                        *)
LEMMA TailFollows ==
    ASSUME NEW b \in Seq(Nat), b # <<>>, NEW q \in 1..Len(b), NEW t, t = Tail(b)
    PROVE  LET rest == SubSeq(t, q, Len(t)) IN
           /\ t \in Seq(Nat) /\ Len(t) + 1 = Len(b) /\ q \in 1..(Len(t) + 1)
           /\ Follows(b, rest, q) /\ q + Len(rest) = Len(b)
<1> DEFINE rest == SubSeq(t, q, Len(t))
           n == Len(b)
           m == Len(t)
<1>1. n \in Nat /\ t \in Seq(Nat) /\ m = n - 1 /\ \A i \in 1..m : t[i] = b[i + 1]
    BY HeadTailProperties, LenProperties
<1>2. q \in Nat /\ m \in Nat /\ m + 1 = n /\ q \in 1..(m + 1)
    <2>1. n \in Nat /\ m = n - 1 /\ q \in 1..n
        BY <1>1
    <2> HIDE DEF n, m
    <2>2. QED BY <2>1
<1>3. rest \in Seq(Nat) /\ Len(rest) = m - q + 1
      /\ \A k \in Nat \ {0} : CharAt(rest, k) = CharAt(t, q - 1 + k)
    BY <1>1, <1>2, PlacesFrom
<1> HIDE DEF rest
<1>4. ASSUME NEW k \in Nat \ {0} PROVE CharAt(rest, k) = CharAt(b, q + k)
    <2> DEFINE p == q - 1 + k
    <2>1. p \in Nat \ {0} /\ p + 1 = q + k
        BY <1>2
    <2>2. CharAt(rest, k) = CharAt(t, p)
        BY <1>3
    <2> HIDE DEF p
    <2>3. DOMAIN t = 1..m /\ DOMAIN b = 1..n
        BY <1>1, LenProperties
    <2>4. p \in 1..m <=> p + 1 \in 1..n
        <3>1. m \in Nat /\ m + 1 = n /\ p \in Nat \ {0}
            BY <1>2, <2>1
        <3> HIDE DEF m, n
        <3>2. QED BY <3>1
    <2>5. p \in 1..m => t[p] = b[p + 1]
        BY <1>1
    <2>6. CharAt(t, p) = CharAt(b, p + 1)
        BY <2>3, <2>4, <2>5, Zenon DEF CharAt
    <2>7. QED BY <2>1, <2>2, <2>6
<1>5. Follows(b, rest, q)
    BY <1>2, <1>3, <1>4 DEF Follows
<1>6. q + Len(rest) = n
    <2> HIDE DEF m, n
    <2>1. QED BY <1>2, <1>3
<1>7. QED BY <1>1, <1>2, <1>5, <1>6 DEF rest, m, n

\* After n turns a string has failed, is complete, or is at a later byte.
Stringed(b, f, n, l) ==
    \/ Failed(l) /\ f[1] = Bad
    \/ l.token = "value_string" /\ f[1] # Bad /\ Scalars(l.value) = f[1]
    \/ \E q \in 1..Len(b), v \in Seq(Nat) :
          /\ q > n /\ Reads(b, l, q) /\ Spells(l.token_buffer, v) /\ f[1] = Join(v, f[q])

(* A turn of scan_string.                                                  *)
LEMMA StringedOn ==
    ASSUME NEW b \in Seq(Nat), b # <<>>, NEW t, t = Tail(b), NEW f,
           \A p \in 1..(Len(t) + 1) : f[p] = MeantTurn(t, f, p),
           NEW l, NEW n \in Nat, NEW before, NEW after,
           Stringed(b, f, n, before), after = StringTurn(l, before, n + 1)
    PROVE  Stringed(b, f, n + 1, after)
<1> DEFINE g == get(before)
<1>1. after = IF Done(before) THEN before ELSE InString(g)
    <2>1. n + 1 # 0
        OBVIOUS
    <2>2. QED BY <2>1, Zenon DEF StringTurn
<1>2. CASE Failed(before) /\ f[1] = Bad
    BY <1>1, <1>2, Zenon DEF Stringed, Done, Failed
<1>3. CASE before.token = "value_string" /\ f[1] # Bad /\ Scalars(before.value) = f[1]
    <2>1. Done(before)
        BY <1>3 DEF Done
    <2>2. QED BY <1>1, <1>3, <2>1, Zenon DEF Stringed
<1>4. ASSUME NEW q \in 1..Len(b), NEW v \in Seq(Nat), q > n, Reads(b, before, q),
             Spells(before.token_buffer, v), f[1] = Join(v, f[q])
      PROVE  Stringed(b, f, n + 1, after)
    <2> DEFINE rest == SubSeq(t, q, Len(t))
               buf == before.token_buffer
               first == FirstOf(rest)
    <2>1. /\ t \in Seq(Nat) /\ q \in 1..(Len(t) + 1) /\ Len(t) + 1 = Len(b)
          /\ Follows(b, rest, q) /\ q + Len(rest) = Len(b)
        BY TailFollows
    <2>2. Reads(b, g, q + 1) /\ g.current = CharAt(b, q + 1) /\ IsLexer(g) /\ g.token_buffer = buf
        BY <1>4, ReadsGet
    <2>3. after = InString(g)
        <3>1. ~Done(before)
            BY <1>4 DEF Reads, Done
        <3>2. QED BY <1>1, <3>1
    <2>4. rest \in Seq(Nat) /\ CharAt(rest, 1) = CharAt(b, q + 1) /\ q \in Nat
        BY <2>1, FollowsFirst
    <2>5. g.current = CharAt(rest, 1)
        BY <2>2, <2>4
    <2>6. f[q] = IF rest = <<>> THEN Bad
                 ELSE IF Head(rest) = Quote THEN <<>>
                 ELSE IF first = Bad THEN Bad ELSE Before(first[2], f[q + first[1]])
        BY <2>1 DEF MeantTurn
    <2>7. buf \in Seq(Int) /\ v \in Seq(Int)
        BY <1>4, SeqMonotonic DEF Spells
    <2>8. rest = <<>> <=> CharAt(rest, 1) = EOF
        BY <2>4, CharFacts
    <2>9. rest # <<>> => Head(rest) = CharAt(rest, 1)
        <3>1. \A k \in 1..Len(rest) : CharAt(rest, k) = rest[k]
            BY <2>4, CharFacts
        <3>2. rest # <<>> => 1 \in 1..Len(rest) /\ Head(rest) = rest[1]
            BY <2>4, CharFacts
        <3>3. QED BY ONLY <3>1, <3>2
    <2>10. f[q] = Bad => f[1] = Bad
        BY <1>4 DEF Join
    <2> HIDE DEF g, rest, first
    <2>11. CASE rest = <<>>
        <3>1. EOF # Quote /\ EOF # Backslash /\ EOF \notin PlainBytes /\ EOF \notin DOMAIN Utf8Ranges
            <4>1. DOMAIN Utf8Ranges = \hC2..\hF4
                BY DEF Utf8Ranges
            <4>2. QED BY <4>1, SMT DEF EOF, Quote, Backslash, PlainBytes
        <3>2. after = Fails(g)
            BY <2>3, <2>5, <2>8, <2>11, <3>1, Zenon DEF InString
        <3>3. Failed(after)
            BY <2>2, <3>2, FailsIsFailed
        <3>4. f[q] = Bad
            BY <2>6, <2>11, Zenon
        <3>5. QED BY <2>10, <3>3, <3>4, Zenon DEF Stringed
    <2>12. CASE rest # <<>> /\ CharAt(rest, 1) = Quote
        <3>1. f[q] = <<>>
            BY <2>6, <2>9, <2>12, Zenon
        <3>2. f[1] = v
            <4>1. v \o <<>> = v /\ <<>> # Bad
                BY DEF Bad
            <4>2. QED BY <1>4, <3>1, <4>1 DEF Join
        <3>3. Scalars(buf) = v /\ v # Bad
            BY <1>4, SpellsValue
        <3>4. after = Returns(g, "value_string", g.token_buffer)
            BY <2>3, <2>5, <2>12, Zenon DEF InString
        <3>5. after.token = "value_string" /\ after.value = buf
            BY <2>2, <3>4, ReturnsFacts
        <3>6. QED BY <3>2, <3>3, <3>5, Zenon DEF Stringed
    <2>13. CASE rest # <<>> /\ CharAt(rest, 1) # Quote
        <3>1. Steps(b, rest, q, buf, after)
            <4>1. Steps(b, rest, q, g.token_buffer, InString(g))
                BY <2>1, <2>2, <2>7, <2>13, InStringSteps
            <4>2. QED BY <2>2, <2>3, <4>1
        <3>2. CASE first = Bad /\ Failed(after)
            <4>1. f[q] = Bad
                BY <2>6, <2>9, <2>13, <3>2, Zenon
            <4>2. QED BY <2>10, <3>2, <4>1, Zenon DEF Stringed
        <3>3. ASSUME NEW k, NEW x, NEW w, IsFirst(rest, k, x), SpellsOne(w, x),
                     Gains(b, buf, q + k, w, after)
              PROVE  Stringed(b, f, n + 1, after)
            <4>1. k \in 1..Len(rest) /\ x \in Nat /\ first = <<k, x>> /\ first # Bad
                <5>1. k \in 1..Len(rest) /\ x \in Nat /\ first = <<k, x>>
                    BY <3>3, Zenon DEF IsFirst, first
                <5>2. QED BY <5>1, PairIsNotBad
            <4>2. f[q] = Before(x, f[q + k])
                <5>1. f[q] = Before(first[2], f[q + first[1]])
                    BY <2>6, <2>9, <2>13, <4>1, Zenon
                <5>2. first[1] = k /\ first[2] = x
                    BY <4>1
                <5>3. QED BY <5>1, <5>2
            <4>3. q + k \in 1..Len(b) /\ q + k > n + 1
                <5> DEFINE m == Len(b)
                           j == Len(rest)
                <5>1. m \in Nat /\ j \in Nat /\ k \in 1..j /\ q + j = m /\ q > n /\ q \in Nat
                    BY <1>4, <2>1, <2>4, <4>1, LenProperties
                <5> HIDE DEF m, j
                <5>2. q + k \in 1..m /\ q + k > n + 1
                    BY <5>1
                <5>3. QED BY <5>2 DEF m
            <4>4. f[q + k] \in Seq(Int)
                <5>1. \A i \in 1..(Len(t) + 1) : f[i] \in Seq(Int)
                    BY <2>1, MeantValues
                <5>2. q + k \in 1..(Len(t) + 1)
                    BY <2>1, <4>3
                <5>3. QED BY ONLY <5>1, <5>2
            <4> DEFINE vs == v \o <<x>>
            <4>5. Join(v, Before(x, f[q + k])) = Join(vs, f[q + k])
                BY ONLY <2>7, <4>1, <4>4, JoinBefore
            <4>6. Spells(buf \o w, vs)
                BY <1>4, <3>3, SpellsMore
            <4> HIDE DEF vs
            <4>7. Reads(b, after, q + k) /\ after.token_buffer = buf \o w
                BY <3>3, Zenon DEF Gains
            <4>8. Spells(after.token_buffer, vs) /\ vs \in Seq(Nat)
                BY <4>6, <4>7 DEF Spells
            <4>9. f[1] = Join(vs, f[q + k])
                BY <1>4, <4>2, <4>5
            <4>10. QED BY ONLY <4>3, <4>7, <4>8, <4>9 DEF Stringed
        <3>4. QED BY <3>1, <3>2, <3>3 DEF Steps, first
    <2>14. QED BY <2>11, <2>12, <2>13
<1>5. QED BY <1>2, <1>3, <1>4 DEF Stringed

(* The scanner reads the string from its quote.                            *)
LEMMA ScansString ==
    ASSUME NEW b \in Seq(Nat), b # <<>>, b[1] = Quote
    PROVE  \E l : /\ Read(b, l) /\ l.chars_read = 1 /\ l.current = Quote
                  /\ l.token = "uninitialized" /\ scan(Lexer(b)) = scan_string(l)
<1>1. /\ Quote # \hEF /\ Quote \notin Whitespace /\ Quote \notin DOMAIN Structural
      /\ Quote \notin DOMAIN Literals /\ Quote # Minus /\ Quote \notin Digits
      /\ Quote \notin {0, EOF}
    BY DEF Quote, Whitespace, Structural, Literals, Minus, Digits, Zero, EOF
<1>2. PICK l : /\ Read(b, l) /\ l.chars_read = 1 /\ l.current = b[1]
               /\ l.token = "uninitialized" /\ scan(Lexer(b)) = scan_token(l)
    BY <1>1, ScansFirst
<1>3. scan_token(l) = scan_string(l)
    BY <1>1, <1>2, SMTT(60) DEF scan_token
<1>4. QED BY <1>2, <1>3

(* A string is what it means, or fails if it means nothing.                *)
LEMMA StringScanned ==
    ASSUME NEW b \in Seq(Nat), b # <<>>, NEW l, Read(b, l), l.chars_read = 1,
           l.token = "uninitialized"
    PROVE  LET r == scan_string(l)
               meant == Meaning(Tail(b))
           IN  IF meant = Bad THEN Failed(r)
               ELSE r.token = "value_string" /\ Scalars(r.value) = meant
<1> DEFINE r == scan_string(l)
           t == Tail(b)
           meant == Meaning(t)
           N == Turns(l)
<1>1. /\ IsLexer(l) /\ l.ia = b /\ l.taken = 1 /\ l.current = CharAt(b, 1)
      /\ l.next_unget \in BOOLEAN /\ ~l.next_unget /\ Len(b) \in Nat /\ Len(b) # 0
    <2>1. Len(b) \in Nat /\ Len(b) # 0
        BY LenProperties, EmptySeq
    <2>2. /\ IsLexer(l) /\ l.ia = b /\ l.next_unget \in BOOLEAN /\ ~l.next_unget
          /\ l.taken \in Nat /\ l.current = CharAt(b, l.taken)
          /\ l.chars_read = IF l.next_unget THEN l.taken - 1 ELSE l.taken
        BY Zenon DEF Read, Kept
    <2>3. l.taken = 1
        BY <2>2
    <2>4. QED BY <2>1, <2>2, <2>3
<1>2. N = Len(b) + 1 /\ N \in Nat
    BY <1>1 DEF Turns
<1>3. PICK after : /\ r = after[N]
                   /\ \A n \in 0..N : after[n] = StringTurn(l, after[n - 1], n)
    BY ONLY <1>2, StringTurns
<1>4. t \in Seq(Nat) /\ Len(t) + 1 = Len(b) /\ 1 \in 1..Len(b)
    <2>1. 1 \in 1..Len(b)
        BY <1>1
    <2>2. QED BY <2>1, TailFollows
<1> HIDE DEF t, r
<1>5. PICK f : meant = f[1] /\ \A p \in 1..(Len(t) + 1) : f[p] = MeantTurn(t, f, p)
    BY <1>4, MeantTurns
<1> HIDE DEF meant, N
<1> DEFINE G == {n \in Nat : Stringed(b, f, n, after[n])}
<1>6. 0 \in G
    <2> DEFINE g == reset(l)
    <2>1. after[0] = g
        BY <1>2, <1>3 DEF StringTurn
    <2>2. /\ IsLexer(g) /\ g.ia = l.ia /\ g.taken = l.taken /\ g.current = l.current
          /\ g.next_unget = l.next_unget /\ g.chars_read = l.chars_read /\ g.token = l.token
          /\ g.token_buffer = <<>>
        BY <1>1, ResetFacts
    <2> HIDE DEF g
    <2>3. g.next_unget \in BOOLEAN /\ ~g.next_unget
        BY <1>1, <2>2, Zenon
    <2>4. g.taken = 1 /\ g.ia = b /\ g.current = CharAt(b, 1) /\ g.chars_read \in Int
          /\ g.token = "uninitialized" /\ 1 \in Nat
        BY <1>1, <2>2
    <2>5. Reads(b, g, 1)
        BY <2>2, <2>3, <2>4, Zenon DEF Reads
    <2>6. f[1] \in Seq(Int)
        <3>1. \A i \in 1..(Len(t) + 1) : f[i] \in Seq(Int)
            BY <1>4, <1>5, MeantValues
        <3>2. 1 \in 1..(Len(t) + 1)
            BY <1>4
        <3>3. QED BY ONLY <3>1, <3>2
    <2>7. f[1] = Join(<<>>, f[1])
        <3>1. <<>> \o f[1] = f[1]
            BY <2>6, ConcatEmptySeq
        <3>2. QED BY <3>1 DEF Join
    <2>8. Spells(g.token_buffer, <<>>)
        BY <2>2, SpellsNothing
    <2>9. <<>> \in Seq(Nat) /\ 1 > 0
        OBVIOUS
    <2>10. Stringed(b, f, 0, g)
        BY ONLY <1>4, <2>5, <2>7, <2>8, <2>9 DEF Stringed
    <2>11. QED BY <2>1, <2>10
<1>7. ASSUME NEW n \in 0..(N - 1), n \in G PROVE n + 1 \in G
    <2>1. n \in Nat /\ n + 1 \in Nat /\ n + 1 \in 0..N /\ (n + 1) - 1 = n
        BY <1>2
    <2>2. after[n + 1] = StringTurn(l, after[n], n + 1)
        BY <1>3, <2>1
    <2>3. Stringed(b, f, n, after[n])
        BY <1>7
    <2>4. Stringed(b, f, n + 1, after[n + 1])
        BY ONLY <1>5, <2>1, <2>2, <2>3, StringedOn, b \in Seq(Nat), b # <<>> DEF t
    <2>5. QED BY <2>1, <2>4
<1> HIDE DEF G
<1>8. \A n \in 0..N : n \in G
    BY ONLY <1>2, <1>6, <1>7, InductionTo
<1>9. N \in G
    BY <1>2, <1>8
<1>10. Stringed(b, f, N, r)
    BY <1>3, <1>9 DEF G
<1>11. ~\E q \in 1..Len(b) : q > N
    BY <1>1, <1>2
<1>12. \/ Failed(r) /\ f[1] = Bad
       \/ r.token = "value_string" /\ f[1] # Bad /\ Scalars(r.value) = f[1]
    BY <1>10, <1>11, Zenon DEF Stringed
<1>13. IF meant = Bad THEN Failed(r) ELSE r.token = "value_string" /\ Scalars(r.value) = meant
    BY <1>5, <1>12, Zenon
<1>14. QED BY <1>13 DEF meant, r, t

(* What holds of every string holds of a text that begins with a quote.    *)
LEMMA TypedString == Typed => StringIsUnicode
<1>1. SUFFICES ASSUME Typed, Starts({Quote}), NEW s \in {text, Append(text, Quote)}
               PROVE  LET l == scan(Lexer(s))
                          meant == Meaning(Tail(s))
                      IN  IF meant = Bad THEN Failed(l)
                          ELSE l.token = "value_string" /\ Scalars(l.value) = meant
    BY DEF StringIsUnicode
<1>2. text \in Seq(Nat)
    <2>1. Units(1) \subseteq Nat
        BY SMT DEF Units, LargestUnit
    <2>2. text \in Seq(Units(1))
        BY <1>1 DEF Typed, Starts, Narrow
    <2>3. QED BY <2>1, <2>2, SeqMonotonic
<1>3. text # <<>> /\ text[1] = Quote
    <2>1. text # <<>> /\ Head(text) \in {Quote}
        BY <1>1 DEF Starts
    <2>2. QED BY <1>2, <2>1
<1>4. s \in Seq(Nat) /\ s # <<>> /\ s[1] = Quote
    <2>1. CASE s = text
        BY <1>2, <1>3, <2>1
    <2>2. CASE s = Append(text, Quote)
        <3>1. Quote \in Nat
            BY DEF Quote
        <3>2. s \in Seq(Nat) /\ Len(s) = Len(text) + 1 /\ \A i \in 1..Len(text) : s[i] = text[i]
            BY ONLY <1>2, <2>2, <3>1, AppendProperties
        <3>3. Len(text) \in Nat /\ 1 \in 1..Len(text)
            BY <1>2, <1>3, CharFacts, LenProperties
        <3>4. QED BY <1>3, <3>2, <3>3
    <2>3. QED BY <1>1, <2>1, <2>2
<1>5. PICK l : /\ Read(s, l) /\ l.chars_read = 1 /\ l.token = "uninitialized"
               /\ scan(Lexer(s)) = scan_string(l)
    BY <1>4, ScansString
<1>6. QED BY <1>4, <1>5, StringScanned

(* Of every text that begins with a quote the scanner makes a string       *)
(* exactly if Unicode and RFC 7159 do, and then the string that they mean; *)
(* it fails otherwise (scan_string, get_codepoint and next_byte_in_range,  *)
(* json.hpp 2408-2911).                                                    *)
THEOREM StringsAreUnicode == TextSpec => []StringIsUnicode
    BY TextTyped, TypedString, PTL
=============================================================================
