------------------------------ MODULE JsonTexts ------------------------------
(***************************************************************************)
(* What the lexer makes of every text that can be put together from some   *)
(* pieces, against what RFC 7159 and Unicode say of such a text.           *)
(***************************************************************************)
EXTENDS JsonUnicode

CONSTANT Writings  \* records [size, opening, pieces, max, first]

\* What a unit of so many bytes may be; the widest are cast to int.
LargestUnit(size) == IF size = 1 THEN \hFF ELSE \hFFFF
Units(size) == IF size = 4 THEN Int ELSE 0..LargestUnit(size)

ASSUME WritingAssumption ==
    \A w \in Writings :
        /\ w.size \in {1, 2, 4} /\ w.max \in Nat /\ w.first \in BOOLEAN
        /\ w.opening \in Seq(Units(w.size)) /\ w.pieces \subseteq Seq(Units(w.size))

VARIABLES text,    \* the units of the text
          writing  \* of what size they are, and how they are put together

TextInit == writing \in Writings /\ text = writing.opening

\* A text is read on from its first token only if it is meant to be: what
\* stands after a token that is complete does not change it.
Undecided == ~writing.first \/ scan(Lexer(input_adapter(text, writing.size))).current = EOF

Extend ==
    \E p \in writing.pieces :
        /\ Len(text) + Len(p) <= writing.max /\ Undecided
        /\ text' = text \o p
        /\ UNCHANGED writing

TextSpec == TextInit /\ [][Extend]_<<text, writing>>

Narrow == writing.size = 1
Starts(chars) == Narrow /\ text # <<>> /\ Head(text) \in chars

-----------------------------------------------------------------------------
(* Numbers.                                                                *)

AllDigits(s) == \A i \in DOMAIN s : s[i] \in Digits
SomeDigits(s) == s # <<>> /\ AllDigits(s)

IsInteger(s) == SomeDigits(s) /\ (Len(s) = 1 \/ Head(s) # Zero)
IsFraction(s) == s # <<>> => Head(s) = Point /\ SomeDigits(Tail(s))
IsExponent(s) ==
    s # <<>> =>
        /\ Head(s) \in ExponentMarks
        /\ \/ SomeDigits(Tail(s))
           \/ Len(s) > 1 /\ s[2] \in {\h2B, Minus} /\ SomeDigits(Tail(Tail(s)))

\* RFC 7159, 6: an optional minus, the integer, a fraction, an exponent.
IsNumber(s) ==
    \E i, j \in 0..Len(s) :
        LET from == IF s # <<>> /\ Head(s) = Minus THEN 2 ELSE 1
        IN  /\ i <= j
            /\ IsInteger(SubSeq(s, from, i)) /\ IsFraction(SubSeq(s, i + 1, j))
            /\ IsExponent(SubSeq(s, j + 1, Len(s)))

\* A number, or one but for a digit that is still to come.
IsNumberSoFar(s) == IsNumber(s) \/ IsNumber(Append(s, Zero))

HasIntegerText(s) == AllDigits(s) \/ (Head(s) = Minus /\ AllDigits(Tail(s)))

\* What the number at the beginning of a text, up to where it can go on no
\* longer, has to make of the scanner.
NumberTaken(l, number) ==
    LET magnitude == Magnitude(IF Head(number) = Minus THEN Tail(number) ELSE number)
        room == IF Head(number) = Minus THEN UnsignedMax \div 2 + 1 ELSE UnsignedMax
    IN  IF ~IsNumber(number) THEN Failed(l)
        ELSE /\ l.chars_read = Len(number) /\ l.token_string = number
             /\ l.token_buffer = [i \in DOMAIN number |->
                                    IF number[i] = Point THEN DecimalPoint ELSE number[i]]
             /\ IF HasIntegerText(number) /\ magnitude <= room
                THEN /\ l.value = IF Head(number) = Minus THEN -magnitude ELSE magnitude
                     /\ l.token = IF Head(number) = Minus THEN "value_integer"
                                  ELSE "value_unsigned"
                ELSE l.token = "value_float"

(* A number is taken up to where it can go on no longer, no byte of what   *)
(* follows is lost, and it is an error exactly if it is not complete there.*)
(* It is an integer exactly if it is written as one and there is room.     *)
NumberIsLongest ==
    Starts(Digits \cup {Minus}) =>
        LET longest == Max({n \in DOMAIN text : IsNumberSoFar(SubSeq(text, 1, n))})
        IN  NumberTaken(scan(Lexer(text)), SubSeq(text, 1, longest))

FollowEachOther(l, m) ==
    /\ l.chars_read < m.chars_read
    /\ m.chars_read - Len(m.token_string) >= l.chars_read - Len(l.token_string)
CoverText(tokens) ==
    /\ \A i \in DOMAIN tokens :
          IsSuffix(tokens[i].token_string, SubSeq(text, 1, Min({tokens[i].chars_read, Len(text)})))
    /\ \A i \in 1..(Len(tokens) - 1) : FollowEachOther(tokens[i], tokens[i + 1])

(* The tokens are the text: each begins where the one before it ended, and *)
(* what an error message quotes is the text up to the last byte read, from *)
(* a place that never goes back.                                           *)
TokensCoverText == Narrow => CoverText(Scanned(text))

(* Together: what the scanner does with the bytes of a text.               *)
TokensOfText == NumberIsLongest /\ TokensCoverText

-----------------------------------------------------------------------------
(* Strings.                                                                *)

\* What a pair of surrogates stands for.
CodePoint(high, low) == \h10000 + (high - \hD800) * 1024 + (low - \hDC00)

\* What four digits after \u are the number of, or -1.
EscapedUnit(s) ==
    IF Len(s) >= 6 /\ s[1] = Backslash /\ s[2] = \h75 /\ \A i \in 3..6 : HexDigit(s[i]) >= 0
    THEN ((HexDigit(s[3]) * 16 + HexDigit(s[4])) * 16 + HexDigit(s[5])) * 16 + HexDigit(s[6])
    ELSE -1

\* The number of bytes of the next character or escape of a string, and the
\* code point it means; Bad for none.
FirstOf(s) ==
    LET rest == SubSeq(s, 7, Len(s))
        n == CharacterLength(s)
        unit == EscapedUnit(s)
        low == EscapedUnit(rest)
    IN  IF Head(s) = Backslash
        THEN IF IsScalar(unit) THEN <<6, unit>>
             ELSE IF unit \in HighSurrogates /\ low \in LowSurrogates
             THEN <<12, CodePoint(unit, low)>>
             ELSE IF Len(s) > 1 /\ s[2] \in DOMAIN SimpleEscapes
             THEN <<2, SimpleEscapes[s[2]]>> ELSE Bad
        ELSE IF n = 0 \/ Head(s) < \h20 THEN Bad
        ELSE <<n, Payload(s, n)>>

\* The code points of a string whose opening quote is gone; Bad if it has
\* no closing one or anything before it that is not a character.
Meaning(s) ==
    LET from[i \in 1..(Len(s) + 1)] ==
          LET rest == SubSeq(s, i, Len(s))
              first == FirstOf(rest)
          IN  IF rest = <<>> THEN Bad
              ELSE IF Head(rest) = Quote THEN <<>>
              ELSE IF first = Bad THEN Bad ELSE Before(first[2], from[i + first[1]])
    IN  from[1]

(* A string is accepted exactly if it is made of Unicode scalar values, in *)
(* shortest UTF-8 or escaped, surrogates only in pairs of escapes; and its *)
(* value is those scalar values, the same however they were written.       *)
StringIsUnicode ==
    Starts({Quote}) =>
        \A s \in {text, Append(text, Quote)} :
            LET l == scan(Lexer(s))
                meant == Meaning(Tail(s))
            IN  IF meant = Bad THEN Failed(l)
                ELSE l.token = "value_string" /\ Scalars(l.value) = meant

-----------------------------------------------------------------------------
(* Wide strings.                                                           *)

\* The scalar values of a UTF-16 or UTF-32 string; Bad if it is ill-formed.
WideMeaning(s, size) ==
    LET from[i \in 1..(Len(s) + 1)] ==
          IF i > Len(s) THEN <<>>
          ELSE IF IsScalar(s[i]) THEN Before(s[i], from[i + 1])
          ELSE IF /\ size = 2 /\ i < Len(s) /\ s[i] \in HighSurrogates /\ s[i + 1] \in LowSurrogates
          THEN Before(CodePoint(s[i], s[i + 1]), from[i + 2])
          ELSE Bad
    IN  from[1]

(* A well-formed wide text reads like its UTF-8; of an ill-formed one the  *)
(* lexer stops before the adapter reads past the end of the string, where  *)
(* a surrogate at the very end has moved the adapter's index.              *)
WideTextAsNarrow ==
    ~Narrow =>
        LET read == WideCharacters(text, writing.size)
            meant == WideMeaning(text, writing.size)
        IN  /\ meant # Bad => Scalars(read.bytes) = meant
            /\ read.past => Last(Scanned(read.bytes)).taken <= Len(read.bytes)
=============================================================================
