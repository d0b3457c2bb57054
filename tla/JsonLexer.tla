------------------------------ MODULE JsonLexer ------------------------------
(***************************************************************************)
(* class lexer of json.hpp (2295-3598): from the bytes of a text, taken    *)
(* one at a time and with one of them given back, to the tokens of JSON.   *)
(* The members are a record, and a function gives the record after it; a   *)
(* function that fails gives the token parse_error.                        *)
(***************************************************************************)
EXTENDS JsonInput, JsonValue

CONSTANT DecimalPoint  \* the locale's, a byte

Quote == \h22
Backslash == \h5C
Minus == \h2D
Point == \h2E
Zero == \h30
Digits == Zero..\h39
ExponentMarks == {\h45, \h65}
Whitespace == {\h20, \h09, \h0A, \h0D}

-----------------------------------------------------------------------------
(* Input management.                                                       *)

Lexer(chars) ==
    [ia |-> chars, taken |-> 0, current |-> EOF, next_unget |-> FALSE, chars_read |-> 0,
     token_string |-> <<>>, token_buffer |-> <<>>, token |-> "uninitialized", value |-> <<>>]

reset(l) == [l EXCEPT !.token_buffer = <<>>, !.token_string = <<l.current>>]

get(l) ==
    LET taken == IF l.next_unget THEN l.taken ELSE l.taken + 1
        c == CharAt(l.ia, taken)
    IN  [l EXCEPT !.chars_read = @ + 1, !.next_unget = FALSE, !.taken = taken, !.current = c,
                  !.token_string = IF c = EOF THEN @ ELSE Append(@, c)]

\* Mutant: the byte is given back and stays in the token's text.
unget_TextKept(l) == [l EXCEPT !.next_unget = TRUE, !.chars_read = @ - 1]

unget(l) ==
    [l EXCEPT !.next_unget = TRUE, !.chars_read = @ - 1,
              !.token_string = IF l.current = EOF THEN @ ELSE Front(@)]

add(l, c) == [l EXCEPT !.token_buffer = Append(@, c)]

\* The bytes of a code point are added one after the other.
AddCodepoint(l, codepoint) == [l EXCEPT !.token_buffer = @ \o Utf8(codepoint)]

Returns(l, token, value) == [l EXCEPT !.token = token, !.value = value]
Fails(l) == Returns(l, "parse_error", <<>>)
Failed(l) == l.token = "parse_error"

\* A function that goes on has not returned a token yet.  No loop takes more
\* turns than there are bytes and the end of the text.
Begun(l) == Returns(l, "uninitialized", <<>>)
Done(l) == l.token # "uninitialized"
Turns(l) == Len(l.ia) + 1

-----------------------------------------------------------------------------
(* Strings.                                                                *)

HexDigit(c) ==
    CASE c \in Digits -> c - Zero
      [] c \in \h41..\h46 -> c - \h37
      [] c \in \h61..\h66 -> c - \h57
      [] OTHER -> -1

\* The four digits after \u, or -1 at the first that is none.
get_codepoint(l) ==
    LET after[n \in 0..4] ==
          LET before == after[n - 1]
              g == get(before[1])
              digit == HexDigit(g.current)
          IN  IF n = 0 THEN <<l, 0>>
              ELSE IF before[2] = -1 THEN before
              ELSE <<g, IF digit = -1 THEN -1 ELSE before[2] * 16 + digit>>
    IN  after[4]

Surrogates == \hD800..\hDFFF
HighSurrogates == \hD800..\hDBFF
LowSurrogates == \hDC00..\hDFFF

\* Mutant: any escape may follow a high surrogate.
AddPair_AnyLow(l, high, low) ==
    IF low = -1 THEN Fails(l)
    ELSE AddCodepoint(l, high * 1024 + low - \h35FDC00)

\* A pair of surrogates is a code point.
AddPair(l, high, low) ==
    IF low \notin LowSurrogates THEN Fails(l)
    ELSE AddCodepoint(l, high * 1024 + low - \h35FDC00)

\* A high surrogate needs a low one in an escape of its own right after it.
SecondEscape(l, high) ==
    LET backslash == get(l)
        u == get(backslash)
        Low(second) == AddPair(second[1], high, second[2])
    IN  IF backslash.current # Backslash THEN Fails(backslash)
        ELSE IF u.current # \h75 THEN Fails(u)
        ELSE Low(get_codepoint(u))

UnicodeEscape(l) ==
    LET First(first) ==
            IF first[2] = -1 \/ first[2] \in LowSurrogates THEN Fails(first[1])
            ELSE IF first[2] \in HighSurrogates THEN SecondEscape(first[1], first[2])
            ELSE AddCodepoint(first[1], first[2])
    IN  First(get_codepoint(l))

SimpleEscapes ==
    [c \in {Quote, Backslash, \h2F, \h62, \h66, \h6E, \h72, \h74} |->
        CASE c = \h62 -> \h08 [] c = \h66 -> \h0C [] c = \h6E -> \h0A [] c = \h72 -> \h0D
          [] c = \h74 -> \h09 [] OTHER -> c]

Escape(l) ==
    LET g == get(l)
    IN  IF g.current = \h75 THEN UnicodeEscape(g)
        ELSE IF g.current \in DOMAIN SimpleEscapes THEN add(g, SimpleEscapes[g.current])
        ELSE Fails(g)

PlainBytes == (\h20..\h7F) \ {Quote, Backslash}

\* What may follow the first byte of a longer character.
Continuation == \h80..\hBF
Utf8Ranges ==
    [c \in \hC2..\hF4 |->
        CASE c <= \hDF -> <<Continuation>>
          [] c = \hE0 -> <<\hA0..\hBF, Continuation>>
          [] c = \hED -> <<\h80..\h9F, Continuation>>
          [] c = \hF0 -> <<\h90..\hBF, Continuation, Continuation>>
          [] c = \hF4 -> <<\h80..\h8F, Continuation, Continuation>>
          [] c \in \hF1..\hF3 -> <<Continuation, Continuation, Continuation>>
          [] OTHER -> <<Continuation, Continuation>>]

next_byte_in_range(l, ranges) ==
    LET after[n \in 0..Len(ranges)] ==
          LET before == after[n - 1]
              g == get(before)
          IN  IF n = 0 THEN add(l, l.current)
              ELSE IF Done(before) THEN before
              ELSE IF g.current \in ranges[n] THEN add(g, g.current) ELSE Fails(g)
    IN  after[Len(ranges)]

\* The end of the text, a control character or a byte that cannot be here fails.
InString(g) ==
    LET c == g.current
    IN  IF c = Quote THEN Returns(g, "value_string", g.token_buffer)
        ELSE IF c = Backslash THEN Escape(g)
        ELSE IF c \in PlainBytes THEN add(g, c)
        ELSE IF c \in DOMAIN Utf8Ranges THEN next_byte_in_range(g, Utf8Ranges[c])
        ELSE Fails(g)

scan_string(l) ==
    LET after[n \in 0..Turns(l)] ==
          LET before == after[n - 1]
          IN  IF n = 0 THEN reset(l)
              ELSE IF Done(before) THEN before ELSE InString(get(before))
    IN  after[Turns(l)]

-----------------------------------------------------------------------------
(* Numbers.                                                                *)

AfterInteger(c) ==
    IF c = Point THEN "decimal1" ELSE IF c \in ExponentMarks THEN "exponent" ELSE "done"

\* Where the labels go to, on the byte that is current.
Goto(label, c) ==
    CASE label = "init" -> IF c = Minus THEN "minus" ELSE IF c = Zero THEN "zero" ELSE "any1"
      [] label = "minus" -> IF c = Zero THEN "zero" ELSE IF c \in Digits THEN "any1" ELSE "error"
      [] label = "zero" -> AfterInteger(c)
      [] label = "any1" -> IF c \in Digits THEN "any1" ELSE AfterInteger(c)
      [] label = "decimal1" -> IF c \in Digits THEN "decimal2" ELSE "error"
      [] label = "decimal2" -> IF c \in Digits THEN "decimal2"
                               ELSE IF c \in ExponentMarks THEN "exponent" ELSE "done"
      [] label = "exponent" -> IF c \in {\h2B, Minus} THEN "sign"
                               ELSE IF c \in Digits THEN "any2" ELSE "error"
      [] label = "sign" -> IF c \in Digits THEN "any2" ELSE "error"
      [] label = "any2" -> IF c \in Digits THEN "any2" ELSE "done"

\* A minus makes it signed, a point or an exponent a float.
TypeAt(label, number_type) ==
    CASE label = "minus" -> "value_integer"
      [] label \in {"decimal1", "exponent"} -> "value_float"
      [] OTHER -> number_type

Magnitude(digits) == FoldLeft(LAMBDA n, d : n * 10 + (d - Zero), 0, digits)

\* scan_number_done: an integer that strtoull or strtoll has no room for
\* becomes a float, which is left as its text.
Converted(l, number_type) ==
    LET n == Magnitude(l.token_buffer)
        m == Magnitude(Tail(l.token_buffer))
    IN  CASE number_type = "value_unsigned" /\ n <= UnsignedMax -> Returns(l, number_type, n)
          [] number_type = "value_integer" /\ m <= UnsignedMax \div 2 + 1 ->
                Returns(l, number_type, -m)
          [] OTHER -> Returns(l, "value_float", l.token_buffer)

\* At a label the byte that is current has not been added yet.
AtLabel(l, label, number_type) == [lexer |-> l, label |-> label, number_type |-> number_type]

Labelled(s) ==
    LET l == s.lexer
        c == l.current
        next == Goto(s.label, c)
    IN  IF next = "error" THEN AtLabel(Fails(l), next, s.number_type)
        ELSE IF next = "done" THEN AtLabel(Converted(unget(l), s.number_type), next, s.number_type)
        ELSE AtLabel(get(add(l, IF c = Point THEN DecimalPoint ELSE c)), next, TypeAt(next, s.number_type))

scan_number(l) ==
    LET after[n \in 0..Turns(l)] ==
          LET before == after[n - 1]
          IN  IF n = 0 THEN AtLabel(reset(l), "init", "value_unsigned")
              ELSE IF before.label \in {"done", "error"} THEN before ELSE Labelled(before)
    IN  after[Turns(l)].lexer

-----------------------------------------------------------------------------
(* Tokens.                                                                 *)

scan_literal(l, literal_text, return_type) ==
    LET after[i \in 0..(Len(literal_text) - 1)] ==
          LET before == after[i - 1]
              g == get(before)
          IN  IF i = 0 THEN l
              ELSE IF Done(before) THEN before
              ELSE IF g.current = literal_text[i + 1] THEN g ELSE Fails(g)
        all == after[Len(literal_text) - 1]
    IN  IF Done(all) THEN all ELSE Returns(all, return_type, <<>>)

skip_bom(l) ==
    LET first == get(l)
        second == get(first)
        third == get(second)
    IN  IF first.current # \hEF THEN unget(first)
        ELSE IF second.current # \hBB THEN Fails(second)
        ELSE IF third.current # \hBF THEN Fails(third)
        ELSE third

Structural ==
    [c \in {\h5B, \h5D, \h7B, \h7D, \h3A, \h2C} |->
        CASE c = \h5B -> "begin_array" [] c = \h5D -> "end_array"
          [] c = \h7B -> "begin_object" [] c = \h7D -> "end_object"
          [] c = \h3A -> "name_separator" [] c = \h2C -> "value_separator"]

Literals ==
    [c \in {\h74, \h66, \h6E} |->
        CASE c = \h74 -> <<"literal_true", <<\h74, \h72, \h75, \h65>>>>
          [] c = \h66 -> <<"literal_false", <<\h66, \h61, \h6C, \h73, \h65>>>>
          [] c = \h6E -> <<"literal_null", <<\h6E, \h75, \h6C, \h6C>>>>]

\* The token that the byte read last begins.
scan_token(l) ==
    LET c == l.current
    IN  CASE c \in DOMAIN Structural -> Returns(l, Structural[c], <<>>)
          [] c \in DOMAIN Literals -> scan_literal(l, Literals[c][2], Literals[c][1])
          [] c = Quote -> scan_string(l)
          [] c = Minus \/ c \in Digits -> scan_number(l)
          [] c \in {0, EOF} -> Returns(l, "end_of_input", <<>>)
          [] OTHER -> Fails(l)

\* The byte after any whitespace.
skip_whitespace(l) ==
    LET after[n \in 0..Turns(l)] ==
          LET before == after[n - 1]
          IN  IF n = 0 THEN get(l)
              ELSE IF before.current \in Whitespace THEN get(before) ELSE before
    IN  after[Turns(l)]

scan(l) ==
    LET start == IF l.chars_read = 0 THEN skip_bom(Begun(l)) ELSE Begun(l)
    IN  IF Done(start) THEN start ELSE scan_token(skip_whitespace(start))

Ends(l) == l.token \in {"end_of_input", "parse_error"}

\* The scanner after each of its tokens, up to the last or the first error.
Scanned(chars) ==
    LET after[n \in 0..(Len(chars) + 1)] ==
          LET before == after[n - 1]
          IN  IF n = 0 THEN <<scan(Lexer(chars))>>
              ELSE IF Ends(Last(before)) THEN before
              ELSE Append(before, scan(Last(before)))
    IN  after[Len(chars) + 1]
=============================================================================
