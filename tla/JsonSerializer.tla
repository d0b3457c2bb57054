--------------------------- MODULE JsonSerializer ---------------------------
(***************************************************************************)
(* class serializer of json.hpp (9747-10350), but for the digits of a      *)
(* floating-point number, which stay as they were written.  The output is  *)
(* kept with the size indent_string has grown to.                          *)
(***************************************************************************)
EXTENDS JsonInput, JsonValue

CONSTANTS IndentSize,  \* of indent_string at first
          IndentChar

ASSUME IndentAssumption == IndentSize \in Nat \ {0} /\ IndentChar \in {\h20, \h09}

-----------------------------------------------------------------------------
(* Strings: the automaton of UTF-8.                                        *)

ByteClasses ==
    <<<<\h00..\h7F, 0>>, <<\h80..\h8F, 1>>, <<\h90..\h9F, 9>>, <<\hA0..\hBF, 7>>, <<\hC0..\hC1, 8>>,
      <<\hC2..\hDF, 2>>, <<{\hE0}, 10>>, <<(\hE1..\hEC) \cup {\hEE, \hEF}, 3>>, <<{\hED}, 4>>,
      <<{\hF0}, 11>>, <<\hF1..\hF3, 6>>, <<{\hF4}, 5>>, <<\hF5..\hFF, 8>>>>

ByteClass == [b \in 0..255 |-> (CHOOSE c \in Range(ByteClasses) : b \in c[1])[2]]

UTF8_ACCEPT == 0
UTF8_REJECT == 1

\* The row of state 0, and what each other state takes and goes to.
FirstRow == <<0, 1, 2, 3, 5, 8, 7, 1, 1, 1, 4, 6>>
LaterRows ==
    (2 :> <<{1, 7, 9}, 0>>) @@ (3 :> <<{1, 7, 9}, 2>>) @@ (4 :> <<{7}, 2>>) @@ (5 :> <<{1, 9}, 2>>)
    @@ (6 :> <<{7, 9}, 3>>) @@ (7 :> <<{1, 7, 9}, 3>>) @@ (8 :> <<{1}, 3>>)

\* The state and the code point after one more byte.
decode(state, codep, byte) ==
    LET type == ByteClass[byte]
    IN  IF state = UTF8_ACCEPT
        THEN <<FirstRow[type + 1], IF type > 8 THEN 0 ELSE byte % 2 ^ (8 - type)>>
        ELSE <<IF type \in LaterRows[state][1] THEN LaterRows[state][2] ELSE UTF8_REJECT,
               codep * 64 + (byte % 64)>>

ShortEscapes ==
    (\h08 :> \h62) @@ (\h09 :> \h74) @@ (\h0A :> \h6E) @@ (\h0C :> \h66) @@ (\h0D :> \h72)
    @@ (\h22 :> \h22) @@ (\h5C :> \h5C)

HexText(n) == IF n < 10 THEN \h30 + n ELSE \h57 + n
Escaped(unit) ==
    <<\h5C, \h75>> \o [i \in 1..4 |-> HexText((unit \div 16 ^ (4 - i)) % 16)]

\* What a code point is written as, given its last byte.
Encoded(codepoint, byte, ensure_ascii) ==
    IF codepoint \in DOMAIN ShortEscapes THEN <<\h5C, ShortEscapes[codepoint]>>
    ELSE IF codepoint > \h1F /\ ~(ensure_ascii /\ codepoint >= \h7F) THEN <<byte>>
    ELSE IF codepoint <= \hFFFF THEN Escaped(codepoint)
    ELSE Escaped(\hD7C0 + codepoint \div 1024) \o Escaped(\hDC00 + (codepoint % 1024))

\* Mutant: the bytes before the last are copied also for what is escaped.
dump_escaped_Twice(s, ensure_ascii) ==
    LET Next(d, byte) ==
          LET decoded == decode(d.state, d.codepoint, byte)
          IN  [state |-> decoded[1], codepoint |-> decoded[2],
               out |-> d.out \o IF decoded[1] = UTF8_ACCEPT THEN Encoded(decoded[2], byte, ensure_ascii)
                                ELSE <<byte>>]
        end == FoldLeft(LAMBDA d, byte : IF d.state = UTF8_REJECT THEN d ELSE Next(d, byte),
                        [state |-> UTF8_ACCEPT, codepoint |-> 0, out |-> <<>>], s)
    IN  IF end.state = UTF8_ACCEPT THEN end.out ELSE <<Thrown>>

\* A byte that cannot follow throws, and so does an end within a character.
\* The 512 bytes of string_buffer are left out: a flush (10091-10098) hands
\* the output adapter the same bytes earlier.
dump_escaped(s, ensure_ascii) ==
    LET Next(d, byte) ==
          LET decoded == decode(d.state, d.codepoint, byte)
          IN  [state |-> decoded[1], codepoint |-> decoded[2],
               out |-> d.out \o CASE decoded[1] = UTF8_ACCEPT -> Encoded(decoded[2], byte, ensure_ascii)
                                  [] decoded[1] # UTF8_ACCEPT /\ ~ensure_ascii -> <<byte>>
                                  [] OTHER -> <<>>]
        end == FoldLeft(LAMBDA d, byte : IF d.state = UTF8_REJECT THEN d ELSE Next(d, byte),
                        [state |-> UTF8_ACCEPT, codepoint |-> 0, out |-> <<>>], s)
    IN  IF end.state = UTF8_ACCEPT THEN end.out ELSE <<Thrown>>

-----------------------------------------------------------------------------
(* Numbers.                                                                *)

dump_integer(x) ==
    LET digits[n \in Nat] == (IF n < 10 THEN <<>> ELSE digits[n \div 10]) \o <<\h30 + (n % 10)>>
    IN  IF x < 0 THEN <<\h2D>> \o digits[-x] ELSE digits[x]

NullText == <<\h6E, \h75, \h6C, \h6C>>
NotFinite == <<-1>>

dump_float(x) == IF x = NotFinite THEN NullText ELSE x

-----------------------------------------------------------------------------
(* Values.                                                                 *)

Output == [text |-> <<>>, indent_string |-> IndentSize]
Put(o, chars) == [o EXCEPT !.text = @ \o chars]

Outside == -2  \* what a read past the end of the string gives

\* indent_string is doubled once, by spaces, and then used whatever its size.
Grown(o, indent) == IF o.indent_string < indent THEN [o EXCEPT !.indent_string = 2 * @] ELSE o
Indented(o, indent) ==
    Put(o, [i \in 1..indent |-> IF i <= IndentSize THEN IndentChar
                                ELSE IF i <= o.indent_string THEN \h20 ELSE Outside])

Quoted(s, ensure_ascii) == <<\h22>> \o dump_escaped(s, ensure_ascii) \o <<\h22>>

\* n items between brackets; p is [pretty_print, ensure_ascii, indent_step].
Bracketed(o, brackets, n, Item(_, _, _), p, current_indent) ==
    LET new_indent == current_indent + p.indent_step
        opened == IF p.pretty_print THEN Put(Grown(o, new_indent), <<brackets[1], \h0A>>)
                  ELSE Put(o, <<brackets[1]>>)
        Next(q, i) ==
          LET item == IF p.pretty_print THEN Item(Indented(q, new_indent), i, new_indent)
                      ELSE Item(q, i, current_indent)
          IN  CASE i = n -> item
                [] i < n /\ p.pretty_print -> Put(item, <<\h2C, \h0A>>)
                [] OTHER -> Put(item, <<\h2C>>)
        listed == FoldLeft(Next, opened, [i \in 1..n |-> i])
        closing == IF p.pretty_print THEN Indented(Put(listed, <<\h0A>>), current_indent) ELSE listed
    IN  IF n = 0 THEN Put(o, brackets) ELSE Put(closing, <<brackets[2]>>)

RECURSIVE dump_value(_, _, _, _)
dump_value(o, val, p, current_indent) ==
    LET keys == Keys(val)
        Colon == IF p.pretty_print THEN <<\h3A, \h20>> ELSE <<\h3A>>
        Listed(q, i, indent) == dump_value(q, val[2][i], p, indent)
        Named(q, i, indent) ==
          dump_value(Put(q, Quoted(keys[i], p.ensure_ascii) \o Colon), val[2][keys[i]], p, indent)
    IN  CASE Type(val) = "object" ->
               Bracketed(o, <<\h7B, \h7D>>, Cardinality(DOMAIN val[2]), Named, p, current_indent)
          [] Type(val) = "array" ->
               Bracketed(o, <<\h5B, \h5D>>, Len(val[2]), Listed, p, current_indent)
          [] Type(val) = "string" -> Put(o, Quoted(val[2], p.ensure_ascii))
          [] Type(val) = "boolean" ->
               Put(o, IF val[2] THEN <<\h74, \h72, \h75, \h65>> ELSE <<\h66, \h61, \h6C, \h73, \h65>>)
          [] Type(val) \in {"number_integer", "number_unsigned"} -> Put(o, dump_integer(val[2]))
          [] Type(val) = "number_float" -> Put(o, dump_float(val[2]))
          [] Type(val) = "null" -> Put(o, NullText)
          [] OTHER -> Put(o, <<\h3C>>)

\* basic_json::dump: a negative indent is for the compact form.
dump(val, indent, ensure_ascii) ==
    dump_value(Output, val,
               [pretty_print |-> indent >= 0, ensure_ascii |-> ensure_ascii,
                indent_step |-> IF indent >= 0 THEN indent ELSE 0], 0).text
=============================================================================
