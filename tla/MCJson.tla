------------------------------- MODULE MCJson -------------------------------
(***************************************************************************)
(* The JSON library: one text for the lexer, one for the parser, one       *)
(* document in binary or a pair of values.  Each is a machine of its own,  *)
(* and a behaviour has one of them.                                        *)
(***************************************************************************)
EXTENDS JsonDocuments, JsonReading, JsonWires

-----------------------------------------------------------------------------
(* Texts: pieces that put each automaton to its limits.                    *)

Singles(codes) == {<<c>> : c \in codes}
W(width, opening, pieces, max, first) ==
    [size |-> width, opening |-> opening, pieces |-> pieces, max |-> max, first |-> first]

NumberPieces == Singles({Minus, \h2B, Point, \h65, Zero, \h31, \h39, \h20})

\* Both ends of every range of the tables.
BoundaryBytes == {\h1F, \h20, \h7F, \h80, \h8F, \h90, \h9F, \hA0, \hBF, \hC1, \hC2, \hDF,
                  \hE0, \hE1, \hEC, \hED, \hEE, \hEF, \hF0, \hF1, \hF3, \hF4, \hF5, \hFF}

Escaped16(a, b, c, d) == <<Backslash, \h75, a, b, c, d>>
EscapePieces ==
    {<<Backslash, \h75>>, <<Backslash, \h75, \h31>>, <<Backslash, \h6E>>, <<\h67>>,
     Escaped16(\h44, \h38, \h30, \h30), Escaped16(\h64, \h62, \h46, \h66),
     Escaped16(\h44, \h43, \h30, \h30), Escaped16(\h44, \h46, \h46, \h46),
     Escaped16(\h30, \h30, \h32, \h32), Escaped16(\h30, \h30, \h38, \h30),
     Escaped16(\h30, \h38, \h30, \h30), Escaped16(\h46, \h46, \h46, \h46)}

TokenPieces ==
    {<<\h5B>>, <<\h2C>>, <<\h20>>, <<Zero>>, <<0>>, <<Minus>>, <<\hEF, \hBB, \hBF>>, <<\hEF>>,
     <<Quote, \h61, Quote>>, <<Quote>>, <<\h74, \h72, \h75, \h65>>, <<\h6E, \h75>>}

Units16 == {Quote, \h61, \h7F, \h80, \h7FF, \h800, \hD7FF, \hD800, \hDBFF, \hDC00, \hDFFF, \hE000, \hFFFF}
Units32 == {Quote, \h61, \h7F, \h80, \h7FF, \h800, \hD7FF, \hD800, \hDFFF, \hE000, \hFFFF,
            \h10000, \h10FFFF, \h110000, -1, -5}

MCWritings ==
    {W(1, <<>>, NumberPieces, 6, TRUE), W(1, <<Quote>>, Singles(BoundaryBytes), 5, TRUE),
     W(1, <<Quote>>, EscapePieces, 13, TRUE), W(1, <<>>, TokenPieces, 5, FALSE),
     W(2, <<Quote>>, Singles(Units16), 4, FALSE),
     W(4, <<Quote>>, Singles(Units32), 3, FALSE)}

TextIdle == text = <<>> /\ writing = W(4, <<>>, {}, 0, FALSE)

-----------------------------------------------------------------------------
(* Tokens.                                                                 *)

WithValue(kind, v) == [token |-> kind, value |-> v]
Punctuation ==
    {Token(kind) : kind \in {"begin_object", "end_object", "begin_array", "end_array",
                             "name_separator", "value_separator", "end_of_input"}}
MCCallbackTokens ==
    Punctuation \cup {WithValue("value_string", <<\h61>>), WithValue("value_string", <<\h62>>)}
MCTokens ==
    MCCallbackTokens \cup {WithValue("value_unsigned", 1), Token("literal_true"),
                           Token("parse_error"), WithValue("value_float", Overflow)}

-----------------------------------------------------------------------------
(* Binary: both sides of every limit a number or a length is compared with.*)

Limits ==
    {Unsigned(b) : b \in
      {<<0>>, <<\h17>>, <<\h18>>, <<\h1F>>, <<\h20>>, <<\h7F>>, <<\h80>>, <<\hFF>>, <<1, 0>>,
       <<\h7F, \hFF>>, <<\h80, 0>>, <<\hFF, \hFF>>, <<1, 0, 0>>, <<\h7F, \hFF, \hFF, \hFF>>,
       <<\h80, 0, 0, 0>>, Filled(\hFF, 4), <<1, 0, 0, 0, 0>>, <<\h7F>> \o Filled(\hFF, 7),
       <<\h80>> \o Filled(0, 7), Filled(\hFF, 8)}}
Integers64 == {n \in Limits : ~IsNegative(n)}
Numbers ==
    {<<"number_unsigned", n>> : n \in Limits} \cup {<<"number_integer", n>> : n \in Integers64}
    \cup {<<"number_integer", MinusOneMinus(n)>> : n \in Integers64}
Strings(lengths) == {<<"string", Filled(\h4E, n)>> : n \in lengths}
Arrays(lengths) == {<<"array", Filled(Null, n)>> : n \in lengths}
Objects(lengths) == {<<"object", [k \in {<<i>> : i \in 1..n} |-> Null]>> : n \in lengths}
Float == <<"number_float", <<\h3F, \hF0, 0, 0, 0, 0, 0, 1>>>>

MCAtoms ==
    Numbers \cup Strings({23, 24, 31, 32, 128, 256}) \cup Arrays({15, 16, 23, 24})
    \cup Objects({15, 16, 23, 24}) \cup {Null, Float}

Small(n) == <<"number_unsigned", Unsigned(<<n>>)>>
MCParts ==
    {Null, <<"boolean", TRUE>>, Small(1), Small(\h80),
     <<"number_unsigned", <<\h80>> \o Filled(0, 7)>>, <<"number_integer", Filled(\hFF, 8)>>,
     <<"number_integer", Unsigned(<<\h80>>)>>, Float, <<"string", <<>>>>, <<"string", <<\h61>>>>,
     EmptyArray, EmptyObject, SetMember(EmptyObject, <<>>, Small(1))}

MCWireKeys == {<<>>, <<\h61>>}

A(format, pieces, max) == [format |-> format, bytes |-> pieces, max |-> max]
MCAlphabets ==
    {A("cbor", Singles({0, 1, \h38, \h61, \h7F, \h80, \h82, \h9F, \hA1, \hBF, \hF4, \hFF})
               \cup {<<\hF9, 3>>, <<\hFA, \h7F, \h80>>}, 4),
     A("cbor", Singles({0, \h82, \hFF}) \cup {<<\h3B>> \o Filled(255, 7)}, 10),
     A("msgpack", Singles({0, 1, \h81, \h92, \hA1, \hC0, \hC2, \hC4, \hCC, \hD0, \hD9, \hFF})
                  \cup {<<\hDC, 0>>, <<\hDE, 0>>, <<\hDD, 0, 0>>, <<\hCA, 0, 0, 0>>}, 5),
     A("ubjson", Singles({1, \h24, \h23, \h69, \h4E, \h5B, \h5D, \h7B, \h7D, \h43, \h53, \h54})
                 \cup {<<\h23, \h69, 2>>, <<\h23, \h69, \hFF>>, <<\h69, 1, \h61>>, <<\h64, \hFF, \h80>>}, 5)}

-----------------------------------------------------------------------------
(* Pairs of values.  The first key looks like an index, the other has all  *)
(* that a pointer escapes.                                                 *)

SlashTilde1 == <<Slash, Tilde, \h31>>
MCDocKeys == {<<\h30>>, SlashTilde1}

MinusSeven == <<"number_integer", -7>>
MCDocuments ==
    {Null, EmptyArray, EmptyObject, MinusSeven, <<"number_unsigned", 9>>,
     <<"number_float", <<Minus, \h37, Point, \h30>>>>, <<"string", <<\hC3, \hA9, \h22>>>>}
MCContents == {MinusSeven}
MCLists ==
    LET pair == <<<<"string", <<\h30>>>>, MinusSeven>> IN {pair, <<<<"array", pair>>>>}

MCPaths ==
    {to_string(path) : path \in {<<<<\h30>>, <<\h30>>>>, <<SlashTilde1, <<\h30>>, Hyphen>>}}
MCPointers ==
    MCPaths \cup {to_string(path) : path \in {<<>>, <<<<>>>>, <<<<\h30>>>>, <<<<\h31>>>>,
                                                  <<Hyphen>>, <<SlashTilde1>>, <<<<\h30, \h31>>>>,
                                                  <<<<\h2B, \h30>>>>, <<<<\h30>>, Hyphen, <<\h61>>>>}}
    \cup {<<\h30>>, <<Slash, Tilde>>}

MCIndents == {-1, 0, 3, 4, 5}

-----------------------------------------------------------------------------
readerVars == <<text, writing>>

Init ==
    \/ TextInit /\ ReadingIdle /\ WiresIdle /\ DocumentsIdle
    \/ ReadingInit /\ TextIdle /\ WiresIdle /\ DocumentsIdle
    \/ WiresInit /\ TextIdle /\ ReadingIdle /\ DocumentsIdle
    \/ DocumentsInit /\ TextIdle /\ ReadingIdle /\ WiresIdle

Next ==
    \/ Extend /\ UNCHANGED <<readingVars, wireVars, docVars>>
    \/ ReadingNext /\ UNCHANGED <<readerVars, wireVars, docVars>>
    \/ WiresNext /\ UNCHANGED <<readerVars, readingVars, docVars>>
    \/ DocumentsNext /\ UNCHANGED <<readerVars, readingVars, wireVars>>

Spec == Init /\ [][Next]_<<readerVars, readingVars, wireVars, docVars>>
=============================================================================
