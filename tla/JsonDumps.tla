------------------------------ MODULE JsonDumps ------------------------------
(***************************************************************************)
(* The lexer, the parser and the serializer together: basic_json's parse   *)
(* and dump (17190-17253, 12998-13052).                                    *)
(***************************************************************************)
EXTENDS JsonTexts, JsonParser, JsonSerializer

CONSTANTS Indents,       \* what dump is called with
          MaxNestedText  \* bounds the strings that are nested

\* strtod reads the locale's decimal point.
Read(l) ==
    [token |-> l.token,
     value |-> IF l.token # "value_float" THEN l.value
               ELSE [i \in DOMAIN l.value |-> IF l.value[i] = DecimalPoint THEN Point ELSE l.value[i]]]

parse(chars) ==
    LET Steps(s, l) ==
          LET made == Step(s.parser, Read(l))
          IN  IF s.parser.at \in {"done", "failed"} THEN s
              ELSE [parser |-> made.parser, sax |-> DomReceives(s.sax, made.event)]
    IN  FoldLeft(Steps, [parser |-> Parser, sax |-> Sax], Scanned(chars)).sax

\* A value as a text can give it: the sign says which integer it is, and
\* what is not finite is null.
RECURSIVE Plain(_)
Plain(j) ==
    CASE Type(j) = "number_integer" /\ j[2] >= 0 -> <<"number_unsigned", j[2]>>
      [] Type(j) = "number_float" /\ j[2] = NotFinite -> Null
      [] Type(j) = "array" -> <<"array", [i \in DOMAIN j[2] |-> Plain(j[2][i])]>>
      [] Type(j) = "object" -> <<"object", [k \in DOMAIN j[2] |-> Plain(j[2][k])]>>
      [] OTHER -> j

RECURSIVE HasInvalidText(_)
HasInvalidText(j) ==
    \/ Type(j) = "string" /\ Scalars(j[2]) = Bad
    \/ Type(j) = "object" /\ \E k \in DOMAIN j[2] : Scalars(k) = Bad
    \/ IsStructured(j) /\ \E m \in Range(j[2]) : HasInvalidText(m)

IndentsFor(j) == IF IsStructured(j) THEN Indents ELSE {-1}

\* dump throws exactly for strings that are not UTF-8; else what it wrote,
\* however it was asked to, parses to the same value, and in ASCII if asked.
\* It reads past the end of indent_string exactly when one step is more than
\* the string is after it was doubled, and there is something to indent.
DumpedIsParsed(j) ==
    \A indent \in IndentsFor(j), ensure_ascii \in BOOLEAN :
        LET written == dump(j, indent, ensure_ascii)
            tooFar == indent > 2 * IndentSize /\ IsStructured(j) /\ DOMAIN j[2] # {}
        IN  /\ (Outside \in Range(written)) = tooFar
            /\ IF HasInvalidText(j) THEN Thrown \in Range(written)
               ELSE ~tooFar => /\ Result(parse(written), FALSE) = Plain(j)
                               /\ ensure_ascii => Range(written) \subseteq 0..\h7E

\* Any bytes as a string, also such as no text has; short ones as an element
\* and as a key, too.
DumpedTexts ==
    LET s == Tail(text)
        element == <<"array", <<<<"string", s>>>>>>
        member == SetMember(EmptyObject, s, <<"boolean", TRUE>>)
    IN  IF ~Starts({Quote}) THEN {}
        ELSE IF Len(s) > MaxNestedText THEN {<<"string", s>>}
        ELSE {<<"string", s>>, element, member, <<"array", <<member>>>>}
=============================================================================
