----------------------------- MODULE HttpPacket -----------------------------
(***************************************************************************)
(* The pure functions of HTTPPacket.cpp, as operators on sequences of      *)
(* characters, against what they are meant to compute.  std::string's      *)
(* searches are modelled with their positions and with npos, because the   *)
(* functions pass a position on without looking whether it is npos.        *)
(*                                                                         *)
(* A character is CR, LF, SP, "?", ".", "/", a word without any of these   *)
(* ("html", "w", ...) or Name, any run that contains the name of the field *)
(* ("Connection:", but also "Proxy-Connection:" and "/Connection").        *)
(***************************************************************************)
EXTENDS Naturals, Sequences, SequencesExt, FiniteSets, FiniteSetsExt

CONSTANTS Alphabets,  \* sets of pieces a text is put together from
          MaxLen,     \* the greatest length of a text
          Name,       \* the field that is looked for
          KnownTypes, \* extensions, with their dot, that have a content type
          Directories \* m_directory of the options

VARIABLES text,       \* what the functions are called with
          pieces      \* its alphabet

npos == 1000          \* greater than every position, as std::string::npos
ASSUME NPosAssumption ==
    \A a \in Alphabets :
        /\ a \subseteq Seq(STRING)
        /\ MaxLen[a] \in Nat /\ MaxLen[a] + 2 < npos
        /\ \A d \in Directories : d \in Seq(STRING) /\ Len(d) + MaxLen[a] < npos

EOL == <<"CR", "LF">>

\* An extension is a dot and what follows it, without a "/".
ASSUME TypesAssumption == \A type \in KnownTypes : "/" \notin ToSet(type)

\* "Connection:" is neither a space nor a part of a line end.
ASSUME NameAssumption == Name \notin {"CR", "LF", "SP"}

\* What a function returns is {value}; {} stands for an exception.
Throws == {}

-----------------------------------------------------------------------------
(* std::string: first position at or after from, in 1..size, or npos.      *)

FirstOf(positions) == IF positions = {} THEN npos ELSE Min(positions)

IsAt(b, pattern, i) == SubSeq(b, i, i + Len(pattern) - 1) = pattern

Find(b, pattern, from) ==
    FirstOf({i \in from..(Len(b) - Len(pattern) + 1) : IsAt(b, pattern, i)})

FindFirstOf(b, chars, from) == FirstOf({i \in from..Len(b) : b[i] \in chars})
FindFirstNotOf(b, char, from) == FirstOf({i \in from..Len(b) : b[i] # char})

RFind(b, char) ==
    LET found == {i \in DOMAIN b : b[i] = char}
    IN  IF found = {} THEN npos ELSE Max(found)

-----------------------------------------------------------------------------
(* HTTPPacket.cpp.                                                         *)

\* A name without a space after it makes bValue npos, and substr throws.
ExtractField(b, field) ==
    LET bCommand == Find(b, field, 1)
        bValue == FindFirstNotOf(b, "SP", Find(b, <<"SP">>, bCommand))
        eValue == Find(b, EOL, bValue)
    IN  IF bCommand = npos THEN {<<>>}
        ELSE IF bValue = npos THEN Throws
        ELSE {SubSeq(b, bValue, IF eValue = npos THEN Len(b) ELSE eValue - 1)}

IsBlankLine(offset, b) ==
    LET endPacket == EOL \o EOL
    IN  /\ offset >= Len(endPacket)
        /\ SubSeq(b, offset - Len(endPacket) + 1, offset) = endPacket

\* Mutant: the path is looked for from the space on, k++ is missing.
Parse_NoStep(b) ==
    LET i == Find(b, EOL, 1)
        header == IF i = npos THEN <<>> ELSE SubSeq(b, 1, i - 1)
        k == Find(header, <<"SP">>, 1)
        z == FindFirstOf(header, {"SP", "?"}, k)
    IN  IF npos \in {i, k, z} THEN Throws
        ELSE {[command |-> SubSeq(header, 1, k - 1),
               path |-> SubSeq(header, k, z - 1),
               connection |-> value] : value \in ExtractField(b, <<Name>>)}

\* The search for z starts after the space; ExtractField's exception passes.
Parse(b) ==
    LET i == Find(b, EOL, 1)
        header == IF i = npos THEN <<>> ELSE SubSeq(b, 1, i - 1)
        k == Find(header, <<"SP">>, 1)
        z == FindFirstOf(header, {"SP", "?"}, k + 1)
    IN  IF npos \in {i, k, z} THEN Throws
        ELSE {[command |-> SubSeq(header, 1, k - 1),
               path |-> SubSeq(header, k + 1, z - 1),
               connection |-> value] : value \in ExtractField(b, <<Name>>)}

\* Mutant: the rest after the last line end is dropped.
Split_DropRest(b) ==
    LET from[pos \in 1..Len(b)] ==
            LET nextPos == Find(b, EOL, pos)
            IN  IF nextPos = npos THEN <<>>
                ELSE <<SubSeq(b, pos, nextPos - 1)>>
                     \o IF nextPos + 2 <= Len(b) THEN from[nextPos + 2] ELSE <<>>
    IN  IF b = <<>> THEN <<>> ELSE from[1]

\* The do-while loop: from[pos] is what it still pushes from pos on.
Split(b) ==
    LET from[pos \in 1..Len(b)] ==
            LET nextPos == Find(b, EOL, pos)
            IN  IF nextPos = npos THEN <<SubSeq(b, pos, Len(b))>>
                ELSE <<SubSeq(b, pos, nextPos - 1)>>
                     \o IF nextPos + 2 <= Len(b) THEN from[nextPos + 2] ELSE <<>>
    IN  IF b = <<>> THEN <<>> ELSE from[1]

\* Mutant: find instead of rfind.
GetContentType_FirstDot(fileName) ==
    LET pos == Find(fileName, <<".">>, 1)
        ext == SubSeq(fileName, pos, Len(fileName))
    IN  IF pos = npos THEN {<<>>} ELSE {ext} \cap KnownTypes

\* A type is named by its extension; files.at throws for an unknown one.
GetContentType(fileName) ==
    LET pos == RFind(fileName, ".")
        ext == SubSeq(fileName, pos, Len(fileName))
    IN  IF pos = npos THEN {<<>>} ELSE {ext} \cap KnownTypes

-----------------------------------------------------------------------------
(* Every text over Pieces, in the order of its prefixes.                   *)

TextInit == text = <<>> /\ pieces \in Alphabets

Extend == \E p \in pieces :
    /\ Len(text) + Len(p) <= MaxLen[pieces]
    /\ text' = text \o p
    /\ UNCHANGED pieces

TextSpec == TextInit /\ [][Extend]_<<text, pieces>>

-----------------------------------------------------------------------------
(* Properties.                                                             *)

Joined(lines) == FlattenSeq([i \in DOMAIN lines |-> lines[i] \o EOL])

(* Split loses nothing and cuts everywhere: no line holds a line end, and  *)
(* the lines, each ended, are the text, ended if it was not (TestSplit has *)
(* four examples of this).                                                 *)
SplitLossless ==
    /\ \A i \in DOMAIN Split(text) : Find(Split(text)[i], EOL, 1) = npos
    /\ Joined(Split(text)) =
         IF text = <<>> \/ IsSuffix(EOL, text) THEN text ELSE text \o EOL

(* What Read stops at is the end of a head: IsBlankLine holds at an offset *)
(* when the lines before it end with an empty one, which is not the only   *)
(* one; an offset inside a line end, or after one, is none.                *)
BlankLineEndsHead ==
    \A offset \in 0..Len(text) :
        LET lines == Split(SubSeq(text, 1, offset))
        IN  IsBlankLine(offset, text) <=> Len(lines) > 1 /\ Last(lines) = <<>>

(* Together: what Read takes for the end of a head, and what a head holds. *)
LinesOfText == SplitLossless /\ BlankLineEndsHead

NoneOf(s, chars) == \A i \in DOMAIN s : s[i] \notin chars

(* Parse accepts what begins with a request line (the example in Parse)    *)
(* and takes its first two words: they and their separators begin the      *)
(* first line, whatever follows.                                           *)
ParseReadsRequestLine ==
    LET line == Split(text)[1]
        hasLine == /\ Find(text, EOL, 1) # npos
                   /\ \E k, z \in DOMAIN line :
                        k < z /\ line[k] = "SP" /\ line[z] \in {"SP", "?"}
    IN  /\ Parse(text) = Throws <=> ~hasLine \/ ExtractField(text, <<Name>>) = Throws
        /\ \A packet \in Parse(text) :
             /\ NoneOf(packet.command, {"SP"}) /\ NoneOf(packet.path, {"SP", "?"})
             /\ \E d \in {"SP", "?"} :
                  IsPrefix(packet.command \o <<"SP">> \o packet.path \o <<d>>, line)

\* The first line in which the name stands, if it is a field with a value.
FieldLine(lines) ==
    LET named == {i \in DOMAIN lines : Name \in ToSet(lines[i])}
        line == lines[Min(named)]
    IN  IF named # {} /\ Len(line) > 2 /\ line[1] = Name /\ line[2] = "SP"
             /\ FindFirstNotOf(line, "SP", 2) # npos
        THEN line ELSE <<>>

(* The value of a field is its own line's, without the spaces before it,   *)
(* wherever the line stands and whether or not it is the last and ended    *)
(* (TestExtract): never a part of another line.                            *)
FieldValueOfItsLine ==
    LET line == FieldLine(Split(text))
    IN  line # <<>> =>
          ExtractField(text, <<Name>>) =
            {SubSeq(line, FindFirstNotOf(line, "SP", 2), Len(line))}

(* ExtractField throws exactly when the name stands in the text, and after *)
(* the first one no word comes after a space, on its line or on any later  *)
(* one: a field without a value before a later line with a space reads on. *)
ThrowsWithoutWord ==
    ExtractField(text, <<Name>>) = Throws <=>
        \E i \in DOMAIN text :
            /\ text[i] = Name /\ \A j \in 1..(i - 1) : text[j] # Name
            /\ \A k, z \in DOMAIN text : i < k /\ k < z /\ text[k] = "SP" => text[z] = "SP"

(* Together: what the worker learns from a request, and when it throws.    *)
RequestRead == ParseReadsRequestLine /\ FieldValueOfItsLine /\ ThrowsWithoutWord

\* What stands after the last "/".
FileName(path) ==
    LET slash == RFind(path, "/")
    IN  IF slash = npos THEN path ELSE SubSeq(path, slash + 1, Len(path))

(* ProcessGET gives GetContentType the directory and the path: for a file  *)
(* with an extension neither a dot in the directory nor one earlier in the *)
(* path changes the type.  A file without one has no type, and the first   *)
(* dot anywhere before it, be it the directory's, makes the function throw.*)
TypeOfFileName ==
    \A d \in Directories :
        LET name == d \o text
        IN  /\ "." \in ToSet(FileName(text)) =>
                 GetContentType(name) = GetContentType(FileName(text))
            /\ "." \notin ToSet(FileName(text)) /\ "/" \in ToSet(text) =>
                 GetContentType(name) = IF "." \in ToSet(name) THEN Throws ELSE {<<>>}
=============================================================================
