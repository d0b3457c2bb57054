------------------------------ MODULE JsonWires ------------------------------
(***************************************************************************)
(* Documents written in each binary format and read again, and bytes that  *)
(* came from elsewhere, read for what they are.                            *)
(***************************************************************************)
EXTENDS JsonBinaryWriter

CONSTANTS Atoms,    \* values a document may be
          Parts,    \* those it may be put together from
          WireKeys,
          MaxParts, \* bounds the elements and members of a document
          Alphabets, \* records [format, bytes, max] for bytes from elsewhere
          MaxNested  \* bounds the structures around a document

VARIABLES document,  \* the document, Unwritten if there is none
          nested,    \* the structures put around it
          alphabet,  \* where the bytes come from, if there is none
          wire       \* the bytes

wireVars == <<document, nested, alphabet, wire>>

Unwritten == <<"none">>

WiresIdle == document = Unwritten /\ nested = 0 /\ wire = <<>> /\ alphabet = [format |-> "none"]
WiresInit ==
    /\ nested = 0 /\ wire = <<>>
    /\ \/ document \in Atoms \cup {EmptyArray, EmptyObject} /\ alphabet = [format |-> "none"]
       \/ document = Unwritten /\ alphabet \in Alphabets

AddElement ==
    /\ Type(document) = "array" /\ Len(document[2]) < MaxParts /\ nested = 0
    /\ \E p \in Parts : document' = push_back(document, p)
    /\ UNCHANGED <<nested, alphabet, wire>>

AddMember ==
    /\ Type(document) = "object" /\ Cardinality(DOMAIN document[2]) < MaxParts /\ nested = 0
    /\ \E key \in WireKeys \ DOMAIN document[2], p \in Parts :
          document' = SetMember(document, key, p)
    /\ UNCHANGED <<nested, alphabet, wire>>

\* A structure with the document in it, once or twice.
Nest ==
    /\ document # Unwritten /\ nested < MaxNested
    /\ document' \in {<<"array", <<document>>>>, <<"array", <<document, document>>>>}
                     \cup {SetMember(EmptyObject, key, document) : key \in WireKeys}
    /\ nested' = nested + 1 /\ UNCHANGED <<alphabet, wire>>

\* Bytes are added as long as they make a difference.
Receive ==
    /\ alphabet.format # "none"
    /\ LET Stopped(r) == ~r.ok /\ r.current = EOF
       IN  Stopped(sax_parse(alphabet.format, wire, FALSE))
    /\ \E bytes \in alphabet.bytes :
          Len(wire \o bytes) <= alphabet.max /\ wire' = wire \o bytes
    /\ UNCHANGED <<document, nested, alphabet>>

WiresNext == AddElement \/ AddMember \/ Nest \/ Receive

-----------------------------------------------------------------------------
\* Every way to write a value in a format.
Encodings(format, j) ==
    CASE format = "cbor" -> {write_cbor(j)}
      [] format = "msgpack" -> {write_msgpack(j)}
      [] format = "ubjson" -> {write_ubjson(j, count, type, TRUE) :
                                 <<count, type>> \in {<<FALSE, FALSE>>, <<TRUE, FALSE>>, <<TRUE, TRUE>>}}

\* The formats have one kind of nonnegative integers.
RECURSIVE Normal(_)
Normal(j) ==
    CASE Type(j) = "number_integer" /\ ~IsNegative(j[2]) -> <<"number_unsigned", j[2]>>
      [] Type(j) = "array" -> <<"array", [i \in DOMAIN j[2] |-> Normal(j[2][i])]>>
      [] Type(j) = "object" -> <<"object", [k \in DOMAIN j[2] |-> Normal(j[2][k])]>>
      [] OTHER -> j

RECURSIVE ExceedsInt64(_)
ExceedsInt64(j) ==
    \/ Type(j) = "number_unsigned" /\ IsNegative(j[2])
    \/ IsStructured(j) /\ \E m \in Range(j[2]) : ExceedsInt64(m)

\* Cut off, anywhere, or with one byte more.
Spoilt(bytes) ==
    {SubSeq(bytes, 1, n) : n \in 0..(Len(bytes) - 1)}
    \cup {Append(bytes, byte) : byte \in {0, \h4E, \hFF}}

ReadBack(format, j, bytes) ==
    \A b \in {bytes} \cup Spoilt(bytes) :
      \A r \in {sax_parse(format, b, TRUE)} :
        IF b = bytes THEN r.ok /\ Normal(r.value) = Normal(j)
        ELSE r.ok <=> format = "ubjson" /\ b = Append(bytes, \h4E)

\* The document in each format, or what a reader takes the bytes from
\* elsewhere for.
Taken ==
    IF document # Unwritten THEN Formats \X {document}
    ELSE {<<alphabet.format, r.value>> :
            r \in {x \in {sax_parse(alphabet.format, wire, TRUE)} : x.ok}}

(* Every document is read back from each format and each of UBJSON's       *)
(* optimisations as it was, only UBJSON throws for what int64 cannot hold. *)
(* What was cut off is refused, and so is what has one byte more, but      *)
(* UBJSON's no-op.  The same holds of whatever a reader takes any bytes    *)
(* for: nothing that can be read is out of the writers' reach.             *)
BinaryRoundTrip ==
    (document # Unwritten \/ alphabet.format # "none") =>
        \A t \in Taken : \A bytes \in Encodings(t[1], t[2]) :
            IF t[1] = "ubjson" /\ ExceedsInt64(t[2]) THEN Thrown \in Range(bytes)
            ELSE ReadBack(t[1], t[2], bytes)
=============================================================================
