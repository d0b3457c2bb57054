-------------------------- MODULE JsonBinaryWriter --------------------------
(***************************************************************************)
(* class binary_writer of json.hpp (7687-8640).  What is written is a      *)
(* sequence of bytes; Thrown among them stands for an exception.           *)
(***************************************************************************)
EXTENDS JsonBinaryReader

\* The 64 bits of a size.
Bits(n) == Unsigned(<<(n \div 65536) % 256, (n \div 256) % 256, n % 256>>)

\* The low bytes of a number, the highest first.
write_number(n, size) == SubSeq(n, 9 - size, 8)

\* Whether so many bytes, without or with a sign, hold a number.
FitsUnsigned(n, size) == \A i \in 1..(8 - size) : n[i] = 0
FitsSigned(n, size) ==
    \E byte \in {0, 255} :
        (n[9 - size] < 128 <=> byte = 0) /\ \A i \in 1..(8 - size) : n[i] = byte

IsNegative(n) == n[1] >= 128
IsBelow(n, limit) == FitsUnsigned(n, 1) /\ n[8] < limit

\* The smallest of the sizes that a number fits.
Smallest(sizes, Fits(_)) == CHOOSE s \in sizes : Fits(s) /\ \A t \in sizes : Fits(t) => s <= t
Log2(size) == CHOOSE k \in 0..3 : 2 ^ k = size

Concat(seqs) == FlattenSeq(seqs)
InOrder(object, Write(_)) ==
    LET keys == Keys(object)
    IN  Concat([i \in DOMAIN keys |-> Write(keys[i])])

-----------------------------------------------------------------------------
(* CBOR.                                                                   *)

CborHead(base, n) ==
    LET size == Smallest({1, 2, 4, 8}, LAMBDA s : FitsUnsigned(n, s))
    IN  IF IsBelow(n, \h18) THEN <<base + n[8]>>
        ELSE <<base + \h18 + Log2(size)>> \o write_number(n, size)

CborInteger(n) ==
    IF IsNegative(n) THEN CborHead(\h20, MinusOneMinus(n)) ELSE CborHead(0, n)

CborString(s) == CborHead(\h60, Bits(Len(s))) \o s

RECURSIVE write_cbor(_)
write_cbor(j) ==
    CASE Type(j) = "null" -> <<\hF6>>
      [] Type(j) = "boolean" -> <<IF j[2] THEN \hF5 ELSE \hF4>>
      [] Type(j) = "number_integer" -> CborInteger(j[2])
      [] Type(j) = "number_unsigned" -> CborHead(0, j[2])
      [] Type(j) = "number_float" -> <<\hFB>> \o j[2]
      [] Type(j) = "string" -> CborString(j[2])
      [] Type(j) = "array" ->
            CborHead(\h80, Bits(Len(j[2]))) \o Concat([i \in DOMAIN j[2] |-> write_cbor(j[2][i])])
      [] Type(j) = "object" ->
            CborHead(\hA0, Bits(Cardinality(DOMAIN j[2])))
            \o InOrder(j, LAMBDA k : CborString(k) \o write_cbor(j[2][k]))
      [] OTHER -> <<>>

-----------------------------------------------------------------------------
(* MessagePack.                                                            *)

MsgpackUnsigned(n) ==
    LET size == Smallest({1, 2, 4, 8}, LAMBDA s : FitsUnsigned(n, s))
    IN  IF IsBelow(n, 128) THEN <<n[8]>> ELSE <<\hCC + Log2(size)>> \o write_number(n, size)

\* Mutant: the negative numbers of one byte reach as far down as CBOR's.
MsgpackInteger_Minus64(n) ==
    LET size == Smallest({1, 2, 4, 8}, LAMBDA s : FitsSigned(n, s))
    IN  IF ~IsNegative(n) THEN MsgpackUnsigned(n)
        ELSE IF FitsSigned(n, 1) /\ n[8] >= \hC0 THEN <<n[8]>>
        ELSE <<\hD0 + Log2(size)>> \o write_number(n, size)

\* Down to -32 the byte itself.
MsgpackInteger(n) ==
    LET size == Smallest({1, 2, 4, 8}, LAMBDA s : FitsSigned(n, s))
    IN  IF ~IsNegative(n) THEN MsgpackUnsigned(n)
        ELSE IF FitsSigned(n, 1) /\ n[8] >= \hE0 THEN <<n[8]>>
        ELSE <<\hD0 + Log2(size)>> \o write_number(n, size)

\* A short size is in the first byte; for a longer one sizes says which
\* first byte goes with how many.
MsgpackHead(fixed, short, sizes, n) ==
    LET size == Smallest(DOMAIN sizes, LAMBDA s : FitsUnsigned(n, s))
    IN  IF IsBelow(n, short) THEN <<fixed + n[8]>> ELSE <<sizes[size]>> \o write_number(n, size)

MsgpackString(s) ==
    MsgpackHead(\hA0, 32, (1 :> \hD9) @@ (2 :> \hDA) @@ (4 :> \hDB), Bits(Len(s))) \o s

RECURSIVE write_msgpack(_)
write_msgpack(j) ==
    CASE Type(j) = "null" -> <<\hC0>>
      [] Type(j) = "boolean" -> <<IF j[2] THEN \hC3 ELSE \hC2>>
      [] Type(j) = "number_integer" -> MsgpackInteger(j[2])
      [] Type(j) = "number_unsigned" -> MsgpackUnsigned(j[2])
      [] Type(j) = "number_float" -> <<\hCB>> \o j[2]
      [] Type(j) = "string" -> MsgpackString(j[2])
      [] Type(j) = "array" ->
            MsgpackHead(\h90, 16, (2 :> \hDC) @@ (4 :> \hDD), Bits(Len(j[2])))
            \o Concat([i \in DOMAIN j[2] |-> write_msgpack(j[2][i])])
      [] Type(j) = "object" ->
            MsgpackHead(\h80, 16, (2 :> \hDE) @@ (4 :> \hDF), Bits(Cardinality(DOMAIN j[2])))
            \o InOrder(j, LAMBDA k : MsgpackString(k) \o write_msgpack(j[2][k]))
      [] OTHER -> <<>>

-----------------------------------------------------------------------------
(* UBJSON.                                                                 *)

\* The letter of a number and its bytes: U only between i and I, and nothing
\* for an unsigned number beyond int64.
UbjsonUnsigned(n, add_prefix) ==
    LET sized == {s \in {1, 2, 4, 8} : FitsSigned(n, s) /\ ~IsNegative(n)}
        size == CHOOSE s \in sized : \A t \in sized : s <= t
        Prefixed(letter, s) == (IF add_prefix THEN <<letter>> ELSE <<>>) \o write_number(n, s)
    IN  IF 1 \in sized THEN Prefixed(\h69, 1)
        ELSE IF FitsUnsigned(n, 1) THEN Prefixed(\h55, 1)
        ELSE IF sized = {} THEN <<Thrown>>
        ELSE Prefixed(CASE size = 2 -> \h49 [] size = 4 -> \h6C [] size = 8 -> \h4C, size)

UbjsonSigned(n, add_prefix) ==
    LET size == Smallest({1, 2, 4, 8}, LAMBDA s : FitsSigned(n, s))
        Prefixed(letter, s) == (IF add_prefix THEN <<letter>> ELSE <<>>) \o write_number(n, s)
    IN  IF size # 1 /\ FitsUnsigned(n, 1) THEN Prefixed(\h55, 1)
        ELSE Prefixed(CASE size = 1 -> \h69 [] size = 2 -> \h49
                        [] size = 4 -> \h6C [] size = 8 -> \h4C, size)

UbjsonString(s) == UbjsonUnsigned(Bits(Len(s)), TRUE) \o s

\* The letter a value would have, chosen apart from the bytes it will get.
IntegerPrefix(n) ==
    CASE FitsSigned(n, 1) -> \h69
      [] ~FitsSigned(n, 1) /\ FitsUnsigned(n, 1) -> \h55
      [] FitsSigned(n, 2) /\ ~FitsSigned(n, 1) /\ ~FitsUnsigned(n, 1) -> \h49
      [] FitsSigned(n, 4) /\ ~FitsSigned(n, 2) -> \h6C
      [] OTHER -> \h4C

ubjson_prefix(j) ==
    CASE Type(j) = "null" -> \h5A
      [] Type(j) = "boolean" -> IF j[2] THEN \h54 ELSE \h46
      [] Type(j) = "number_integer" -> IntegerPrefix(j[2])
      [] Type(j) = "number_unsigned" -> IF IsNegative(j[2]) THEN \h4C ELSE IntegerPrefix(j[2])
      [] Type(j) = "number_float" -> \h44
      [] Type(j) = "string" -> \h53
      [] Type(j) = "array" -> \h5B
      [] Type(j) = "object" -> \h7B
      [] OTHER -> \h4E

\* Values of one and the same letter have it before the size, once.
SharedPrefix(values, use_type) ==
    IF use_type /\ Cardinality({ubjson_prefix(v) : v \in values}) = 1
    THEN <<\h24, ubjson_prefix(CHOOSE v \in values : TRUE)>> ELSE <<>>

UbjsonCount(n, use_count) ==
    IF use_count THEN <<\h23>> \o UbjsonUnsigned(Bits(n), TRUE) ELSE <<>>

\* use_count and use_type are the caller's; use_type asks for use_count.
RECURSIVE write_ubjson(_, _, _, _)
write_ubjson(j, use_count, use_type, add_prefix) ==
    LET shared == SharedPrefix(Range(j[2]), use_type)
        Prefix(bytes) == IF add_prefix THEN bytes ELSE <<>>
        Write(v) == write_ubjson(v, use_count, use_type, shared = <<>>)
        End(bracket) == IF use_count THEN <<>> ELSE <<bracket>>
    IN  CASE Type(j) \in {"null", "boolean"} -> Prefix(<<ubjson_prefix(j)>>)
          [] Type(j) = "number_integer" -> UbjsonSigned(j[2], add_prefix)
          [] Type(j) = "number_unsigned" -> UbjsonUnsigned(j[2], add_prefix)
          [] Type(j) = "number_float" -> Prefix(<<\h44>>) \o j[2]
          [] Type(j) = "string" -> Prefix(<<\h53>>) \o UbjsonString(j[2])
          [] Type(j) = "array" ->
                Prefix(<<\h5B>>) \o shared \o UbjsonCount(Len(j[2]), use_count)
                \o Concat([i \in DOMAIN j[2] |-> Write(j[2][i])]) \o End(\h5D)
          [] Type(j) = "object" ->
                Prefix(<<\h7B>>) \o shared \o UbjsonCount(Cardinality(DOMAIN j[2]), use_count)
                \o InOrder(j, LAMBDA k : UbjsonString(k) \o Write(j[2][k])) \o End(\h7D)
          [] OTHER -> <<>>
=============================================================================
