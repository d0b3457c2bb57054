-------------------------- MODULE JsonBinaryReader --------------------------
(***************************************************************************)
(* class binary_reader of json.hpp (5997-7670): CBOR, MessagePack and      *)
(* UBJSON.  Numbers are of 64 bits, as eight bytes.  A function takes the  *)
(* reader and gives it back with a value, or not ok; the events of the     *)
(* receiver nest as the calls do, so the value it would build is returned. *)
(***************************************************************************)
EXTENDS JsonInput, JsonValue

Reader(chars) == [ia |-> chars, chars_read |-> 0, current |-> EOF, ok |-> TRUE, value |-> Null]

Gives(r, v) == [r EXCEPT !.value = v]
Refuses(r) == [r EXCEPT !.ok = FALSE]

\* What follows a call that may fail, and what its value is turned into.
Then(r, F(_)) == IF r.ok THEN F(r) ELSE r
Becomes(r, F(_)) == IF r.ok THEN Gives(r, F(r.value)) ELSE r
Typed(r, type) == IF r.ok THEN Gives(r, <<type, r.value>>) ELSE r

get_byte(r) ==
    [r EXCEPT !.chars_read = @ + 1, !.current = CharAt(r.ia, r.chars_read + 1)]

RECURSIVE get_ignore_noop(_)
get_ignore_noop(r) ==
    LET g == get_byte(r) IN IF g.current = \h4E THEN get_ignore_noop(g) ELSE g

\* The next n bytes, unless the input ends before.
Take(r, n) ==
    LET to == r.chars_read + n
    IN  IF to > Len(r.ia)
        THEN Refuses([r EXCEPT !.chars_read = Len(r.ia) + 1, !.current = EOF])
        ELSE [r EXCEPT !.chars_read = to, !.current = IF n = 0 THEN @ ELSE r.ia[to],
                       !.value = SubSeq(r.ia, r.chars_read + 1, to)]

-----------------------------------------------------------------------------
(* Numbers.                                                                *)

Filled(byte, n) == [i \in 1..n |-> byte]
Unsigned(bytes) == Filled(0, 8 - Len(bytes)) \o bytes
Signed(bytes) == Filled(IF bytes[1] < 128 THEN 0 ELSE 255, 8 - Len(bytes)) \o bytes

\* static_cast<number_integer_t>(-1) - n.
MinusOneMinus(n) == [i \in DOMAIN n |-> 255 - n[i]]

get_number(r, size) == Take(r, size)
get_unsigned(r, size) == Becomes(get_number(r, size), Unsigned)
get_signed(r, size) == Becomes(get_number(r, size), Signed)

npos == -1
Excessive == 2 ^ 24

\* A std::size_t: all ones is npos, and what has more than 24 bits is more
\* than any input has bytes or any container has room for.
Size(n) ==
    IF n = Filled(255, 8) THEN npos
    ELSE IF \E i \in 1..5 : n[i] # 0 THEN Excessive
    ELSE n[6] * 65536 + n[7] * 256 + n[8]

\* Floating point: the value a narrow number has as a double.  23 bits hold
\* the fraction of either.
DoubleBits(negative, exponent, fraction) ==
    <<(IF negative THEN 128 ELSE 0) + exponent \div 16,
      (exponent % 16) * 16 + fraction \div 2 ^ 19, (fraction \div 2 ^ 11) % 256,
      (fraction \div 8) % 256, (fraction % 8) * 32, 0, 0, 0>>

TopBit(n) == CHOOSE k \in 0..22 : 2 ^ k <= n /\ n < 2 ^ (k + 1)

\* exponent runs to 2 * bias + 1.
Double(negative, exponent, fraction, bias) ==
    CASE exponent = 2 * bias + 1 -> DoubleBits(negative, 2047, fraction)
      [] exponent # 0 -> DoubleBits(negative, exponent - bias + 1023, fraction)
      [] fraction = 0 -> DoubleBits(negative, 0, 0)
      [] OTHER -> LET k == TopBit(fraction)
                  IN  DoubleBits(negative, 1024 - bias + k - 23, (fraction - 2 ^ k) * 2 ^ (23 - k))

SingleFloat(b) ==
    Double(b[1] >= 128, (b[1] % 128) * 2 + b[2] \div 128,
           (b[2] % 128) * 65536 + b[3] * 256 + b[4], 127)

\* RFC 7049, appendix D; a NaN is always the same one.
HalfFloat(b) ==
    LET exp == (b[1] \div 4) % 32
        mant == (b[1] % 4) * 256 + b[2]
    IN  Double(b[1] >= 128, exp, IF exp = 31 /\ mant # 0 THEN 2 ^ 22 ELSE mant * 2 ^ 13, 15)

get_float(r, size) ==
    Typed(Becomes(get_number(r, size),
                  LAMBDA b : CASE size = 2 -> HalfFloat(b)
                               [] size = 4 -> SingleFloat(b)
                               [] size = 8 -> b),
          "number_float")

-----------------------------------------------------------------------------
(* Strings and structures, all formats.                                    *)

\* The length is what was read last; generate_n makes nothing of a negative
\* one, and goes on behind the end of the input when nothing is thrown.
get_string(r) ==
    LET taken == Take(r, r.value)
    IN  CASE ~r.ok -> r
          [] r.ok /\ r.value < 0 -> Gives(r, <<>>)
          [] OTHER -> IF taken.ok THEN taken
                      ELSE [taken EXCEPT !.chars_read = r.chars_read + r.value]

\* start_array and start_object refuse a size there is no room for.
Start(r) == IF r.ok /\ r.value = Excessive THEN Refuses(r) ELSE r

Array(r, elements) == Gives(r, <<"array", elements>>)
Object(r, members) == Gives(r, <<"object", members>>)

-----------------------------------------------------------------------------
(* CBOR: the upper three bits say what it is, the rest how long.           *)

Major(c) == c \div 32
Info(c) == c % 32

CborArgument(r) ==
    IF Info(r.current) <= \h17 THEN Gives(r, Unsigned(<<Info(r.current)>>))
    ELSE get_unsigned(r, 2 ^ (Info(r.current) - \h18))

IsSized(c) == Info(c) <= \h1B
IsIndefinite(c) == Info(c) = \h1F

CborLength(r) ==
    IF IsIndefinite(r.current) THEN Gives(r, npos) ELSE Becomes(CborArgument(r), Size)

\* A negative number is -1 - n also where n has no room as an integer.
CborNumber(r) ==
    IF Major(r.current) = 0 THEN Typed(CborArgument(r), "number_unsigned")
    ELSE Typed(Becomes(CborArgument(r), MinusOneMinus), "number_integer")

RECURSIVE get_cbor_string(_), CborChunks(_, _)
get_cbor_string(r) ==
    IF r.current = EOF \/ Major(r.current) # 3 THEN Refuses(r)
    ELSE IF IsSized(r.current) THEN get_string(CborLength(r))
    ELSE IF IsIndefinite(r.current) THEN CborChunks(get_byte(r), <<>>)
    ELSE Refuses(r)

CborChunks(r, text) ==
    IF r.current = \hFF THEN Gives(r, text)
    ELSE Then(get_cbor_string(r), LAMBDA c : CborChunks(get_byte(c), text \o c.value))

Remaining(len) == IF len = npos THEN npos ELSE len - 1

RECURSIVE parse_cbor_internal(_), get_cbor_array(_, _, _), get_cbor_object(_, _, _)

\* Of size npos: up to the byte FF.
get_cbor_array(r, len, elements) ==
    LET g == get_byte(r)
    IN  IF len = 0 THEN Array(r, elements)
        ELSE IF len = npos /\ g.current = \hFF THEN Array(g, elements)
        ELSE Then(parse_cbor_internal(g), LAMBDA e :
                    get_cbor_array(e, Remaining(len), Append(elements, e.value)))

get_cbor_object(r, len, members) ==
    LET g == get_byte(r)
    IN  IF len = 0 THEN Object(r, members)
        ELSE IF len = npos /\ g.current = \hFF THEN Object(g, members)
        ELSE Then(get_cbor_string(g), LAMBDA key :
               Then(parse_cbor_internal(get_byte(key)), LAMBDA e :
                 get_cbor_object(e, Remaining(len), (key.value :> e.value) @@ members)))

CborStructure(r) ==
    Then(Start(CborLength(r)), LAMBDA a :
        IF Major(r.current) = 4 THEN get_cbor_array(a, a.value, <<>>)
        ELSE get_cbor_object(a, a.value, EmptyObject[2]))

CborSimple(r) ==
    CASE r.current \in {\hF4, \hF5} -> Gives(r, <<"boolean", r.current = \hF5>>)
      [] r.current = \hF6 -> Gives(r, Null)
      [] r.current \in \hF9..\hFB -> get_float(r, 2 ^ (r.current - \hF8))
      [] OTHER -> Refuses(r)

\* The byte that is current is the value's first.
parse_cbor_internal(r) ==
    LET c == r.current
    IN  CASE c = EOF -> Refuses(r)
          [] Major(c) \in {0, 1} /\ IsSized(c) -> CborNumber(r)
          [] Major(c) = 3 -> Typed(get_cbor_string(r), "string")
          [] Major(c) \in {4, 5} /\ (IsSized(c) \/ IsIndefinite(c)) -> CborStructure(r)
          [] OTHER -> CborSimple(r)

-----------------------------------------------------------------------------
(* MessagePack.                                                            *)

MsgpackNumber(r) ==
    LET c == r.current
    IN  CASE c <= \h7F -> Gives(r, <<"number_unsigned", Unsigned(<<c>>)>>)
          [] c \in \hCC..\hCF -> Typed(get_unsigned(r, 2 ^ (c - \hCC)), "number_unsigned")
          [] c \in \hD0..\hD3 -> Typed(get_signed(r, 2 ^ (c - \hD0)), "number_integer")
          [] c >= \hE0 -> Gives(r, <<"number_integer", Signed(<<c>>)>>)

MsgpackLength(r, size) == Becomes(get_unsigned(r, size), Size)

get_msgpack_string(r) ==
    CASE r.current \in \hA0..\hBF -> get_string(Gives(r, r.current % 32))
      [] r.current \in \hD9..\hDB -> get_string(MsgpackLength(r, 2 ^ (r.current - \hD9)))
      [] OTHER -> Refuses(r)

RECURSIVE parse_msgpack_internal(_), get_msgpack_array(_, _, _), get_msgpack_object(_, _, _)

get_msgpack_array(r, len, elements) ==
    IF len = 0 THEN Array(r, elements)
    ELSE Then(parse_msgpack_internal(get_byte(r)), LAMBDA e :
                get_msgpack_array(e, len - 1, Append(elements, e.value)))

get_msgpack_object(r, len, members) ==
    IF len = 0 THEN Object(r, members)
    ELSE Then(get_msgpack_string(get_byte(r)), LAMBDA key :
           Then(parse_msgpack_internal(get_byte(key)), LAMBDA e :
             get_msgpack_object(e, len - 1, (key.value :> e.value) @@ members)))

MsgpackStructure(r) ==
    LET c == r.current
        length == CASE c \in \h80..\h9F -> Gives(r, c % 16)
                    [] c \in {\hDC, \hDE} -> MsgpackLength(r, 2)
                    [] c \in {\hDD, \hDF} -> MsgpackLength(r, 4)
    IN  Then(Start(length), LAMBDA a :
            IF c \in \h90..\h9F \cup {\hDC, \hDD} THEN get_msgpack_array(a, a.value, <<>>)
            ELSE get_msgpack_object(a, a.value, EmptyObject[2]))

parse_msgpack_internal(r) ==
    LET c == r.current
    IN  CASE c \in {EOF, \hC1, \hC4, \hC5, \hC6, \hC7, \hC8, \hC9} \cup \hD4..\hD8 -> Refuses(r)
          [] c = \hC0 -> Gives(r, Null)
          [] c \in {\hC2, \hC3} -> Gives(r, <<"boolean", c = \hC3>>)
          [] c \in {\hCA, \hCB} -> get_float(r, IF c = \hCA THEN 4 ELSE 8)
          [] c \in \hA0..\hBF \cup \hD9..\hDB -> Typed(get_msgpack_string(r), "string")
          [] c \in \h80..\h9F \cup \hDC..\hDF -> MsgpackStructure(r)
          [] OTHER -> MsgpackNumber(r)

-----------------------------------------------------------------------------
(* UBJSON: letters.                                                        *)

IntegerTypes == (\h69 :> 1) @@ (\h49 :> 2) @@ (\h6C :> 4) @@ (\h4C :> 8)  \* i I l L
UbjsonInteger(r, type) ==
    IF type = \h55 THEN get_unsigned(r, 1)
    ELSE IF type \in DOMAIN IntegerTypes THEN get_signed(r, IntegerTypes[type])
    ELSE Refuses(r)

\* A length is signed as its type is, and a negative one reads nothing.
get_ubjson_string(r) ==
    get_string(Becomes(UbjsonInteger(r, r.current),
                       LAMBDA n : IF r.current # \h55 /\ n[1] >= 128 THEN npos ELSE Size(n)))

get_ubjson_size_value(r) ==
    LET g == get_ignore_noop(r) IN Becomes(UbjsonInteger(g, g.current), Size)

\* The size, npos if there is none, and the type, 0 if there is none.
get_ubjson_size_type(r) ==
    LET g == get_ignore_noop(r)
        type == get_byte(g)
        hash == get_ignore_noop(type)
        Sized(before, t) == Becomes(get_ubjson_size_value(before), LAMBDA n : <<n, t>>)
    IN  CASE g.current = \h24 ->
                IF type.current = EOF \/ hash.current # \h23 THEN Refuses(hash)
                ELSE Sized(hash, type.current)
          [] g.current = \h23 -> Sized(g, 0)
          [] OTHER -> Gives(g, <<npos, 0>>)

RECURSIVE get_ubjson_value(_, _), UbjsonElements(_, _, _, _), UbjsonMembers(_, _, _, _),
          UbjsonArrayToEnd(_, _), UbjsonObjectToEnd(_, _)

\* A value whose type stands before it, unless all of them have it.
UbjsonTyped(r, type) ==
    LET g == get_ignore_noop(r)
    IN  IF type # 0 THEN get_ubjson_value(r, type) ELSE get_ubjson_value(g, g.current)

UbjsonElements(r, len, type, elements) ==
    IF len = 0 THEN Array(r, elements)
    ELSE Then(UbjsonTyped(r, type), LAMBDA e :
                UbjsonElements(e, len - 1, type, Append(elements, e.value)))

UbjsonMembers(r, len, type, members) ==
    IF len = 0 THEN Object(r, members)
    ELSE Then(get_ubjson_string(get_byte(r)), LAMBDA key :
           Then(UbjsonTyped(key, type), LAMBDA e :
             UbjsonMembers(e, len - 1, type, (key.value :> e.value) @@ members)))

\* Without a size: the byte that is current is the next element's first.
UbjsonArrayToEnd(r, elements) ==
    IF r.current = \h5D THEN Array(r, elements)
    ELSE Then(get_ubjson_value(r, r.current), LAMBDA e :
                UbjsonArrayToEnd(get_ignore_noop(e), Append(elements, e.value)))

UbjsonObjectToEnd(r, members) ==
    IF r.current = \h7D THEN Object(r, members)
    ELSE Then(get_ubjson_string(r), LAMBDA key :
           Then(UbjsonTyped(key, 0), LAMBDA e :
             UbjsonObjectToEnd(get_ignore_noop(e), (key.value :> e.value) @@ members)))

\* Elements of the type N are none.
ArrayOf(r, size, type) ==
    CASE size = npos -> UbjsonArrayToEnd(r, <<>>)
      [] size = Excessive -> Refuses(r)
      [] OTHER -> UbjsonElements(r, IF type = \h4E THEN 0 ELSE size, type, <<>>)

ObjectOf(r, size, type) ==
    CASE size = npos -> UbjsonObjectToEnd(r, EmptyObject[2])
      [] size = Excessive -> Refuses(r)
      [] OTHER -> UbjsonMembers(r, size, type, EmptyObject[2])

get_ubjson_array(r) ==
    Then(get_ubjson_size_type(r), LAMBDA a : ArrayOf(a, a.value[1], a.value[2]))
get_ubjson_object(r) ==
    Then(get_ubjson_size_type(r), LAMBDA a : ObjectOf(a, a.value[1], a.value[2]))

UbjsonChar(r) ==
    IF r.current = EOF \/ r.current > 127 THEN Refuses(r) ELSE Gives(r, <<"string", <<r.current>>>>)

get_ubjson_value(r, prefix) ==
    CASE prefix \in {\h54, \h46} -> Gives(r, <<"boolean", prefix = \h54>>)
      [] prefix = \h5A -> Gives(r, Null)
      [] prefix = \h55 -> Typed(UbjsonInteger(r, prefix), "number_unsigned")
      [] prefix \in DOMAIN IntegerTypes -> Typed(UbjsonInteger(r, prefix), "number_integer")
      [] prefix = \h64 -> get_float(r, 4)
      [] prefix = \h44 -> get_float(r, 8)
      [] prefix = \h43 -> UbjsonChar(get_byte(r))
      [] prefix = \h53 -> Typed(get_ubjson_string(get_byte(r)), "string")
      [] prefix = \h5B -> get_ubjson_array(r)
      [] prefix = \h7B -> get_ubjson_object(r)
      [] OTHER -> Refuses(r)

-----------------------------------------------------------------------------
Formats == {"cbor", "msgpack", "ubjson"}

\* In strict mode nothing may follow, but for UBJSON's no-ops.
AtEnd(format, r) ==
    LET beyond == IF format = "ubjson" THEN get_ignore_noop(r) ELSE get_byte(r)
    IN  IF beyond.current # EOF THEN Refuses(beyond) ELSE r

sax_parse(format, chars, strict) ==
    LET first == get_byte(Reader(chars))
        r == CASE format = "cbor" -> parse_cbor_internal(first)
               [] format = "msgpack" -> parse_msgpack_internal(first)
               [] format = "ubjson" -> UbjsonTyped(Reader(chars), 0)
    IN  IF strict THEN Then(r, LAMBDA d : AtEnd(format, d)) ELSE r
=============================================================================
