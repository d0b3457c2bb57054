------------------------------ MODULE JsonInput ------------------------------
(***************************************************************************)
(* The input adapters of json.hpp (1916-2261): what get_character returns, *)
(* call after call, for a string of one, two or four bytes a unit.  Wide   *)
(* strings are turned into UTF-8 a unit at a time by fill_buffer, which    *)
(* takes whatever follows a surrogate for its second half.                 *)
(***************************************************************************)
EXTENDS Integers, Sequences, SequencesExt

EOF == -1

CharAt(chars, n) == IF n \in DOMAIN chars THEN chars[n] ELSE EOF

\* Six bits of a code point, as a byte that continues.
Continuing(c, weight) == \h80 + ((c \div weight) % 64)

\* A code point's bytes; what is none is passed on (static_cast<int>).
Utf8(wc) ==
    IF wc < \h80 THEN <<wc>>
    ELSE IF wc <= \h7FF THEN <<\hC0 + wc \div 64, Continuing(wc, 1)>>
    ELSE IF wc <= \hFFFF
    THEN <<\hE0 + wc \div 4096, Continuing(wc, 64), Continuing(wc, 1)>>
    ELSE IF wc <= \h10FFFF
    THEN <<\hF0 + wc \div 262144, Continuing(wc, 4096), Continuing(wc, 64), Continuing(wc, 1)>>
    ELSE <<wc>>

\* UTF-32.
fill_buffer32(str, current_wchar) ==
    [next |-> current_wchar + 1, bytes |-> Utf8(str[current_wchar + 1])]

\* Mutant: a lone surrogate is replaced by a space.
fill_buffer16_Replaced(str, current_wchar) ==
    LET wc == str[current_wchar + 1]
    IN  IF wc \in \hD800..\hDFFF
        THEN [next |-> current_wchar + 2,
              bytes |-> IF current_wchar + 1 = Len(str) THEN <<\h20>>
                        ELSE Utf8(\h10000 + (wc % 1024) * 1024 + (str[current_wchar + 2] % 1024))]
        ELSE fill_buffer32(str, current_wchar)

\* UTF-16: a surrogate at the very end moves the index past the size.
fill_buffer16(str, current_wchar) ==
    LET wc == str[current_wchar + 1]
    IN  IF wc \in \hD800..\hDFFF
        THEN [next |-> current_wchar + 2,
              bytes |-> IF current_wchar + 1 = Len(str) THEN <<wc>>
                        ELSE Utf8(\h10000 + (wc % 1024) * 1024 + (str[current_wchar + 2] % 1024))]
        ELSE fill_buffer32(str, current_wchar)

\* The helper that a unit's size selects.
fill_buffer(str, size, current_wchar) ==
    IF size = 2 THEN fill_buffer16(str, current_wchar) ELSE fill_buffer32(str, current_wchar)

\* What wide_string_input_adapter returns until the end of the string, and
\* if a call after that reads past the end.
WideCharacters(str, size) ==
    LET from[current_wchar \in 0..Len(str) + 1] ==
          LET filled == fill_buffer(str, size, current_wchar)
              rest == from[filled.next]
          IN  IF current_wchar >= Len(str)
              THEN [bytes |-> <<>>, past |-> current_wchar > Len(str)]
              ELSE [bytes |-> filled.bytes \o rest.bytes, past |-> rest.past]
    IN  from[0]

\* input_adapter picks the adapter by the size of a unit.
input_adapter(str, size) ==
    IF size = 1 THEN str ELSE WideCharacters(str, size).bytes
=============================================================================
