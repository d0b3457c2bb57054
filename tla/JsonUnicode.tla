----------------------------- MODULE JsonUnicode -----------------------------
(***************************************************************************)
(* UTF-8 as Unicode defines it, to compare the decoders of json.hpp with.  *)
(***************************************************************************)
EXTENDS JsonLexer

Bad == <<-1>>

\* A code point and those that follow it; Bad stays Bad.
Before(scalar, scalars) == IF scalars = Bad THEN Bad ELSE <<scalar>> \o scalars

\* A lead byte's length and payload, by its high bits.
Utf8Length(c) == CASE c < \h80 -> 1 [] c \in \hC0..\hDF -> 2 [] c \in \hE0..\hEF -> 3
                   [] c \in \hF0..\hF7 -> 4 [] OTHER -> 0
Payload(s, n) ==
    CASE n = 1 -> s[1]
      [] n = 2 -> (s[1] % 32) * 64 + (s[2] % 64)
      [] n = 3 -> (s[1] % 16) * 4096 + (s[2] % 64) * 64 + (s[3] % 64)
      [] n = 4 -> (s[1] % 8) * 262144 + (s[2] % 64) * 4096 + (s[3] % 64) * 64 + (s[4] % 64)
Shortest(n) == CASE n = 1 -> 0 [] n = 2 -> \h80 [] n = 3 -> \h800 [] n = 4 -> \h10000

IsScalar(n) == n \in Nat /\ n <= \h10FFFF /\ n \notin Surrogates

\* The length of the UTF-8 character s begins with, 0 if with none.
CharacterLength(s) ==
    LET n == Utf8Length(Head(s))
    IN  IF /\ n \in 1..Len(s) /\ \A i \in 2..n : s[i] \in \h80..\hBF
           /\ Payload(s, n) >= Shortest(n) /\ IsScalar(Payload(s, n))
        THEN n ELSE 0

\* The scalar values of UTF-8 text.
Scalars(bytes) ==
    LET from[i \in 1..(Len(bytes) + 1)] ==
          LET rest == SubSeq(bytes, i, Len(bytes))
              n == CharacterLength(rest)
          IN  IF i > Len(bytes) THEN <<>>
              ELSE IF n = 0 THEN Bad ELSE Before(Payload(rest, n), from[i + n])
    IN  from[1]
=============================================================================
