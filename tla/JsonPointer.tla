----------------------------- MODULE JsonPointer -----------------------------
(***************************************************************************)
(* class json_pointer of json.hpp (10431-11110): RFC 6901.  A pointer is   *)
(* the sequence of its reference tokens; each way to follow one gives the  *)
(* document, in which it may have made room, and the place reached.        *)
(***************************************************************************)
EXTENDS JsonElements, JsonPlaces

Slash == \h2F
Tilde == \h7E
Hyphen == <<\h2D>>
DigitChars == \h30..\h39

InvalidPointer == <<<<Thrown>>>>

-----------------------------------------------------------------------------
(* The text of a pointer.                                                  *)

replace_substring(s, f, t) ==
    LET IsAt(i) == IsPrefix(f, SubSeq(s, i, Len(s)))
        from[i \in 1..(Len(s) + 1)] ==
          IF i > Len(s) THEN <<>>
          ELSE IF IsAt(i) THEN t \o from[i + Len(f)]
          ELSE <<s[i]>> \o from[i + 1]
    IN  from[1]

escape(s) ==
    replace_substring(replace_substring(s, <<Tilde>>, <<Tilde, \h30>>), <<Slash>>, <<Tilde, \h31>>)

unescape(s) ==
    replace_substring(replace_substring(s, <<Tilde, \h31>>, <<Slash>>), <<Tilde, \h30>>, <<Tilde>>)

IsEscaped(token) ==
    \A i \in DOMAIN token :
        token[i] = Tilde => i < Len(token) /\ token[i + 1] \in {\h30, \h31}

Unescaped(texts) ==
    IF \A n \in DOMAIN texts : IsEscaped(texts[n])
    THEN [n \in DOMAIN texts |-> unescape(texts[n])] ELSE InvalidPointer

split(reference_string) ==
    LET cuts == {i \in DOMAIN reference_string : reference_string[i] = Slash}
        starts == SetToSortSeq(cuts, <)
        End(start) == Min({i \in cuts : i > start} \cup {Len(reference_string) + 1})
    IN  IF reference_string # <<>> /\ Head(reference_string) # Slash THEN InvalidPointer
        ELSE Unescaped([n \in DOMAIN starts |->
                          SubSeq(reference_string, starts[n] + 1, End(starts[n]) - 1)])

to_string(tokens) == FoldLeft(LAMBDA a, b : a \o <<Slash>> \o escape(b), <<>>, tokens)

Number(digits) ==
    IF digits = <<>> \/ ~(Range(digits) \subseteq DigitChars) THEN Thrown
    ELSE FoldLeft(LAMBDA n, c : 10 * n + (c - \h30), 0, digits)

\* std::stoi, of all of s: blanks and a sign may come first.  A negative
\* number, which no container has as an index, throws later.
array_index(s) ==
    LET first == SelectInSeq(s, LAMBDA c : c \notin {\h20} \cup (\h09..\h0D))
        digits == SubSeq(s, first + 1, Len(s))
    IN  CASE first = 0 -> Thrown
          [] first # 0 /\ s[first] = \h2B -> Number(digits)
          [] first # 0 /\ s[first] = \h2D -> IF Number(digits) = 0 THEN 0 ELSE Thrown
          [] OTHER -> Number(SubSeq(s, first, Len(s)))

IndexText(i) == IF i < 10 THEN <<\h30 + i>> ELSE <<\h30 + i \div 10, \h30 + (i % 10)>>

-----------------------------------------------------------------------------
(* Following a pointer.                                                    *)

\* One token: the value, with room for what it names, and the step to it.
Finds(v, step) == [v |-> v, step |-> step, ok |-> TRUE]
Stuck(v) == [v |-> v, step |-> <<>>, ok |-> FALSE]

BeginsWithZero(token) == Len(token) > 1 /\ Head(token) = \h30

\* at() of an object or an array.
Checked(v, token) ==
    LET idx == array_index(token)
    IN  CASE Type(v) = "object" /\ token \in DOMAIN v[2] -> Finds(v, token)
          [] /\ Type(v) = "array" /\ token # Hyphen /\ ~BeginsWithZero(token)
             /\ idx \in 0..(size(v) - 1) -> Finds(v, <<idx + 1>>)
          [] OTHER -> Stuck(v)

\* operator[]: null becomes what the token asks for.
Unchecked(v, token) ==
    LET idx == IF token = Hyphen THEN size(v) ELSE array_index(token)
    IN  CASE Type(v) = "object" -> Finds(Element(v, token), token)
          [] Type(v) = "array" /\ ~BeginsWithZero(token) /\ idx # Thrown ->
                Finds(AtIndex(v, idx), <<idx + 1>>)
          [] OTHER -> Stuck(v)

Converted_null(v, token) ==
    CASE v = Null /\ (Range(token) \subseteq DigitChars \/ token = Hyphen) -> EmptyArray
      [] v = Null -> EmptyObject
      [] OTHER -> v

\* Only a token "0" makes an array of null.
Creating(v, token) ==
    LET idx == array_index(token)
    IN  CASE v = Null /\ token = <<\h30>> -> Finds(AtIndex(v, 0), <<1>>)
          [] v = Null /\ token # <<\h30>> -> Finds(AtKey(v, token), token)
          [] Type(v) = "object" -> Finds(Element(v, token), token)
          [] Type(v) = "array" /\ idx # Thrown -> Finds(AtIndex(v, idx), <<idx + 1>>)
          [] OTHER -> Stuck(v)

StepTo(at, found) ==
    [root |-> With(at.root, at.place, found.v),
     place |-> IF found.ok THEN Append(at.place, found.step) ELSE at.place,
     ok |-> found.ok]

Follow(Find(_, _), j, tokens) ==
    IF tokens = InvalidPointer THEN [root |-> j, place |-> <<>>, ok |-> FALSE]
    ELSE FoldLeft(LAMBDA at, token :
                    IF at.ok THEN StepTo(at, Find(Lookup(at.root, at.place), token)) ELSE at,
                  [root |-> j, place |-> <<>>, ok |-> TRUE], tokens)

get_checked(j, tokens) == Follow(Checked, j, tokens)
get_unchecked(j, tokens) ==
    Follow(LAMBDA v, token : Unchecked(Converted_null(v, token), token), j, tokens)
get_and_create(j, tokens) == Follow(Creating, j, tokens)

At(r) == IF r.ok THEN Lookup(r.root, r.place) ELSE Exception
Assigned(r, v) == IF r.ok THEN With(r.root, r.place, v) ELSE Exception

-----------------------------------------------------------------------------
(* Flattening.                                                             *)

\* The members that are added for one value.
RECURSIVE Flattened(_, _)
Flattened(reference_string, v) ==
    LET Part(name, w) == Flattened(reference_string \o <<Slash>> \o name, w)
        parts == IF Type(v) = "array" THEN [i \in DOMAIN v[2] |-> Part(IndexText(i - 1), v[2][i])]
                 ELSE [i \in DOMAIN Keys(v) |-> Part(escape(Keys(v)[i]), v[2][Keys(v)[i]])]
    IN  IF ~IsStructured(v) THEN reference_string :> v
        ELSE IF size(v) = 0 THEN reference_string :> Null
        ELSE FoldLeft(LAMBDA m, p : p @@ m, EmptyObject[2], parts)

flatten(v) == <<"object", Flattened(<<>>, v)>>

unflatten(v) ==
    LET Next(result, key) ==
          IF result = Exception \/ IsStructured(v[2][key]) THEN Exception
          ELSE Assigned(get_and_create(result, split(key)), v[2][key])
    IN  IF Type(v) # "object" THEN Exception ELSE FoldLeft(Next, Null, Keys(v))
=============================================================================
