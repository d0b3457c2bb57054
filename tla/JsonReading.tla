----------------------------- MODULE JsonReading -----------------------------
(***************************************************************************)
(* One call of parse: the parser and its receiver step through the tokens  *)
(* of a text nobody chose, a callback that answers anything is asked on    *)
(* the way.                                                                *)
(***************************************************************************)
EXTENDS JsonParser

CONSTANTS Tokens,          \* records [token, value] a text without callback may hold
          CallbackTokens,  \* and one with
          MaxTokens, MaxCallbackTokens

-----------------------------------------------------------------------------
(* What a callback means: each part that is not kept was never there, and  *)
(* a member has the last value of those whose key was kept.  A frame is an *)
(* open structure, or the text, with what it has been given so far.        *)

Frame(type, kept) ==
    [type |-> type, kept |-> kept, key |-> <<>>, key_kept |-> TRUE, given |-> <<>>]

Given(fs, v) ==
    IF Head(fs).key_kept
    THEN <<[Head(fs) EXCEPT !.given = Append(@, <<Head(fs).key, v>>)]>> \o Tail(fs)
    ELSE fs

Member(key, v) == key :> v
LastValues(given) == FoldLeft(LAMBDA m, g : Member(g[1], g[2]) @@ m, EmptyObject[2], given)

Content(frame) ==
    LET kept == SelectSeq(frame.given, LAMBDA g : g[2] # Discarded)
        members == LastValues(frame.given)
    IN  IF frame.type = "array" THEN <<"array", [i \in DOMAIN kept |-> kept[i][2]]>>
        ELSE <<"object", Restrict(members, {k \in DOMAIN members : members[k] # Discarded})>>

Filtered(fs, e, keep) ==
    CASE e[1] = "value" -> Given(fs, IF keep THEN e[2] ELSE Discarded)
      [] e[1] \in {"start_object", "start_array"} ->
            <<Frame(IF e[1] = "start_array" THEN "array" ELSE "object", keep)>> \o fs
      [] e[1] = "key" -> <<[Head(fs) EXCEPT !.key = e[2], !.key_kept = keep]>> \o Tail(fs)
      [] e[1] \in {"end_object", "end_array"} ->
            Given(Tail(fs), IF Head(fs).kept /\ keep THEN Content(Head(fs)) ELSE Discarded)
      [] OTHER -> fs

-----------------------------------------------------------------------------
VARIABLES mode,    \* "idle", "dom" or "callback"
          parser, sax,
          tokens,  \* the text that was read
          frames   \* what the callback left of the open structures, innermost first

readingVars == <<mode, parser, sax, tokens, frames>>

ReadingIdle ==
    mode = "idle" /\ parser = Parser /\ sax = Sax /\ tokens = <<>> /\ frames = <<Frame("text", TRUE)>>
ReadingInit ==
    /\ mode \in {"dom", "callback"} /\ parser = Parser /\ tokens = <<>> /\ frames = <<Frame("text", TRUE)>>
    /\ sax = IF mode = "dom" THEN Sax ELSE CallbackSax

Ended == parser.at \in {"done", "failed"}

ReadToken ==
    /\ mode = "dom" /\ ~Ended /\ Len(tokens) < MaxTokens
    /\ \E t \in Tokens :
         LET made == Step(parser, t)
         IN  /\ parser' = made.parser /\ sax' = DomReceives(sax, made.event)
             /\ tokens' = Append(tokens, t)
    /\ UNCHANGED <<mode, frames>>

\* Texts that are none stop the parser as they do without a callback.
ReadTokenAsking ==
    /\ mode = "callback" /\ ~Ended /\ Len(tokens) < MaxCallbackTokens
    /\ \E t \in CallbackTokens :
         LET made == Step(parser, t)
         IN  /\ made.parser.at # "failed"
             /\ \E keep \in IF Asks(sax, made.event) THEN BOOLEAN ELSE {TRUE} :
                  /\ parser' = made.parser /\ sax' = CallbackReceives(sax, made.event, keep)
                  /\ tokens' = Append(tokens, t) /\ frames' = Filtered(frames, made.event, keep)
    /\ UNCHANGED mode

ReadingNext == ReadToken \/ ReadTokenAsking

-----------------------------------------------------------------------------
(* The grammar of RFC 7159, over tokens.                                   *)

Kind(s, i) == s[i].token
Between(s) == SubSeq(s, 2, Len(s) - 1)
Brackets(s, first, last) == Len(s) > 1 /\ Kind(s, 1) = first /\ Kind(s, Len(s)) = last
Commas(s) == {i \in DOMAIN s : Kind(s, i) = "value_separator"}
LiteralTokens == {"literal_null", "literal_true", "literal_false", "value_string",
                  "value_unsigned", "value_integer", "value_float"}

\* The values, lists of elements and members that a text may be read as.
RECURSIVE Values(_), Elements(_), ObjectMembers(_)
Values(s) ==
    {Literal(t) : t \in {u \in Range(s) : Len(s) = 1 /\ u.token \in LiteralTokens /\ ~Overflows(u)}}
    \cup (IF Brackets(s, "begin_array", "end_array")
          THEN {<<"array", e>> : e \in IF Len(s) = 2 THEN {<<>>} ELSE Elements(Between(s))} ELSE {})
    \cup (IF Brackets(s, "begin_object", "end_object")
          THEN {<<"object", m>> :
                 m \in IF Len(s) = 2 THEN {EmptyObject[2]} ELSE ObjectMembers(Between(s))} ELSE {})
Elements(s) ==
    {<<v>> : v \in Values(s)}
    \cup UNION {{Append(e, v) : e \in Elements(SubSeq(s, 1, i - 1)),
                               v \in Values(SubSeq(s, i + 1, Len(s)))} : i \in Commas(s)}
ObjectMembers(s) ==
    (IF Len(s) > 2 /\ Kind(s, 1) = "value_string" /\ Kind(s, 2) = "name_separator"
     THEN {Member(s[1].value, v) : v \in Values(SubSeq(s, 3, Len(s)))} ELSE {})
    \cup UNION {{n @@ m : m \in ObjectMembers(SubSeq(s, 1, i - 1)),
                         n \in ObjectMembers(SubSeq(s, i + 1, Len(s)))} : i \in Commas(s)}

Token(kind) == [token |-> kind, value |-> <<>>]
Closers(s) ==
    FoldLeft(LAMBDA c, t : CASE t.token = "begin_array" -> <<Token("end_array")>> \o c
                             [] t.token = "begin_object" -> <<Token("end_object")>> \o c
                             [] t.token \in {"end_array", "end_object"} -> SubSeq(c, 2, Len(c))
                             [] OTHER -> c, <<>>, s)
Fillings ==
    LET v == Token("literal_null")
        colon == Token("name_separator")
    IN  {<<>>, <<v>>, <<colon, v>>, <<Token("value_string"), colon, v>>}

\* A text of JSON, or its beginning: some filling and the brackets that are
\* open complete any that can be completed.
IsText(s) ==
    IF s # <<>> /\ Kind(s, Len(s)) = "end_of_input" THEN Values(Front(s)) # {}
    ELSE \E filling \in Fillings : Values(s \o filling \o Closers(s)) # {}

(* The parser stops with an error at the first token that no JSON text has *)
(* there, and at no other; a text it has read has one value by the grammar,*)
(* and that is the value it has built.                                     *)
ValueOfText ==
    mode = "dom" =>
        /\ parser.at # "failed" <=> IsText(tokens)
        /\ sax.errored <=> parser.at = "failed"
        /\ parser.at = "end" => Values(tokens) = {sax.root}
        /\ parser.at = "done" => Values(Front(tokens)) = {Result(sax, FALSE)}

-----------------------------------------------------------------------------
(* The callback.                                                           *)

\* What is left once the discarded parts are taken out.
RECURSIVE Cleaned(_)
Cleaned(v) ==
    LET kept == SelectSeq(v[2], LAMBDA e : e # Discarded)
        keys == {k \in DOMAIN v[2] : v[2][k] # Discarded}
    IN  CASE Type(v) = "array" -> <<"array", [i \in DOMAIN kept |-> Cleaned(kept[i])]>>
          [] Type(v) = "object" -> <<"object", [k \in keys |-> Cleaned(v[2][k])]>>
          [] OTHER -> v

OrNull(v) == IF v = Discarded THEN Null ELSE v

\* What the callback has left of the whole text.
Meant == OrNull(frames[1].given[1][2])

(* But for the discarded parts that stay in it, the value is what the      *)
(* callback has left of the text; and whenever a value is about to become  *)
(* a member, object_element and the answer on key_keep_stack are those of  *)
(* the key just before it, whatever was rejected until then.               *)
FilterKeeps ==
    mode = "callback" /\ ~sax.errored =>
        /\ Len(sax.keep_stack) = Len(frames) /\ Len(sax.ref_stack) = Len(frames) - 1
        /\ parser.at = "end" => Cleaned(CallbackResult(sax, TRUE)) = Meant
        /\ (parser.at = "value" /\ Head(frames).type = "object") =>
              /\ Last(sax.key_keep_stack) = Head(frames).key_kept
              /\ Top(sax) # NoPlace /\ Head(frames).key_kept =>
                    sax.object_element = Append(Top(sax), Head(frames).key)
=============================================================================
