----------------------------- MODULE JsonParser -----------------------------
(***************************************************************************)
(* class parser of json.hpp (4488-4942) and the three receivers of its     *)
(* events (3907-4464).  A parser is its stack of open structures and the   *)
(* place in sax_parse_internal that waits for the next token; one token    *)
(* makes at most one event, <<name>> or <<name, value>>.                   *)
(***************************************************************************)
EXTENDS JsonPlaces

-----------------------------------------------------------------------------
(* Syntax.                                                                 *)

Parser == [states |-> <<>>, at |-> "value"]

NoEvent == <<"none">>
ParseError == <<"parse_error">>

\* What Step gives: the parser, and what it tells the receiver.
Makes(p, at, event) == [parser |-> [p EXCEPT !.at = at], event |-> event]
Unexpected(p) == Makes(p, "failed", ParseError)

\* A value is complete: the reader is done if nothing is open around it.
AfterValue(p) == IF p.states = <<>> THEN "end" ELSE "next"

\* A token that is a value by itself, as a value; Overflow stands for the
\* text of a number beyond every double.
Literal(t) ==
    CASE t.token = "literal_null" -> Null
      [] t.token \in {"literal_true", "literal_false"} -> <<"boolean", t.token = "literal_true">>
      [] t.token = "value_string" -> <<"string", t.value>>
      [] t.token = "value_unsigned" -> <<"number_unsigned", t.value>>
      [] t.token = "value_integer" -> <<"number_integer", t.value>>
      [] OTHER -> <<"number_float", t.value>>

Overflow == <<-1>>
Overflows(t) == t.token = "value_float" /\ t.value = Overflow

\* The switch on last_token.
ReadValue(p, t) ==
    CASE t.token = "begin_object" -> Makes(p, "first_key", <<"start_object">>)
      [] t.token = "begin_array" -> Makes(p, "first_element", <<"start_array">>)
      [] Overflows(t) -> Unexpected(p)
      [] t.token \in {"value_float", "literal_false", "literal_null", "literal_true",
                      "value_integer", "value_string", "value_unsigned"} ->
            Makes(p, AfterValue(p), <<"value", Literal(t)>>)
      [] OTHER -> Unexpected(p)

Opened(p, is_array) == [p EXCEPT !.states = Append(@, is_array)]
Closed(p) == [p EXCEPT !.states = Front(@)]

ReadFirstElement(p, t) ==
    IF t.token = "end_array" THEN Makes(p, AfterValue(p), <<"end_array">>)
    ELSE ReadValue(Opened(p, TRUE), t)

ReadKey(p, t, colon) ==
    IF t.token = "value_string" THEN Makes(p, colon, <<"key", t.value>>) ELSE Unexpected(p)

ReadFirstKey(p, t) ==
    IF t.token = "end_object" THEN Makes(p, AfterValue(p), <<"end_object">>)
    ELSE ReadKey(p, t, "first_colon")

\* The object is remembered only after its first colon.
ReadColon(p, t) ==
    IF t.token = "name_separator"
    THEN Makes(IF p.at = "first_colon" THEN Opened(p, FALSE) ELSE p, "value", NoEvent)
    ELSE Unexpected(p)

\* Mutant: a structure closes with either bracket.
ReadNext_AnyBracket(p, t) ==
    IF t.token = "value_separator"
    THEN Makes(p, IF Last(p.states) THEN "value" ELSE "key", NoEvent)
    ELSE IF t.token \in {"end_array", "end_object"}
    THEN Makes(Closed(p), AfterValue(Closed(p)), <<t.token>>)
    ELSE Unexpected(p)

\* State evaluation: a comma, or the end of the innermost structure.
ReadNext(p, t) ==
    IF t.token = "value_separator"
    THEN Makes(p, IF Last(p.states) THEN "value" ELSE "key", NoEvent)
    ELSE IF t.token = IF Last(p.states) THEN "end_array" ELSE "end_object"
    THEN Makes(Closed(p), AfterValue(Closed(p)), <<t.token>>)
    ELSE Unexpected(p)

\* In strict mode nothing may follow the value.
ReadEnd(p, t) ==
    IF t.token = "end_of_input" THEN Makes(p, "done", NoEvent) ELSE Unexpected(p)

Step(p, t) ==
    CASE p.at = "value" -> ReadValue(p, t)
      [] p.at = "first_element" -> ReadFirstElement(p, t)
      [] p.at = "first_key" -> ReadFirstKey(p, t)
      [] p.at = "key" -> ReadKey(p, t, "colon")
      [] p.at \in {"colon", "first_colon"} -> ReadColon(p, t)
      [] p.at = "next" -> ReadNext(p, t)
      [] p.at = "end" -> ReadEnd(p, t)

-----------------------------------------------------------------------------
(* json_sax_dom_parser: ref_stack holds the places of the open structures, *)
(* object_element the place of the member whose key came last.             *)

Sax == [root |-> Null, ref_stack |-> <<>>, object_element |-> NoPlace, errored |-> FALSE]

Top(s) == Last(s.ref_stack)

\* The receiver with v in its place, which the pointer returned names.
Handled(s, v) ==
    LET array == Lookup(s.root, Top(s))
    IN  IF s.ref_stack = <<>> THEN [sax |-> [s EXCEPT !.root = v], at |-> <<>>]
        ELSE IF Type(array) = "array"
        THEN [sax |-> [s EXCEPT !.root = With(@, Top(s), push_back(array, v))],
              at |-> Append(Top(s), <<Len(array[2]) + 1>>)]
        ELSE [sax |-> [s EXCEPT !.root = With(@, s.object_element, v)],
              at |-> s.object_element]

StartAt(handled) == [handled.sax EXCEPT !.ref_stack = Append(@, handled.at)]

\* operator[] leaves a member that is there already as it is.
KeyRead(s, key) ==
    [s EXCEPT !.root = With(@, Top(s), Element(Lookup(@, Top(s)), key)),
              !.object_element = Append(Top(s), key)]

DomReceives(s, e) ==
    CASE e[1] = "value" -> Handled(s, e[2]).sax
      [] e[1] = "start_object" -> StartAt(Handled(s, EmptyObject))
      [] e[1] = "start_array" -> StartAt(Handled(s, EmptyArray))
      [] e[1] = "key" -> KeyRead(s, e[2])
      [] e[1] \in {"end_object", "end_array"} -> [s EXCEPT !.ref_stack = Front(@)]
      [] e[1] = "parse_error" -> [s EXCEPT !.errored = TRUE]
      [] OTHER -> s

\* What parse gives once the receiver is through: parse_error has thrown, or
\* the value counts as discarded.
Result(s, allow_exceptions) ==
    IF ~s.errored THEN s.root ELSE IF allow_exceptions THEN <<"throws">> ELSE Discarded

-----------------------------------------------------------------------------
(* json_sax_dom_callback_parser: a callback says of each part if it is to  *)
(* be kept.  NoPlace stands for the null pointers of what is not.          *)

CallbackSax == Sax @@ [keep_stack |-> <<TRUE>>, key_keep_stack |-> <<>>]

\* Whether the callback is asked at all.
Asks(s, e) ==
    CASE e[1] = "value" -> Last(s.keep_stack)
      [] e[1] \in {"start_object", "start_array", "key"} -> TRUE
      [] e[1] \in {"end_object", "end_array"} -> Top(s) # NoPlace
      [] OTHER -> FALSE

\* handle_value, once the callback has been asked: only a value that goes
\* into an object takes a key from the stack.
Offered(s, v) ==
    IF s.ref_stack = <<>> THEN Handled(s, v)
    ELSE IF Top(s) = NoPlace THEN [sax |-> s, at |-> NoPlace]
    ELSE IF Type(Lookup(s.root, Top(s))) = "array" THEN Handled(s, v)
    ELSE LET popped == [s EXCEPT !.key_keep_stack = Front(@)]
         IN  IF Last(s.key_keep_stack) THEN Handled(popped, v)
             ELSE [sax |-> popped, at |-> NoPlace]

\* Mutant: what the callback said of the structure around the value is not
\* looked at.
HandledIf_Anyway(s, v, keep) == IF keep THEN Offered(s, v) ELSE [sax |-> s, at |-> NoPlace]

HandledIf(s, v, keep) ==
    IF Last(s.keep_stack) /\ keep THEN Offered(s, v) ELSE [sax |-> s, at |-> NoPlace]

\* The new structure's answer is on the stack when it is handled.
StartIf(s, v, keep) == StartAt(HandledIf([s EXCEPT !.keep_stack = Append(@, keep)], v, TRUE))

KeyIf(s, key, keep) ==
    LET asked == [s EXCEPT !.key_keep_stack = Append(@, keep)]
        named == KeyRead(asked, key)
    IN  IF keep /\ Top(s) # NoPlace
        THEN [named EXCEPT !.root = With(@, named.object_element, Discarded)]
        ELSE asked

PoppedIf(s, keep) ==
    [s EXCEPT !.ref_stack = Front(@), !.keep_stack = Front(@),
              !.root = IF Top(s) # NoPlace /\ ~keep THEN With(@, Top(s), Discarded) ELSE @]

\* The first discarded member of an object is erased.
WithoutFirstDiscarded(object) ==
    LET discarded == SelectSeq(Keys(object), LAMBDA k : object[2][k] = Discarded)
    IN  IF discarded = <<>> THEN object ELSE EraseKey(object, Head(discarded))

EndObjectIf(s, keep) ==
    LET popped == PoppedIf(s, keep)
        parent == Lookup(popped.root, Top(popped))
    IN  IF popped.ref_stack # <<>> /\ Top(popped) # NoPlace /\ Type(parent) = "object"
        THEN [popped EXCEPT !.root = With(@, Top(popped), WithoutFirstDiscarded(parent))]
        ELSE popped

\* An array that is not kept is the last element of an array around it.
EndArrayIf(s, keep) ==
    LET popped == PoppedIf(s, keep)
        parent == Lookup(popped.root, Top(popped))
    IN  IF ~keep /\ popped.ref_stack # <<>> /\ Type(parent) = "array"
        THEN [popped EXCEPT !.root = With(@, Top(popped), <<"array", Front(parent[2])>>)]
        ELSE popped

CallbackReceives(s, e, keep) ==
    CASE e[1] = "value" -> HandledIf(s, e[2], keep).sax
      [] e[1] = "start_object" -> StartIf(s, EmptyObject, keep)
      [] e[1] = "start_array" -> StartIf(s, EmptyArray, keep)
      [] e[1] = "key" -> KeyIf(s, e[2], keep)
      [] e[1] = "end_object" -> EndObjectIf(s, keep)
      [] e[1] = "end_array" -> EndArrayIf(s, keep)
      [] e[1] = "parse_error" -> [s EXCEPT !.errored = TRUE]
      [] OTHER -> s

\* A root that was discarded is null.
CallbackResult(s, allow_exceptions) ==
    LET result == Result(s, allow_exceptions)
    IN  IF ~s.errored /\ result = Discarded THEN Null ELSE result
=============================================================================
