---------------------------- MODULE JsonElements ----------------------------
(***************************************************************************)
(* The members of basic_json that reach into a value, change it or compare *)
(* it with another (12251-12807, 13994-16547, 16598-16822).  What throws   *)
(* gives Exception.  An iterator is the number of increments begin() needs *)
(* to reach it; the keys of an object are met in their order.  A float is  *)
(* the text of a decimal with one digit after its point.                   *)
(***************************************************************************)
EXTENDS JsonValue, FiniteSetsExt

Exception == <<"exception">>

-----------------------------------------------------------------------------
(* Comparisons.                                                            *)

NumberTypes == {"number_integer", "number_unsigned", "number_float"}
AreNumbers(a, b) == {Type(a), Type(b)} \subseteq NumberTypes

\* static_cast<number_integer_t>.
AsInteger(n) == IF n <= UnsignedMax \div 2 THEN n ELSE n - UnsignedMax - 1

Tenths(v) ==
    LET digits == SelectSeq(v[2], LAMBDA c : c \in \h30..\h39)
        n == FoldLeft(LAMBDA m, c : 10 * m + (c - \h30), 0, digits)
    IN  CASE Type(v) # "number_float" -> 10 * v[2]
          [] Head(v[2]) = \h2D -> -n
          [] OTHER -> n

\* What stands for the number a next to b: a double if one of them is one,
\* else an integer if one is signed.
ComparedAs(a, b) ==
    CASE "number_float" \in {Type(a), Type(b)} -> Tenths(a)
      [] Type(a) # Type(b) -> AsInteger(a[2])
      [] OTHER -> a[2]

RECURSIVE Equal(_, _)
Equal(a, b) ==
    CASE AreNumbers(a, b) -> ComparedAs(a, b) = ComparedAs(b, a)
      [] Type(a) # Type(b) \/ a = Discarded -> FALSE
      [] IsStructured(a) /\ Type(a) = Type(b) ->
            DOMAIN a[2] = DOMAIN b[2] /\ \A i \in DOMAIN a[2] : Equal(a[2][i], b[2][i])
      [] OTHER -> a = b

\* operator< of value_t.
Rank(type) ==
    CASE type = "null" -> 0
      [] type = "boolean" -> 1
      [] type \in NumberTypes -> 2
      [] type = "object" -> 3
      [] type = "array" -> 4
      [] type = "string" -> 5

\* std::lexicographical_compare of n items with m others.
Lexicographic(n, m, Before(_), After(_)) ==
    \E i \in 1..m : /\ i = n + 1 \/ (i <= n /\ Before(i))
                    /\ \A j \in 1..(i - 1) : ~Before(j) /\ ~After(j)

RECURSIVE Less(_, _)
Less(a, b) ==
    LET keys_a == Keys(a)
        keys_b == Keys(b)
        Member(x, kx, y, ky) ==
          LessBytes(kx, ky) \/ (~LessBytes(ky, kx) /\ Less(x[2][kx], y[2][ky]))
    IN  CASE AreNumbers(a, b) -> ComparedAs(a, b) < ComparedAs(b, a)
          [] Discarded \in {a, b} -> FALSE
          [] Rank(Type(a)) # Rank(Type(b)) -> Rank(Type(a)) < Rank(Type(b))
          [] Type(a) = "array" ->
                Lexicographic(Len(a[2]), Len(b[2]), LAMBDA i : Less(a[2][i], b[2][i]),
                              LAMBDA i : Less(b[2][i], a[2][i]))
          [] Type(a) = "object" ->
                Lexicographic(Len(keys_a), Len(keys_b),
                              LAMBDA i : Member(a, keys_a[i], b, keys_b[i]),
                              LAMBDA i : Member(b, keys_b[i], a, keys_a[i]))
          [] Type(a) = "string" -> LessBytes(a[2], b[2])
          [] Type(a) = "boolean" -> ~a[2] /\ b[2]
          [] OTHER -> FALSE

-----------------------------------------------------------------------------
(* Iterators.                                                              *)

size(v) ==
    CASE Type(v) = "null" -> 0
      [] Type(v) = "array" -> Len(v[2])
      [] Type(v) = "object" -> Cardinality(DOMAIN v[2])
      [] OTHER -> 1

\* A null's begin() is its end(), which is that of a primitive value.
begin(v) == IF Type(v) = "null" THEN 1 ELSE 0
end(v) == IF IsStructured(v) THEN size(v) ELSE 1

\* operator*: a primitive value is its own only element.
Dereferenced(v, it) ==
    CASE Type(v) = "array" -> v[2][it + 1]
      [] Type(v) = "object" -> v[2][Keys(v)[it + 1]]
      [] ~IsStructured(v) /\ v # Null /\ it = 0 -> v
      [] OTHER -> Exception

find(v, key) ==
    IF Type(v) = "object" /\ key \in DOMAIN v[2]
    THEN (CHOOSE i \in DOMAIN Keys(v) : Keys(v)[i] = key) - 1 ELSE end(v)

KeysBetween(v, first, last) == Range(SubSeq(Keys(v), first + 1, last))

\* Numbers, booleans and strings, and whether a range of one is all of it.
IsAlone(v) == ~IsStructured(v) /\ v \notin {Null, Discarded}
IsWhole(first, last) == first = 0 /\ last = 1

-----------------------------------------------------------------------------
(* Construction.                                                           *)

\* From an initializer list: an object if every element is a pair that
\* begins with a string; of equal names the first one counts.
FromList(init, type_deduction, manual_type) ==
    LET pairs == \A i \in DOMAIN init :
                   Type(init[i]) = "array" /\ size(init[i]) = 2 /\ Type(init[i][2][1]) = "string"
        is_an_object == pairs /\ (type_deduction \/ manual_type # "array")
        Emplaced(members, pair) == members @@ (pair[2][1][2] :> pair[2][2])
    IN  CASE ~type_deduction /\ manual_type = "object" /\ ~pairs -> Exception
          [] is_an_object -> <<"object", FoldLeft(Emplaced, EmptyObject[2], init)>>
          [] OTHER -> <<"array", init>>

FromRange(v, first, last) ==
    CASE Type(v) = "array" -> <<"array", SubSeq(v[2], first + 1, last)>>
      [] Type(v) = "object" -> <<"object", Restrict(v[2], KeysBetween(v, first, last))>>
      [] IsAlone(v) /\ IsWhole(first, last) -> v
      [] OTHER -> Exception

-----------------------------------------------------------------------------
(* Element access.                                                         *)

\* operator[] for an index fills an array up to it, and makes one of null.
AtIndex(v, idx) ==
    LET elements == IF v = Null THEN <<>> ELSE v[2]
    IN  IF v = Null \/ Type(v) = "array"
        THEN <<"array", [i \in 1..Max({idx + 1, Len(elements)}) |->
                           IF i <= Len(elements) THEN elements[i] ELSE Null]>>
        ELSE Exception

\* operator[] for a key.
AtKey(v, key) ==
    CASE v = Null -> Element(EmptyObject, key)
      [] Type(v) = "object" -> Element(v, key)
      [] OTHER -> Exception

value(v, key, default_value) ==
    IF Type(v) # "object" THEN Exception
    ELSE IF key \in DOMAIN v[2] THEN v[2][key] ELSE default_value

-----------------------------------------------------------------------------
(* Modifiers.                                                              *)

PushBack(v, val) ==
    CASE v = Null -> push_back(EmptyArray, val)
      [] Type(v) = "array" -> push_back(v, val)
      [] OTHER -> Exception

\* push_back of a pair, and emplace: a member that is there stays.
Emplace(v, key, val) ==
    CASE v = Null -> SetMember(EmptyObject, key, val)
      [] Type(v) = "object" -> <<"object", v[2] @@ (key :> val)>>
      [] OTHER -> Exception

PushBackList(v, init) ==
    IF Type(v) = "object" /\ Len(init) = 2 /\ Type(init[1]) = "string"
    THEN Emplace(v, init[1][2], init[2]) ELSE PushBack(v, FromList(init, TRUE, "array"))

EraseAt(v, pos) ==
    CASE Type(v) = "array" -> <<"array", RemoveAt(v[2], pos + 1)>>
      [] Type(v) = "object" -> EraseKey(v, Keys(v)[pos + 1])
      [] IsAlone(v) /\ pos = 0 -> Null
      [] OTHER -> Exception

\* Mutant: a primitive value is gone before its range is looked at.
EraseRange_First(v, first, last) ==
    CASE Type(v) = "array" -> <<"array", SubSeq(v[2], 1, first) \o SubSeq(v[2], last + 1, Len(v[2]))>>
      [] Type(v) = "object" ->
            <<"object", Restrict(v[2], DOMAIN v[2] \ KeysBetween(v, first, last))>>
      [] IsAlone(v) -> Null
      [] OTHER -> Exception

EraseRange(v, first, last) ==
    CASE Type(v) = "array" -> <<"array", SubSeq(v[2], 1, first) \o SubSeq(v[2], last + 1, Len(v[2]))>>
      [] Type(v) = "object" ->
            <<"object", Restrict(v[2], DOMAIN v[2] \ KeysBetween(v, first, last))>>
      [] IsAlone(v) /\ IsWhole(first, last) -> Null
      [] OTHER -> Exception

EraseName(v, key) == IF Type(v) = "object" THEN EraseKey(v, key) ELSE Exception
EraseIndex(v, idx) ==
    IF Type(v) = "array" /\ idx < size(v) THEN <<"array", RemoveAt(v[2], idx + 1)>> ELSE Exception

Insert(v, pos, values) ==
    IF Type(v) = "array"
    THEN <<"array", SubSeq(v[2], 1, pos) \o values \o SubSeq(v[2], pos + 1, Len(v[2]))>>
    ELSE Exception

\* The members of a range of another value: those that are there stay.
InsertMembers(v, other, first, last) ==
    IF Type(v) = "object" /\ Type(other) = "object"
    THEN <<"object", v[2] @@ Restrict(other[2], KeysBetween(other, first, last))>> ELSE Exception

\* update, once null has become an object: those that are there are replaced.
Updated(v, j) ==
    IF Type(v) = "object" /\ Type(j) = "object" THEN <<"object", j[2] @@ v[2]>> ELSE Exception

AsObject(v) == IF v = Null THEN EmptyObject ELSE v

clear(v) ==
    CASE Type(v) = "array" -> EmptyArray
      [] Type(v) = "object" -> EmptyObject
      [] Type(v) = "string" -> <<"string", <<>>>>
      [] Type(v) = "boolean" -> <<"boolean", FALSE>>
      [] Type(v) = "number_float" -> <<"number_float", <<\h30, \h2E, \h30>>>>
      [] Type(v) \in {"number_integer", "number_unsigned"} -> <<Type(v), 0>>
      [] OTHER -> v

\* RFC 7396, as in the comment above the function.
RECURSIVE merge_patch(_, _)
merge_patch(v, patch) ==
    LET Merged(object, key) ==
          IF patch[2][key] = Null THEN EraseKey(object, key)
          ELSE SetMember(object, key, merge_patch(Element(object, key)[2][key], patch[2][key]))
    IN  IF Type(patch) = "object"
        THEN FoldLeft(Merged, IF Type(v) = "object" THEN v ELSE EmptyObject, Keys(patch))
        ELSE patch
=============================================================================
