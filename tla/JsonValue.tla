------------------------------ MODULE JsonValue ------------------------------
(***************************************************************************)
(* basic_json of json.hpp: a value is <<type, content>>.  Strings and keys *)
(* are sequences of bytes, an array is a sequence, an object a function    *)
(* from its keys; numbers that are not integers are left as they were      *)
(* written.                                                                *)
(***************************************************************************)
EXTENDS Integers, Sequences, SequencesExt, FiniteSets, Functions, TLC

CONSTANT UnsignedMax  \* the greatest number_unsigned_t

ASSUME WidthAssumption == UnsignedMax \in {2 ^ n - 1 : n \in 2..30}

Thrown == -1  \* stands in what is being written for an exception

Null == <<"null">>
Discarded == <<"discarded">>
EmptyObject == <<"object", [k \in {} |-> Null]>>
EmptyArray == <<"array", <<>>>>

Type(v) == v[1]
IsStructured(v) == Type(v) \in {"array", "object"}

\* std::string's order, which is a map's.
LessBytes(a, b) ==
    \/ \E i \in DOMAIN b : i = Len(a) + 1 /\ SubSeq(b, 1, Len(a)) = a
    \/ \E i \in DOMAIN a \cap DOMAIN b :
          SubSeq(a, 1, i - 1) = SubSeq(b, 1, i - 1) /\ a[i] < b[i]

\* The keys of an object, as its iterators meet them.
Keys(object) ==
    LET keys == DOMAIN object[2]
    IN  [i \in 1..Cardinality(keys) |->
            CHOOSE k \in keys : Cardinality({m \in keys : LessBytes(m, k)}) = i - 1]

push_back(array, v) == <<"array", Append(array[2], v)>>
SetMember(object, key, v) == <<"object", (key :> v) @@ object[2]>>
EraseKey(object, key) == <<"object", Restrict(object[2], DOMAIN object[2] \ {key})>>

\* The object once operator[] has made sure of a member.
Element(object, key) ==
    IF key \in DOMAIN object[2] THEN object ELSE SetMember(object, key, Null)
=============================================================================
