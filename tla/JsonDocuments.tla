--------------------------- MODULE JsonDocuments ---------------------------
(***************************************************************************)
(* Two values, changed by any sequence of calls of basic_json's members,   *)
(* and what the functions that read them have to make of each pair.        *)
(***************************************************************************)
EXTENDS JsonDumps, JsonPatch

CONSTANTS Documents,  \* values the two may be at first
          Contents,   \* values that are put into them
          Lists,      \* initializer lists
          DocKeys,
          Pointers,   \* texts of pointers that are looked at
          Paths,      \* and of those that are written through
          MaxNodes    \* bounds the values in the two

VARIABLES doc, other

docVars == <<doc, other>>

DocumentsIdle == doc = Discarded /\ other = Discarded
DocumentsInit == doc \in Documents /\ other \in Documents

Active == doc # Discarded

RECURSIVE Nodes(_)
Nodes(v) ==
    1 + IF IsStructured(v) THEN MapThenSumSet(LAMBDA i : Nodes(v[2][i]), DOMAIN v[2]) ELSE 0

\* A call that leaves doc as result, or throws and leaves it as before.
Call(result, before) ==
    /\ Active
    /\ doc' = IF result = Exception THEN before ELSE result
    /\ Nodes(doc') + Nodes(other) <= MaxNodes
    /\ UNCHANGED other

Positions == begin(doc)..end(doc)
OtherPositions == begin(other)..end(other)
Arguments == Contents \cup {other}

PushValue == \E v \in Arguments : Call(PushBack(doc, v), doc)
PushList == \E init \in Lists : Call(PushBackList(doc, init), doc)
PutMember == \E key \in DocKeys, v \in Arguments : Call(Emplace(doc, key, v), doc)

\* doc[...] = v.
AssignIndex ==
    \E idx \in 0..2, v \in Arguments :
        LET made == AtIndex(doc, idx)
        IN  Call(IF made = Exception THEN made ELSE With(made, <<<<idx + 1>>>>, v), doc)
AssignKey ==
    \E key \in DocKeys, v \in Arguments :
        LET made == AtKey(doc, key)
        IN  Call(IF made = Exception THEN made ELSE With(made, <<key>>, v), doc)
AssignPointer ==
    \E ptr \in Paths, v \in Arguments :
        LET made == get_unchecked(doc, split(ptr))
        IN  Call(Assigned(made, v), made.root)

EraseOne == \E pos \in Positions \ {end(doc)} : Call(EraseAt(doc, pos), doc)
EraseSome ==
    \E first, last \in Positions : first <= last /\ Call(EraseRange(doc, first, last), doc)
EraseMember == \E key \in DocKeys : Call(EraseName(doc, key), doc)
EraseElement == \E idx \in 0..2 : Call(EraseIndex(doc, idx), doc)

InsertValue ==
    \E pos \in Positions, v \in Arguments, cnt \in 1..2 :
        Call(Insert(doc, pos, [i \in 1..cnt |-> v]), doc)
InsertElements ==
    \E pos \in Positions, first, last \in OtherPositions :
        /\ Type(other) = "array" /\ first <= last
        /\ Call(Insert(doc, pos, SubSeq(other[2], first + 1, last)), doc)
InsertFromOther ==
    \E first, last \in OtherPositions :
        first <= last /\ Call(InsertMembers(doc, other, first, last), doc)

\* The null has become an object before other is looked at.
Update == Call(Updated(AsObject(doc), other), AsObject(doc))

Merge == Call(merge_patch(doc, other), doc)
Clear == Call(clear(doc), doc)

Swap == Active /\ doc' = other /\ other' = doc

DocumentsNext ==
    \/ PushValue \/ PushList \/ PutMember \/ AssignIndex \/ AssignKey \/ AssignPointer
    \/ EraseOne \/ EraseSome \/ EraseMember \/ EraseElement
    \/ InsertValue \/ InsertElements \/ InsertFromOther \/ Update \/ Merge \/ Clear \/ Swap

-----------------------------------------------------------------------------
(* Comparisons and ranges.                                                 *)

RECURSIVE HasWide(_)
HasWide(v) ==
    \/ Type(v) = "number_unsigned" /\ v[2] > UnsignedMax \div 2
    \/ IsStructured(v) /\ \E m \in Range(v[2]) : HasWide(m)

\* The values are in one order as long as no unsigned number is beyond the
\* signed ones, next to which it counts as negative.
OneOrder ==
    LET Trichotomy(a, b) == Cardinality({i \in 1..3 : <<Less(a, b), Less(b, a), Equal(a, b)>>[i]}) = 1
    IN  ~HasWide(doc) /\ ~HasWide(other) =>
          /\ Trichotomy(doc, other)
          /\ \A v \in Documents :
               ~HasWide(v) =>
                 /\ Less(doc, other) /\ Less(other, v) => Less(doc, v)
                 /\ Equal(doc, other) => Less(v, doc) = Less(v, other) /\ Equal(v, doc) = Equal(v, other)

\* What a range takes out, its copy puts back.
RangesFit ==
    \A first, last \in begin(doc)..end(doc) :
        LET taken == FromRange(doc, first, last)
            left == EraseRange(doc, first, last)
        IN  first <= last =>
              /\ Type(doc) = "array" => Insert(left, first, taken[2]) = doc
              /\ Type(doc) = "object" => InsertMembers(left, taken, begin(taken), end(taken)) = doc
              /\ IsStructured(doc) => size(taken) = last - first /\ size(left) + size(taken) = size(doc)
              /\ IsAlone(doc) => (taken = Exception) = (left = Exception)

\* Iterators meet every element once, at the place its key is found at.
IteratorsMeetAll ==
    LET met == [it \in 0..(end(doc) - begin(doc) - 1) |-> Dereferenced(doc, begin(doc) + it)]
    IN  /\ end(doc) - begin(doc) = size(doc)
        /\ Type(doc) = "object" =>
              \A key \in DOMAIN doc[2] : met[find(doc, key)] = doc[2][key]
        /\ Type(doc) = "array" => \A it \in DOMAIN met : met[it] = At(get_checked(doc, <<IndexText(it)>>))
        /\ Exception \notin {met[it] : it \in DOMAIN met}

ValuesOrdered == Active => OneOrder /\ RangesFit /\ IteratorsMeetAll

-----------------------------------------------------------------------------
(* Pointers and patches.                                                   *)

IsIndex(token, last) == \E i \in 0..last : token = IndexText(i)

\* RFC 6901, 4: what a pointer names.
RECURSIVE Exists(_, _)
Exists(v, tokens) ==
    \/ tokens = <<>>
    \/ /\ Type(v) = "array" /\ IsIndex(Head(tokens), size(v) - 1)
       /\ Exists(v[2][array_index(Head(tokens)) + 1], Tail(tokens))
    \/ /\ Type(v) = "object" /\ Head(tokens) \in DOMAIN v[2]
       /\ Exists(v[2][Head(tokens)], Tail(tokens))

Named(v, tokens) == At(get_checked(v, tokens))

\* The indices of an array as the RFC writes them: the code, which reads them
\* with std::stoi, also takes a sign or blanks before one.
RECURSIVE Canonical(_, _)
Canonical(v, tokens) ==
    IF tokens = <<>> THEN <<>>
    ELSE LET idx == array_index(Head(tokens))
             first == IF Type(v) = "array" /\ idx # Thrown /\ ~BeginsWithZero(Head(tokens))
                      THEN <<IndexText(idx)>> ELSE <<Head(tokens)>>
         IN  first \o Canonical(IF Exists(v, first) THEN Named(v, first) ELSE Null, Tail(tokens))

\* v with another value at an existing place.
RECURSIVE Replaced(_, _, _)
Replaced(v, tokens, new) ==
    IF tokens = <<>> THEN new
    ELSE LET i == IF Type(v) = "array" THEN array_index(Head(tokens)) + 1 ELSE Head(tokens)
         IN  [v EXCEPT ![2][i] = Replaced(@, Tail(tokens), new)]

\* Below a part of v that is missing the code can make the rest of a path,
\* down to a parent for its last token.
RECURSIVE CanBeMade(_, _)
CanBeMade(v, tokens) ==
    LET token == Head(tokens)
        isIndex == token = Hyphen \/ (array_index(token) # Thrown /\ ~BeginsWithZero(token))
        next == IF Exists(v, <<token>>) THEN Named(v, <<token>>) ELSE Null
    IN  \/ Len(tokens) = 1
        \/ /\ CASE Type(v) = "object" -> TRUE
                [] Type(v) = "array" -> isIndex
                [] v = Null -> Range(token) \subseteq DigitChars => isIndex
                [] OTHER -> FALSE
           /\ CanBeMade(next, Tail(tokens))

\* All that v has is in w; null may have become anything.
RECURSIVE Keeps(_, _)
Keeps(v, w) ==
    \/ v \in {w, Null}
    \/ /\ IsStructured(v) /\ Type(v) = Type(w)
       /\ \A i \in DOMAIN v[2] : i \in DOMAIN w[2] /\ Keeps(v[2][i], w[2][i])

\* What a path leads to, where "-" is the element that was added last.
RECURSIVE AtPath(_, _)
AtPath(v, tokens) ==
    IF tokens = <<>> THEN v
    ELSE LET first == IF Type(v) = "array" /\ Head(tokens) = Hyphen
                      THEN <<IndexText(size(v) - 1)>> ELSE <<Head(tokens)>>
         IN  IF Exists(v, first) THEN AtPath(Named(v, first), Tail(tokens)) ELSE Exception

Moved(op, from, path) == SetMember(Operator(op, path), FromName, String(from))

\* What patches of doc at a pointer come to, each operation alone.
Patched(ptr) ==
    LET operation == [op \in {AddOp, ReplaceOp, TestOp} |-> OperatorOn(op, ptr, other)]
                     @@ RemoveOp :> Operator(RemoveOp, ptr)
                     @@ MoveOp :> Moved(MoveOp, ptr, ptr)
                     @@ CopyOp :> Moved(CopyOp, ptr, <<>>)
    IN  [op \in DOMAIN operation |-> patch(doc, <<"array", <<operation[op]>>>>)]

\* RFC 6902, 4.1: a value is added to an object, or to an array at an index
\* up to its size or at "-".  The code also: takes zeros before an index;
\* makes an object of a null parent; has an assertion fail at another
\* primitive one; and makes the parent that is missing, unless the path's
\* first token is.
AddFits(result, tokens, parent) ==
    LET last == Last(tokens)
        idx == IF last = Hyphen THEN size(parent) ELSE array_index(last)
        Inserted == <<"array", InsertAt(parent[2], idx + 1, other)>>
    IN  CASE ~Exists(doc, Front(tokens)) ->
                IF Exists(doc, <<Head(tokens)>>) /\ CanBeMade(doc, tokens)
                THEN Keeps(doc, result) /\ AtPath(result, tokens) = other
                ELSE result = Exception
          [] Type(parent) \in {"object", "null"} ->
                result = Replaced(doc, Front(tokens), SetMember(AsObject(parent), last, other))
          [] Type(parent) = "array" ->
                result = IF idx \in 0..size(parent) THEN Replaced(doc, Front(tokens), Inserted)
                         ELSE Exception
          [] OTHER -> result = AssertionFailed

\* RFC 6902, 4.2: what is removed has to be there.  The code also: takes
\* zeros before an index; and finds nothing wrong with a place in a primitive
\* value, where the documentation has an out_of_range (18280).
RemoveFits(result, tokens, parent) ==
    LET last == Last(tokens)
        idx == array_index(last)
        Without(i) == Restrict(parent[2], DOMAIN parent[2] \ {i})
    IN  CASE ~Exists(doc, Front(tokens)) -> result = Exception
          [] Type(parent) = "object" ->
                result = IF last \in DOMAIN parent[2]
                         THEN Replaced(doc, Front(tokens), <<"object", Without(last)>>) ELSE Exception
          [] Type(parent) = "array" ->
                result = IF idx \in 0..(size(parent) - 1)
                         THEN Replaced(doc, Front(tokens), <<"array", RemoveAt(parent[2], idx + 1)>>)
                         ELSE Exception
          [] OTHER -> result = doc

\* 4.3 to 4.6: replace, move, copy and test need a value that is there; a copy
\* to the root makes it the whole, a move to its own place changes nothing.
NamedValueNeeded(results, tokens, named) ==
    IF Exists(doc, tokens)
    THEN /\ results[ReplaceOp] = Replaced(doc, tokens, other)
         /\ results[TestOp] = IF Equal(named, other) THEN doc ELSE Exception
         /\ results[CopyOp] = named
         /\ results[MoveOp] = IF tokens = <<>> THEN Exception ELSE doc
    ELSE \A op \in {ReplaceOp, TestOp, CopyOp, MoveOp} : results[op] = Exception

\* The whole is replaced by an add, and cannot be removed.
PatchOperations ==
    \A ptr \in Pointers : \A results \in {Patched(ptr)}, tokens \in {split(ptr)} :
        IF tokens = InvalidPointer THEN Range(results) = {Exception}
        ELSE \A plain \in {Canonical(doc, tokens)} :
               /\ to_string(tokens) = ptr
               /\ NamedValueNeeded(results, plain, Named(doc, plain))
               /\ IF tokens = <<>> THEN results[AddOp] = other /\ results[RemoveOp] = Exception
                  ELSE \A parent \in {Named(doc, Front(plain))} :
                         /\ AddFits(results[AddOp], plain, parent)
                         /\ RemoveFits(results[RemoveOp], plain, parent)

\* What is restored from its flat form: nothing with an empty part, or with
\* an object whose first member looks like an element; 18225 knows of the
\* empty ones only.
RECURSIVE Restorable(_)
Restorable(v) ==
    /\ IsStructured(v) => size(v) > 0 /\ \A i \in DOMAIN v[2] : Restorable(v[2][i])
    /\ Type(v) = "object" =>
          \E key \in DOMAIN v[2] \ {<<\h30>>} : \A k \in DOMAIN v[2] : ~LessBytes(escape(k), escape(key))

(* A patch made for a pair makes the second of the first.  Each operation  *)
(* does at each pointer what RFC 6902 says, or one of the few other things *)
(* AddFits, RemoveFits and Canonical name, and nothing else.  Restorable   *)
(* values and no others come back from their flat form.  A merge patch     *)
(* applied again changes nothing.                                          *)
PatchesFit ==
    Active =>
        /\ Equal(patch(doc, diff(doc, other)), other)
        /\ PatchOperations
        /\ Restorable(doc) <=> unflatten(flatten(doc)) = doc
        /\ \A merged \in {merge_patch(doc, other)} : merge_patch(merged, other) = merged

\* "If there exists a parent it cannot be primitive": json.hpp:18399.
ParentNotPrimitive ==
    Active => \A ptr \in Pointers : Patched(ptr)[AddOp] # AssertionFailed

-----------------------------------------------------------------------------
(* Together with JsonDumps: what dump writes of a value, however it is     *)
(* asked to, parses to that value, and it throws exactly for what is no    *)
(* Unicode.                                                                *)
DumpParses ==
    \A j \in DumpedTexts \cup {v \in {doc} : Active /\ other = Null} : DumpedIsParsed(j)
=============================================================================
