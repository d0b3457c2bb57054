------------------------------ MODULE JsonPatch ------------------------------
(***************************************************************************)
(* JSON Patch, RFC 6902, as basic_json applies and makes it (18303-18726). *)
(* A patch is a value itself: an array of objects.                         *)
(***************************************************************************)
EXTENDS JsonPointer

\* assert(false) ends the program.
AssertionFailed == <<"assertion failed">>

OpName == <<\h6F, \h70>>
PathName == <<\h70, \h61, \h74, \h68>>
ValueName == <<\h76, \h61, \h6C, \h75, \h65>>
FromName == <<\h66, \h72, \h6F, \h6D>>

AddOp == <<\h61, \h64, \h64>>
RemoveOp == <<\h72, \h65, \h6D, \h6F, \h76, \h65>>
ReplaceOp == <<\h72, \h65, \h70, \h6C, \h61, \h63, \h65>>
MoveOp == <<\h6D, \h6F, \h76, \h65>>
CopyOp == <<\h63, \h6F, \h70, \h79>>
TestOp == <<\h74, \h65, \h73, \h74>>

-----------------------------------------------------------------------------
(* Applying a patch.                                                       *)

\* The parent of the last token, with val at that token in it.
AddedTo(parent, last_path, val) ==
    LET idx == array_index(last_path)
    IN  CASE Type(parent) \in {"null", "object"} -> SetMember(AsObject(parent), last_path, val)
          [] Type(parent) = "array" ->
                IF last_path = Hyphen THEN push_back(parent, val)
                ELSE IF idx \in 0..size(parent) THEN Insert(parent, idx, <<val>>) ELSE Exception
          [] OTHER -> AssertionFailed

IsFailure(v) == v \in {Exception, AssertionFailed}
Stored(parent, v) == IF IsFailure(v) THEN v ELSE Assigned(parent, v)

AddedBelow(parent, last_path, val) ==
    IF parent.ok THEN Stored(parent, AddedTo(At(parent), last_path, val)) ELSE Exception

\* Only the first token has to lead somewhere, the rest is made.
operation_add(result, ptr, val) ==
    IF ptr = <<>> THEN val
    ELSE IF Len(ptr) > 1 /\ ~get_checked(result, <<Head(ptr)>>).ok THEN Exception
    ELSE AddedBelow(get_unchecked(result, Front(ptr)), Last(ptr), val)

RemovedFrom(parent, last_path) ==
    LET idx == array_index(last_path)
    IN  CASE Type(parent) = "object" ->
                IF last_path \in DOMAIN parent[2] THEN EraseKey(parent, last_path) ELSE Exception
          [] Type(parent) = "array" -> IF idx = Thrown THEN Exception ELSE EraseIndex(parent, idx)
          [] OTHER -> parent

RemovedBelow(parent, last_path) ==
    IF parent.ok THEN Stored(parent, RemovedFrom(At(parent), last_path)) ELSE Exception

operation_remove(result, ptr) ==
    IF ptr = <<>> THEN Exception ELSE RemovedBelow(get_checked(result, Front(ptr)), Last(ptr))

get_value(val, member, string_type) ==
    IF member \in DOMAIN val[2] /\ (string_type => Type(val[2][member]) = "string")
    THEN val[2][member] ELSE Exception

\* A member that has to be a pointer.
get_pointer(val, member) ==
    LET path == get_value(val, member, TRUE)
    IN  IF path = Exception THEN InvalidPointer ELSE split(path[2])

Readded(removed, ptr, v) ==
    IF IsFailure(removed) THEN removed ELSE operation_add(removed, ptr, v)

Transferred(result, op, ptr, from_ptr, v) ==
    CASE v = Exception -> Exception
      [] v # Exception /\ op = MoveOp -> Readded(operation_remove(result, from_ptr), ptr, v)
      [] v # Exception /\ op = CopyOp -> operation_add(result, ptr, v)

Tested(result, v, new) == IF v # Exception /\ Equal(v, new) THEN result ELSE Exception

Performed(result, op, ptr, from_ptr, new) ==
    CASE op = AddOp -> operation_add(result, ptr, new)
      [] op = RemoveOp -> operation_remove(result, ptr)
      [] op = ReplaceOp -> Assigned(get_checked(result, ptr), new)
      [] op \in {MoveOp, CopyOp} ->
            Transferred(result, op, ptr, from_ptr, At(get_checked(result, from_ptr)))
      [] op = TestOp -> Tested(result, At(get_checked(result, ptr)), new)
      [] OTHER -> Exception

\* Nothing is performed after a failure, nor what lacks a member it needs.
Operation(result, val) ==
    LET op == get_value(val, OpName, TRUE)
        new == get_value(val, ValueName, FALSE)
        ptr == get_pointer(val, PathName)
    IN  IF IsFailure(result) THEN result
        ELSE IF \/ Type(val) # "object" \/ op = Exception \/ ptr = InvalidPointer
                \/ op[2] \in {AddOp, ReplaceOp, TestOp} /\ new = Exception
        THEN Exception
        ELSE Performed(result, op[2], ptr, get_pointer(val, FromName), new)

patch(j, json_patch) ==
    IF Type(json_patch) = "array" THEN FoldLeft(Operation, j, json_patch[2]) ELSE Exception

-----------------------------------------------------------------------------
(* Making a patch.                                                         *)

String(s) == <<"string", s>>
Operator(op, path) == SetMember(SetMember(EmptyObject, OpName, String(op)), PathName, String(path))
OperatorOn(op, path, v) == SetMember(Operator(op, path), ValueName, v)

Child(path, name) == path \o <<Slash>> \o name
FromTo(first, last) == [n \in 1..(last - first) |-> first + n - 1]

\* Mutant: what is too much is removed from the front.
ArrayDiff_Forward(source, target, path, changed) ==
    LET common == Len(changed)
        removed == [n \in 1..(size(source) - common) |->
                      Operator(RemoveOp, Child(path, IndexText(common + n - 1)))]
        added == [n \in 1..(size(target) - common) |->
                    OperatorOn(AddOp, Child(path, IndexText(common + n - 1)), target[2][common + n])]
    IN  FlattenSeq(changed) \o removed \o added

\* Arrays: the changes to the common elements, then what is too much, from
\* the back, or what is missing.
ArrayDiff(source, target, path, changed) ==
    LET common == Len(changed)
        removed == [n \in 1..(size(source) - common) |->
                      Operator(RemoveOp, Child(path, IndexText(common + n - 1)))]
        added == [n \in 1..(size(target) - common) |->
                    OperatorOn(AddOp, Child(path, IndexText(common + n - 1)), target[2][common + n])]
    IN  FlattenSeq(changed) \o Reverse(removed) \o added

\* Objects: what has changed or gone, then what is new.
ObjectDiff(source, target, path, changed) ==
    LET gone(key) == key \notin DOMAIN target[2]
        old == Keys(source)
        new == SelectSeq(Keys(target), LAMBDA key : key \notin DOMAIN source[2])
    IN  FlattenSeq([n \in DOMAIN old |->
                      IF gone(old[n]) THEN <<Operator(RemoveOp, Child(path, escape(old[n])))>>
                      ELSE changed[old[n]]])
        \o [n \in DOMAIN new |->
              OperatorOn(AddOp, Child(path, escape(new[n])), target[2][new[n]])]

RECURSIVE Differences(_, _, _)
Differences(source, target, path) ==
    LET common == DOMAIN source[2] \cap DOMAIN target[2]
        Changed(i, name) == Differences(source[2][i], target[2][i], Child(path, name))
    IN  CASE Equal(source, target) -> <<>>
          [] Type(source) = "array" /\ Type(target) = "array" ->
                ArrayDiff(source, target, path,
                          [i \in 1..Cardinality(common) |-> Changed(i, IndexText(i - 1))])
          [] Type(source) = "object" /\ Type(target) = "object" ->
                ObjectDiff(source, target, path, [key \in common |-> Changed(key, escape(key))])
          [] OTHER -> <<OperatorOn(ReplaceOp, path, target)>>

diff(source, target) == <<"array", Differences(source, target, <<>>)>>
=============================================================================
