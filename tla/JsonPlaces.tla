----------------------------- MODULE JsonPlaces -----------------------------
(***************************************************************************)
(* What a pointer or an iterator of json.hpp refers to: a place in a value *)
(* is the sequence of the keys and, as <<i>>, of the indices that lead     *)
(* to it.                                                                  *)
(***************************************************************************)
EXTENDS JsonValue

NoPlace == <<<<-1>>>>

Selector(v, step) == IF Type(v) = "array" THEN step[1] ELSE step

Lookup(root, place) == FoldLeft(LAMBDA v, step : v[2][Selector(v, step)], root, place)

RECURSIVE With(_, _, _)
With(root, place, v) ==
    IF place = <<>> THEN v
    ELSE [root EXCEPT ![2][Selector(root, Head(place))] = With(@, Tail(place), v)]
=============================================================================
