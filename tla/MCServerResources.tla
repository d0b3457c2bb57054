------------------------- MODULE MCServerResources -------------------------
(* Instances of ServerResources for TLC; the .cfg file gives the sets.     *)
EXTENDS ServerResources, TLC

\* The TLSSocket objects are interchangeable.
Symmetry == Permutations(Wrappers)
=============================================================================
