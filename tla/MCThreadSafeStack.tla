------------------------ MODULE MCThreadSafeStack ------------------------
(* Instances of ThreadSafeStack for TLC; the .cfg files give the sets.     *)
EXTENDS ThreadSafeStack, TLC

\* Workers, and sockets, are interchangeable (safety runs only).
Symmetry == Permutations(Workers) \cup Permutations(Sockets)
=============================================================================
