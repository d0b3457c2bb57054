------------------------------ MODULE MCLogger ------------------------------
(* Two workers that log at the same time, one of them ending by an exception. *)
EXTENDS Logger

CONSTANTS t1, t2

MCThreads == {t1, t2}
MCEnding == {t2}
=============================================================================
