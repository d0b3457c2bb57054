------------------------ MODULE MCSmallHttpServer ------------------------
(* Instances of SmallHttpServer for TLC; the .cfg files give the sets.     *)
EXTENDS SmallHttpServer, TLC
=============================================================================
