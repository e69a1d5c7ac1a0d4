------------------------- MODULE MCGlobalDictionary -------------------------
(***************************************************************************)
(* GlobalDictionary with three symbols; all of them collide in a table of  *)
(* four slots, and the last one wraps around.                              *)
(***************************************************************************)
EXTENDS GlobalDictionary, TLC

CONSTANTS Smalltalk, Point, Transcript

CollidingHash == Smalltalk :> 7 @@ Point :> 7 @@ Transcript :> 3
=============================================================================
