------------------------- MODULE MCMethodDictionary -------------------------
(***************************************************************************)
(* MethodDictionary for a class and its subclass.  Two of the selectors    *)
(* have the same place in every table, and one wraps around the end.       *)
(***************************************************************************)
EXTENDS MethodDictionary, TLC

CONSTANTS object, point, x, y, size

Hierarchy     == object :> Nil @@ point :> object
Capacities    == object :> 2 @@ point :> 8
CollidingHash == x :> 7 @@ y :> 7 @@ size :> 3 @@ Nil :> 1
=============================================================================
