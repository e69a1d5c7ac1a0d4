--------------------------- MODULE MCStackMemory ---------------------------
(***************************************************************************)
(* StackMemory on a pool of small pages: the sizes are in the .cfg files.  *)
(***************************************************************************)
EXTENDS StackMemory
=============================================================================
