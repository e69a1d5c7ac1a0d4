---------------------------- MODULE MCClassTable ----------------------------
(***************************************************************************)
(* ClassTable with three threads, pages of two entries, one special class. *)
(***************************************************************************)
EXTENDS ClassTable

CONSTANTS c1, c2

OneSpecialClass == <<c1>>
=============================================================================
