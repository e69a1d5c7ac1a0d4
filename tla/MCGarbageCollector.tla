------------------------ MODULE MCGarbageCollector ------------------------
(***************************************************************************)
(* GarbageCollector on small heaps.                                        *)
(***************************************************************************)
EXTENDS GarbageCollector

NilOnly       == {0}
NilOrSmallInt == {0, -1}
===========================================================================
