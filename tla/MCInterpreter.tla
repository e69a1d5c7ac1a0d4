---------------------------- MODULE MCInterpreter ----------------------------
(***************************************************************************)
(* The programs of SourcePrograms on the classes of Image.                 *)
(***************************************************************************)
EXTENDS SourcePrograms, Execution
=============================================================================
