------------------------------- MODULE Classes -------------------------------
(***************************************************************************)
(* The classes that a program finds: what Behavior (Object.cpp) knows of a *)
(* class by walking up its superclasses.                                   *)
(***************************************************************************)
EXTENDS Integers, Sequences, TLC

CONSTANTS
  Superclass,         \* of a class, "" at the end
  InstanceVariables,  \* the sequence of names that a class declares
  GlobalNames         \* the names with an entry in the table of globals

\* The same function; TLC evaluates it once.
Table(f) == f @@ << >>

\* A class and its superclasses, the nearest first.
Lineage ==
  LET lineage[class \in DOMAIN Superclass] ==
        <<class>> \o IF Superclass[class] = "" THEN << >> ELSE lineage[Superclass[class]] IN
  Table(lineage)
LineageOf(class) == IF class \in DOMAIN Superclass THEN Lineage[class] ELSE << >>

\* How many variables an instance has.
InstanceCounts ==
  LET count[class \in DOMAIN Superclass] ==
        Len(InstanceVariables[class]) + IF Superclass[class] = "" THEN 0 ELSE count[Superclass[class]] IN
  Table(count)
InstanceCount(class) == IF class \in DOMAIN Superclass THEN InstanceCounts[class] ELSE 0
=============================================================================
