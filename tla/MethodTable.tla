----------------------------- MODULE MethodTable -----------------------------
(***************************************************************************)
(* What the method dictionaries promise to a message send: each class has  *)
(* one method at most for a selector, the one that was compiled last, and  *)
(* a send runs the method of the nearest class that has one.               *)
(***************************************************************************)
EXTENDS FiniteSetsExt, Sequences, Integers

CONSTANTS Classes, Superclass, Selectors, Methods, Nil

VARIABLE methods   \* class -> selector -> the method, or Nil

Init == methods = [c \in Classes |-> [s \in Selectors |-> Nil]]

Define(c, s, m) == methods' = [methods EXCEPT ![c][s] = m]

Next == \E c \in Classes, s \in Selectors, m \in Methods \cup {Nil} : Define(c, s, m)

Spec == Init /\ [][Next]_methods

\* A class and its superclasses, the nearest one first.
Lineage(c) ==
  LET lineage[d \in Classes] ==
        IF Superclass[d] = Nil THEN <<d>> ELSE <<d>> \o lineage[Superclass[d]]
  IN lineage[c]

\* The method a message send runs.
Understood(c, s) ==
  LET definers == {i \in DOMAIN Lineage(c) : methods[Lineage(c)[i]][s] # Nil}
  IN IF definers = {} THEN Nil ELSE methods[Lineage(c)[Min(definers)]][s]
=============================================================================
