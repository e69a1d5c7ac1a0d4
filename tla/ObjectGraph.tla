---------------------------- MODULE ObjectGraph ----------------------------
(***************************************************************************)
(* What the memory manager promises to the rest of the virtual machine: a  *)
(* graph of objects named by an identity that never changes, whatever      *)
(* address the collector moves an object to.  A collection keeps exactly   *)
(* the objects that can be reached from the roots through strong           *)
(* references, leaves their contents alone, and turns the weak references  *)
(* to the objects it frees into nil.                                       *)
(***************************************************************************)
EXTENDS Integers

CONSTANTS
  Ids,           \* identities of the objects
  Literals,      \* values the program stores that name no object
  SlotCounts,    \* sizes of the objects the program creates
  StaticRoots,   \* root slots that are registered once for all
  Refs           \* OopRef objects: root slots that come and go

VARIABLE graph   \* [objects: identity -> contents, roots: root slot -> value]

Nil       == 0   \* the nil object, which lives outside of the heap
Immediate == -1  \* any value that is not a pointer

RootSlots == StaticRoots \cup Refs

(***************************************************************************)
(* Contents of an object: a weak one keeps none of its slots alive.        *)
(***************************************************************************)
Contents(n, weak) == [weak |-> weak, slots |-> [i \in 1..n |-> Nil]]

(***************************************************************************)
(* A set of identities is closed when it holds what the roots name and     *)
(* what its own strong objects name.                                       *)
(***************************************************************************)
Closed(g, K) ==
  /\ K \subseteq DOMAIN g.objects
  /\ \A s \in DOMAIN g.roots : g.roots[s] \in DOMAIN g.objects => g.roots[s] \in K
  /\ \A o \in K : ~g.objects[o].weak =>
       \A i \in DOMAIN g.objects[o].slots :
          g.objects[o].slots[i] \in DOMAIN g.objects => g.objects[o].slots[i] \in K

Reachable(g) ==
  CHOOSE K \in SUBSET DOMAIN g.objects :
    /\ Closed(g, K)
    /\ \A L \in SUBSET DOMAIN g.objects : Closed(g, L) => K \subseteq L

(***************************************************************************)
(* The graph that is left when only the objects K are kept.                *)
(***************************************************************************)
Kept(g, K) ==
  LET Keep(v) == IF v \in DOMAIN g.objects \ K THEN Nil ELSE v
  IN [g EXCEPT !.objects = [o \in K |->
        [g.objects[o] EXCEPT !.slots = [i \in DOMAIN @ |-> Keep(@[i])]]]]

----------------------------------------------------------------------------
Init == graph = [objects |-> << >>, roots |-> [s \in StaticRoots |-> Nil]]

New(s, n, weak) ==
  \E o \in Ids \ DOMAIN graph.objects :
    graph' = [objects |-> [p \in DOMAIN graph.objects \cup {o} |->
                             IF p = o THEN Contents(n, weak) ELSE graph.objects[p]],
              roots   |-> [graph.roots EXCEPT ![s] = o]]

Store(s, i, v) ==
  LET o == graph.roots[s]
  IN /\ o \in DOMAIN graph.objects
     /\ i \in DOMAIN graph.objects[o].slots
     /\ graph' = [graph EXCEPT !.objects[o].slots[i] = v]

SetRoot(s, v) == graph' = [graph EXCEPT !.roots[s] = v]

Load(s, t, i) ==
  LET o == graph.roots[t]
  IN /\ o \in DOMAIN graph.objects
     /\ i \in DOMAIN graph.objects[o].slots
     /\ SetRoot(s, graph.objects[o].slots[i])

Register(s, v) ==
  graph' = [graph EXCEPT !.roots =
              [t \in DOMAIN graph.roots \cup {s} |-> IF t = s THEN v ELSE graph.roots[t]]]

Unregister(s) ==
  graph' = [graph EXCEPT !.roots = [t \in DOMAIN graph.roots \ {s} |-> graph.roots[t]]]

Collect == graph' = Kept(graph, Reachable(graph))

(***************************************************************************)
(* What the program can hold in its hands: what a root names, nil, or a    *)
(* value that is no pointer.                                               *)
(***************************************************************************)
Held == {graph.roots[s] : s \in DOMAIN graph.roots} \cup Literals

Next ==
  \/ \E s \in DOMAIN graph.roots : \E n \in SlotCounts, weak \in BOOLEAN : New(s, n, weak)
  \/ \E s \in DOMAIN graph.roots : \E v \in Held :
        \/ SetRoot(s, v)
        \/ \E n \in SlotCounts : \E i \in 1..n : Store(s, i, v)
  \/ \E s, t \in DOMAIN graph.roots : \E n \in SlotCounts : \E i \in 1..n : Load(s, t, i)
  \/ \E s \in Refs \ DOMAIN graph.roots : \E v \in Held : Register(s, v)
  \/ \E s \in Refs \cap DOMAIN graph.roots : Unregister(s)
  \/ Collect

Spec == Init /\ [][Next]_graph
=============================================================================
