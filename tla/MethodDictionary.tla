-------------------------- MODULE MethodDictionary --------------------------
(***************************************************************************)
(* The method dictionaries of the classes (MethodDictionary in             *)
(* include/Lodtalk/Collections.hpp, Behavior::lookupSelector in            *)
(* vm/Object.cpp).  A slot is a key of the array of keys and the value     *)
(* next to it; the value next to a free slot is read by nobody.            *)
(***************************************************************************)
EXTENDS HashedCollection

CONSTANTS
  Classes,
  Superclass,    \* class -> its superclass, or Nil
  Selectors,
  Methods,
  MaxCapacity    \* class -> bound on the capacity of its dictionary

ASSUME MethodsAssumption ==
  /\ Selectors \cup {Nil} \subseteq DOMAIN Hash /\ Nil \notin Selectors
  /\ Nil \notin [key : Selectors, value : Methods \cup {Nil}]

\* A class has no superclass that inherits from it.
ASSUME HierarchyAssumption ==
  /\ IsFiniteSet(Classes) /\ Nil \notin Classes
  /\ Superclass \in [Classes -> Classes \cup {Nil}]
  /\ \E depth \in [Classes -> 0..Cardinality(Classes)] :
       \A c \in Classes : Superclass[c] # Nil => depth[Superclass[c]] < depth[c]

VARIABLE methodDict   \* class -> its dictionary

Slot(key, value) == [key |-> key, value |-> value]

\* basicNativeNew of a dictionary, for each class.
Init == methodDict = [c \in Classes |-> EmptyTable(0)]

\* Faulty variant: the key nil takes a slot.
AtPutNilKey(c, key, value) ==
  LET table == PutAt(methodDict[c], key, Slot(key, value))
  IN /\ table.capacity <= MaxCapacity[c]
     /\ methodDict' = [methodDict EXCEPT ![c] = table]

\* The key nil leaves its slot free, and counts.
atPut(c, key, value) ==
  LET table == PutAt(methodDict[c], key, IF key = Nil THEN Nil ELSE Slot(key, value))
  IN /\ table.capacity <= MaxCapacity[c]
     /\ methodDict' = [methodDict EXCEPT ![c] = table]

Next ==
  \E c \in Classes, key \in Selectors \cup {Nil}, value \in Methods \cup {Nil} :
     atPut(c, key, value)

Spec == Init /\ [][Next]_methodDict

atOrNil(c, key) ==
  LET slot == SlotAt(methodDict[c], key) IN IF slot = Nil THEN Nil ELSE slot.value

\* Faulty variant: the search ends at the first class that has the selector,
\* even if its method is nil.
LookupStopsAtKey(c, s) ==
  LET lookup[d \in Classes] ==
        IF SlotAt(methodDict[d], s) # Nil \/ Superclass[d] = Nil
        THEN atOrNil(d, s) ELSE lookup[Superclass[d]]
  IN lookup[c]

lookupSelector(c, s) ==
  LET lookup[d \in Classes] ==
        IF atOrNil(d, s) # Nil \/ Superclass[d] = Nil THEN atOrNil(d, s) ELSE lookup[Superclass[d]]
  IN lookup[c]

----------------------------------------------------------------------------
(***************************************************************************)
(* Properties.                                                             *)
(***************************************************************************)

\* The fields of every dictionary have their types.
TypeOK ==
  /\ DOMAIN methodDict = Classes
  /\ \A c \in Classes : IsTable(methodDict[c], [key : Selectors, value : Methods \cup {Nil}])

\* findKeyPosition ends at a free slot or at the key, whatever was put, nil
\* included: a dictionary is never full, and increaseCapacity does not have to
\* grow the table again while it fills it.
NeverFull == \A c \in Classes : HasRoom(methodDict[c])

Promise == INSTANCE MethodTable WITH
  methods <- [c \in Classes |-> [s \in Selectors |-> atOrNil(c, s)]]

\* A dictionary is the map from selectors to methods that it stands for: at:put:
\* changes the method of one selector, however the table is moved for it.
MethodTableSpec == Promise!Spec

\* Behavior::lookupSelector finds the method of the nearest class that has one.
SendsAreUnderstood ==
  \A c \in Classes, s \in Selectors : lookupSelector(c, s) = Promise!Understood(c, s)
=============================================================================
