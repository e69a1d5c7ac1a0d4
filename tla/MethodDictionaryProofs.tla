----------------------- MODULE MethodDictionaryProofs -----------------------
(***************************************************************************)
(* Proofs about MethodDictionary: every dictionary is a table with room    *)
(* that answers what was put, so that it stands for a map from selectors   *)
(* to methods; and the search along the superclasses is the search in the  *)
(* lineage of the class.                                                   *)
(***************************************************************************)
EXTENDS MethodDictionary, HashedCollectionProofs, Sequences

MethodSlots == [key : Selectors, value : Methods \cup {Nil}]

\* The inductive invariant: each dictionary is a good table of methods.
GoodDictionaries ==
  /\ methodDict = [c \in Classes |-> methodDict[c]]
  /\ \A c \in Classes : Good(methodDict[c], MethodSlots)

\* The slots of a method dictionary have selectors as keys and are not nil.
LEMMA MethodSlotsAreSlots ==
  /\ AreSlots(MethodSlots)
  /\ \A s \in Selectors : s \in DOMAIN Hash /\ s # Nil
  /\ Nil \in DOMAIN Hash
BY MethodsAssumption DEF AreSlots, MethodSlots

\* The dictionaries are good at first.
LEMMA InitGood == Init => GoodDictionaries
BY EmptyTableIsGood DEF Init, GoodDictionaries

\* What at:put: writes for a key.
MethodSlot(key, value) == IF key = Nil THEN Nil ELSE Slot(key, value)

\* atPut writes a slot that belongs to its key.
LEMMA PutWrites ==
  ASSUME NEW key \in Selectors \cup {Nil}, NEW value \in Methods \cup {Nil}
  PROVE  key \in DOMAIN Hash /\ Writes(MethodSlot(key, value), key, MethodSlots)
<1>1. CASE key = Nil
  BY <1>1, MethodSlotsAreSlots DEF MethodSlot, Writes, MethodSlots
<1>2. CASE key # Nil
  BY <1>2, MethodSlotsAreSlots DEF MethodSlot, Writes, MethodSlots, Slot
<1> QED BY <1>1, <1>2

\* A step puts a slot into the dictionary of one class.
LEMMA PutStep ==
  ASSUME GoodDictionaries, NEW c \in Classes,
         NEW key \in Selectors \cup {Nil}, NEW value \in Methods \cup {Nil}, atPut(c, key, value)
  PROVE  /\ methodDict' = [methodDict EXCEPT ![c] = PutAt(methodDict[c], key, MethodSlot(key, value))]
         /\ methodDict'[c] = PutAt(methodDict[c], key, MethodSlot(key, value))
         /\ \A d \in Classes : d # c => methodDict'[d] = methodDict[d]
         /\ GoodDictionaries'
<1> DEFINE new == PutAt(methodDict[c], key, MethodSlot(key, value))
<1>1. methodDict' = [methodDict EXCEPT ![c] = new]
  BY DEF atPut, MethodSlot
<1>2. Good(new, MethodSlots)
  BY PutWrites, PutTable, MethodSlotsAreSlots DEF GoodDictionaries
<1> HIDE DEF new
<1>3. /\ methodDict' = [d \in Classes |-> methodDict'[d]]
      /\ methodDict'[c] = new
      /\ \A d \in Classes : d # c => methodDict'[d] = methodDict[d]
  BY <1>1 DEF GoodDictionaries
<1>4. GoodDictionaries'
  BY <1>2, <1>3 DEF GoodDictionaries
<1> QED BY <1>1, <1>3, <1>4 DEF new

\* Every step keeps the dictionaries good.
LEMMA NextGood == GoodDictionaries /\ [Next]_methodDict => GoodDictionaries'
<1> SUFFICES ASSUME GoodDictionaries, [Next]_methodDict PROVE GoodDictionaries'
  OBVIOUS
<1>1. CASE Next
  BY <1>1, PutStep DEF Next
<1>2. CASE UNCHANGED methodDict
  BY <1>2 DEF GoodDictionaries
<1> QED BY <1>1, <1>2

\* The dictionaries are good in all states.
LEMMA AlwaysGood == Spec => []GoodDictionaries
BY InitGood, NextGood, PTL DEF Spec

\* The fields of every dictionary keep their types.
THEOREM MethodDictionariesHaveTheirTypes == Spec => []TypeOK
<1>1. GoodDictionaries => TypeOK
  BY GoodTableHasRoom DEF GoodDictionaries, TypeOK, MethodSlots
<1> QED BY <1>1, AlwaysGood, PTL

\* No dictionary is ever full, whatever is put: findKeyPosition ends.
THEOREM DictionariesAreNeverFull == Spec => []NeverFull
<1>1. GoodDictionaries => NeverFull
  BY GoodTableHasRoom DEF GoodDictionaries, NeverFull
<1> QED BY <1>1, AlwaysGood, PTL

----------------------------------------------------------------------------
(***************************************************************************)
(* The refinement.                                                         *)
(***************************************************************************)
methodsOf == [c \in Classes |-> [s \in Selectors |-> atOrNil(c, s)]]

\* At first no selector has a method.
LEMMA InitRefines == Init => Promise!Init
<1> SUFFICES ASSUME Init PROVE \A c \in Classes, s \in Selectors : atOrNil(c, s) = Nil
  BY DEF Promise!Init
<1> TAKE c \in Classes, s \in Selectors
<1>1. SlotAt(methodDict[c], s) = Nil
  BY EmptyTableAnswersNil, MethodSlotsAreSlots DEF Init
<1> QED BY <1>1 DEF atOrNil

\* at:put: changes what one class answers for one selector.
LEMMA PutChangesOne ==
  ASSUME GoodDictionaries, NEW c \in Classes,
         NEW key \in Selectors \cup {Nil}, NEW value \in Methods \cup {Nil}, atPut(c, key, value)
  PROVE  /\ key \in Selectors => atOrNil(c, key)' = value
         /\ \A d \in Classes, s \in Selectors :
              ~(d = c /\ s = key) => atOrNil(d, s)' = atOrNil(d, s)
<1>1. methodDict'[c] = PutAt(methodDict[c], key, MethodSlot(key, value))
  BY PutStep
<1>2. \A d \in Classes : d # c => methodDict'[d] = methodDict[d]
  BY PutStep
<1>3. Good(methodDict[c], MethodSlots)
  BY DEF GoodDictionaries
<1>4. /\ MethodSlot(key, value) # Nil => SlotAt(methodDict'[c], key) = MethodSlot(key, value)
      /\ \A k \in DOMAIN Hash : k # key \/ MethodSlot(key, value) = Nil
            => SlotAt(methodDict'[c], k) = SlotAt(methodDict[c], k)
  BY <1>1, <1>3, PutWrites, PutAnswers, MethodSlotsAreSlots
<1>5. ASSUME key \in Selectors PROVE atOrNil(c, key)' = value
  <2>1. MethodSlot(key, value) \in MethodSlots /\ MethodSlot(key, value).value = value
    BY <1>5, MethodSlotsAreSlots DEF MethodSlot, MethodSlots, Slot
  <2>2. MethodSlot(key, value) # Nil
    BY <2>1, MethodSlotsAreSlots DEF AreSlots
  <2> QED BY <1>4, <2>1, <2>2 DEF atOrNil
<1>6. ASSUME NEW d \in Classes, NEW s \in Selectors, ~(d = c /\ s = key)
      PROVE  atOrNil(d, s)' = atOrNil(d, s)
  <2>1. SlotAt(methodDict'[d], s) = SlotAt(methodDict[d], s)
    BY <1>2, <1>4, <1>6, MethodSlotsAreSlots
  <2> QED BY <2>1 DEF atOrNil
<1> QED BY <1>5, <1>6

\* Every step on a dictionary is one of the table of methods, or leaves it alone.
LEMMA StepRefines ==
  GoodDictionaries /\ [Next]_methodDict => [Promise!Next]_methodsOf
<1> SUFFICES ASSUME GoodDictionaries, [Next]_methodDict PROVE [Promise!Next]_methodsOf
  OBVIOUS
<1>1. CASE UNCHANGED methodDict
  BY <1>1 DEF methodsOf, atOrNil
<1>2. ASSUME NEW c \in Classes, NEW key \in Selectors \cup {Nil}, NEW value \in Methods \cup {Nil},
             atPut(c, key, value)
      PROVE  [Promise!Next]_methodsOf
  <2>1. CASE key \in Selectors
    <3>1. methodsOf' = [methodsOf EXCEPT ![c][key] = value]
      <4>1. atOrNil(c, key)' = value
        BY <1>2, <2>1, PutChangesOne
      <4>2. \A d \in Classes, s \in Selectors :
              atOrNil(d, s)' = IF d = c /\ s = key THEN value ELSE atOrNil(d, s)
        BY <1>2, <4>1, PutChangesOne
      <4>3. methodsOf' = [d \in Classes |-> [s \in Selectors |->
                            IF d = c /\ s = key THEN value ELSE atOrNil(d, s)]]
        BY <4>2 DEF methodsOf
      <4>4. [methodsOf EXCEPT ![c][key] = value]
              = [d \in Classes |-> [s \in Selectors |->
                   IF d = c /\ s = key THEN value ELSE atOrNil(d, s)]]
        BY <2>1 DEF methodsOf
      <4> QED BY <4>3, <4>4
    <3>2. Promise!Define(c, key, value)
      BY <3>1 DEF Promise!Define, methodsOf
    <3> QED BY <2>1, <3>2 DEF Promise!Next
  <2>2. CASE key \notin Selectors
    <3>1. \A d \in Classes, s \in Selectors : atOrNil(d, s)' = atOrNil(d, s)
      BY <1>2, <2>2, PutChangesOne
    <3> QED BY <3>1 DEF methodsOf
  <2> QED BY <2>1, <2>2
<1> QED BY <1>1, <1>2 DEF Next

\* The dictionaries implement the map from selectors to methods.
THEOREM DictionariesImplementMethodTable == Spec => MethodTableSpec
BY InitRefines, StepRefines, AlwaysGood, PTL DEF Spec, MethodTableSpec, Promise!Spec, methodsOf

----------------------------------------------------------------------------
(***************************************************************************)
(* The superclasses.  LineageStep is what the recursive function of        *)
(* Lineage is at a class; a class of no more than a depth has its lineage, *)
(* as its superclasses are of a lesser one.                                *)
(***************************************************************************)
LineageStep(f, c) == IF Superclass[c] = Nil THEN <<c>> ELSE <<c>> \o f[Superclass[c]]
IsLineage(f, S) == f = [c \in S |-> LineageStep(f, c)]

IsDepth(depth, deepest) ==
  /\ deepest \in Nat /\ depth \in [Classes -> 0..deepest]
  /\ \A c \in Classes : Superclass[c] # Nil => depth[Superclass[c]] < depth[c]
Shallow(depth, n) == {c \in Classes : depth[c] < n}

\* The superclass chains end, so that every class has a depth.
LEMMA SomeDepth ==
  /\ \E depth, deepest : IsDepth(depth, deepest)
  /\ \A c \in Classes : Superclass[c] # Nil => Superclass[c] \in Classes
<1>1. Cardinality(Classes) \in Nat
  BY HierarchyAssumption, FS_CardinalityType
<1> QED BY <1>1, HierarchyAssumption DEF IsDepth

\* The recursive function exists.
LEMMA LineageExists ==
  \E f : IsLineage(f, Classes)
<1>1. PICK depth, deepest : IsDepth(depth, deepest)
  BY SomeDepth
<1>2. /\ \A c \in Classes : depth[c] \in Nat /\ depth[c] <= deepest
      /\ \A c \in Classes : Superclass[c] # Nil => depth[Superclass[c]] < depth[c]
      /\ deepest \in Nat
  BY <1>1 DEF IsDepth
<1> DEFINE S == {n \in Nat : \E f : IsLineage(f, Shallow(depth, n))}
<1>3. 0 \in S
  <2> DEFINE f == [c \in {} |-> c]
  <2>1. Shallow(depth, 0) = {}
    BY <1>2 DEF Shallow
  <2>2. IsLineage(f, Shallow(depth, 0))
    BY <2>1 DEF IsLineage
  <2> QED BY <2>2
<1>4. ASSUME NEW n \in S PROVE n + 1 \in S
  <2>1. PICK f : IsLineage(f, Shallow(depth, n))
    OBVIOUS
  <2> DEFINE g == [c \in Shallow(depth, n + 1) |-> LineageStep(f, c)]
  <2>2. \A c \in Shallow(depth, n + 1) : Superclass[c] # Nil => Superclass[c] \in Shallow(depth, n)
    BY <1>2, SomeDepth DEF Shallow
  <2>3. \A c \in Shallow(depth, n) : c \in Shallow(depth, n + 1)
    BY <1>2 DEF Shallow
  <2>4. \A c \in Shallow(depth, n) : g[c] = f[c]
    BY <2>1, <2>3 DEF IsLineage
  <2>5. g = [c \in Shallow(depth, n + 1) |-> LineageStep(f, c)]
    OBVIOUS
  <2> HIDE DEF g
  <2>6. \A c \in Shallow(depth, n + 1) : LineageStep(g, c) = LineageStep(f, c)
    BY <2>2, <2>4 DEF LineageStep
  <2>7. IsLineage(g, Shallow(depth, n + 1))
    BY <2>5, <2>6, Zenon DEF IsLineage
  <2> QED BY <2>7
<1> HIDE DEF S
<1>5. S = Nat
  <2>1. S \in SUBSET Nat
    BY DEF S
  <2> QED BY <1>3, <1>4, <2>1, SetInduction
<1>6. PICK f : IsLineage(f, Shallow(depth, deepest + 1))
  BY <1>2, <1>5 DEF S
<1>7. Shallow(depth, deepest + 1) = Classes
  BY <1>2 DEF Shallow
<1> QED BY <1>6, <1>7

\* What holds for the classes without a superclass, and for a class when it
\* holds for its superclass, holds for all of them.
LEMMA ClassInduction ==
  ASSUME NEW S \in SUBSET Classes,
         \A c \in Classes : Superclass[c] = Nil => c \in S,
         \A c \in Classes : Superclass[c] # Nil /\ Superclass[c] \in S => c \in S
  PROVE  S = Classes
<1>1. PICK depth, deepest : IsDepth(depth, deepest)
  BY SomeDepth
<1>2. /\ \A c \in Classes : depth[c] \in Nat /\ depth[c] <= deepest
      /\ \A c \in Classes : Superclass[c] # Nil => depth[Superclass[c]] < depth[c]
      /\ deepest \in Nat
  BY <1>1 DEF IsDepth
<1> DEFINE D == {n \in Nat : Shallow(depth, n) \subseteq S}
<1>3. 0 \in D
  BY <1>2 DEF Shallow
<1>4. ASSUME NEW n \in D PROVE n + 1 \in D
  <2>1. ASSUME NEW c \in Shallow(depth, n + 1) PROVE c \in S
    <3>1. CASE Superclass[c] = Nil
      BY <3>1 DEF Shallow
    <3>2. CASE Superclass[c] # Nil
      <4>1. c \in Classes /\ Superclass[c] \in Shallow(depth, n)
        BY <1>2, <3>2, SomeDepth DEF Shallow
      <4> QED BY <3>2, <4>1
    <3> QED BY <3>1, <3>2
  <2> QED BY <2>1
<1> HIDE DEF D
<1>5. D = Nat
  <2>1. D \in SUBSET Nat
    BY DEF D
  <2> QED BY <1>3, <1>4, <2>1, SetInduction
<1>6. Shallow(depth, deepest + 1) \subseteq S
  BY <1>2, <1>5 DEF D
<1> QED BY <1>2, <1>6 DEF Shallow

\* The lineage of a class is the class and the lineage of its superclass.
LEMMA LineageIsRecursive ==
  \A c \in Classes : Promise!Lineage(c) = IF Superclass[c] = Nil THEN <<c>>
                                          ELSE <<c>> \o Promise!Lineage(Superclass[c])
<1> DEFINE f == CHOOSE g : IsLineage(g, Classes)
<1>1. IsLineage(f, Classes)
  BY LineageExists
<1>2. \A c : Promise!Lineage(c) = f[c]
  BY Zenon DEF Promise!Lineage, IsLineage, LineageStep
<1> HIDE DEF f
<1>3. \A c \in Classes : f[c] = LineageStep(f, c)
  BY <1>1 DEF IsLineage
<1> QED BY <1>2, <1>3, Zenon DEF LineageStep

\* The lineage of a class is a sequence of classes that is not empty.
LEMMA LineageIsASequence ==
  \A c \in Classes : Promise!Lineage(c) \in Seq(Classes) /\ Promise!Lineage(c) # << >>
<1> DEFINE S == {c \in Classes : Promise!Lineage(c) \in Seq(Classes) /\ Promise!Lineage(c) # << >>}
<1>1. ASSUME NEW c \in Classes, Superclass[c] = Nil PROVE c \in S
  <2>1. Promise!Lineage(c) = <<c>>
    BY <1>1, LineageIsRecursive
  <2>2. <<c>> \in Seq(Classes) /\ <<c>> # << >>
    OBVIOUS
  <2> QED BY <2>1, <2>2
<1>2. ASSUME NEW c \in Classes, Superclass[c] # Nil, Superclass[c] \in S PROVE c \in S
  <2> DEFINE rest == Promise!Lineage(Superclass[c])
  <2>1. Promise!Lineage(c) = <<c>> \o rest
    BY <1>2, LineageIsRecursive
  <2>2. rest \in Seq(Classes)
    BY <1>2
  <2> HIDE DEF rest
  <2>3. <<c>> \o rest \in Seq(Classes) /\ <<c>> \o rest # << >>
    BY <2>2
  <2> QED BY <2>1, <2>3
<1> HIDE DEF S
<1>3. S = Classes
  <2>1. S \in SUBSET Classes
    BY DEF S
  <2> QED BY <1>1, <1>2, <2>1, ClassInduction
<1> QED BY <1>3 DEF S

\* The places in the lineage of the classes that have a method.
Definers(c, s) ==
  {i \in DOMAIN Promise!Lineage(c) : atOrNil(Promise!Lineage(c)[i], s) # Nil}

\* What a class understands is the method of the first class of its lineage that has
\* one.
LEMMA UnderstoodIsTheFirst ==
  ASSUME NEW c \in Classes, NEW s \in Selectors
  PROVE  Promise!Understood(c, s)
           = IF Definers(c, s) = {} THEN Nil
             ELSE atOrNil(Promise!Lineage(c)[Min(Definers(c, s))], s)
<1> DEFINE L == Promise!Lineage(c)
           D == {i \in DOMAIN L : methodsOf[L[i]][s] # Nil}
<1>1. \A i \in DOMAIN L : methodsOf[L[i]][s] = atOrNil(L[i], s)
  <2>1. L \in Seq(Classes)
    BY LineageIsASequence
  <2> HIDE DEF L
  <2>2. \A i \in DOMAIN L : L[i] \in Classes
    BY <2>1
  <2> QED BY <2>2 DEF methodsOf
<1>2. D = Definers(c, s)
  BY <1>1, Zenon DEF Definers
<1>3. Promise!Understood(c, s)
        = IF D = {} THEN Nil ELSE methodsOf[L[Promise!Min(D)]][s]
  BY Zenon DEF Promise!Understood, methodsOf
<1>4. Promise!Min(D) = Min(D)
  BY Zenon DEF Promise!Min, Min
<1>5. D # {} => Min(D) \in DOMAIN L
  <2>1. L \in Seq(Classes)
    BY LineageIsASequence
  <2> HIDE DEF L
  <2>2. D \in SUBSET Nat
    BY <2>1
  <2> HIDE DEF D
  <2>3. D # {} => Min(D) \in D
    BY <2>2, LeastNatural
  <2> QED BY <2>3 DEF D
<1> HIDE DEF L
<1>6. CASE D = {}
  BY <1>2, <1>3, <1>6
<1>7. CASE D # {}
  <2>1. methodsOf[L[Min(D)]][s] = atOrNil(L[Min(D)], s)
    BY <1>1, <1>5, <1>7
  <2> HIDE DEF D
  <2> QED BY <1>2, <1>3, <1>4, <1>7, <2>1 DEF L
<1> QED BY <1>6, <1>7

\* The method a class understands a selector with is its own, or the one of its superclass.
LEMMA UnderstoodIsRecursive ==
  ASSUME NEW c \in Classes, NEW s \in Selectors
  PROVE  Promise!Understood(c, s)
           = IF atOrNil(c, s) # Nil \/ Superclass[c] = Nil THEN atOrNil(c, s)
             ELSE Promise!Understood(Superclass[c], s)
<1> DEFINE L == Promise!Lineage(c)
           D == Definers(c, s)
<1>1. L \in Seq(Classes) /\ L # << >>
  BY LineageIsASequence
<1>2. L[1] = c
  <2>1. CASE Superclass[c] = Nil
    <3>1. L = <<c>>
      BY <2>1, LineageIsRecursive
    <3> HIDE DEF L
    <3> QED BY <3>1
  <2>2. CASE Superclass[c] # Nil
    <3> DEFINE rest == Promise!Lineage(Superclass[c])
    <3>1. rest \in Seq(Classes) /\ L = <<c>> \o rest
      BY <2>2, LineageIsASequence, LineageIsRecursive, SomeDepth
    <3> HIDE DEF L, rest
    <3> QED BY <3>1
  <2> QED BY <2>1, <2>2
<1>3. D \in SUBSET (DOMAIN L) /\ \A i \in DOMAIN L : i \in D <=> atOrNil(L[i], s) # Nil
  BY DEF Definers
<1>4. Promise!Understood(c, s) = IF D = {} THEN Nil ELSE atOrNil(L[Min(D)], s)
  BY UnderstoodIsTheFirst
<1> HIDE DEF L, D
<1>5. /\ 1 \in DOMAIN L /\ D \in SUBSET Nat /\ \A i \in D : 1 <= i
  BY <1>1, <1>3
<1>6. D # {} => Min(D) \in D /\ \A i \in D : Min(D) <= i
  BY <1>5, LeastNatural
<1>7. CASE atOrNil(c, s) # Nil
  <2>1. 1 \in D
    BY <1>2, <1>3, <1>5, <1>7
  <2>2. Min(D) \in D
    BY <1>6, <2>1
  <2>3. Min(D) \in Nat /\ 1 <= Min(D) /\ Min(D) <= 1
    BY <1>5, <1>6, <2>1, <2>2
  <2>4. Min(D) = 1
    BY <2>3
  <2> QED BY <1>2, <1>4, <1>7, <2>1, <2>4
<1>8. CASE atOrNil(c, s) = Nil /\ Superclass[c] = Nil
  <2>1. L = <<c>>
    BY <1>8, LineageIsRecursive DEF L
  <2>2. D = {}
    BY <1>3, <1>8, <2>1
  <2> QED BY <1>4, <1>8, <2>2
<1>9. CASE atOrNil(c, s) = Nil /\ Superclass[c] # Nil
  <2> DEFINE super == Superclass[c]
             rest == Promise!Lineage(super)
             E == Definers(super, s)
  <2>1. super \in Classes /\ rest \in Seq(Classes) /\ L = <<c>> \o rest
    BY <1>9, LineageIsASequence, LineageIsRecursive, SomeDepth DEF L
  <2>2. E \in SUBSET (DOMAIN rest) /\ \A i \in DOMAIN rest : i \in E <=> atOrNil(rest[i], s) # Nil
    BY DEF Definers
  <2>3. Promise!Understood(super, s) = IF E = {} THEN Nil ELSE atOrNil(rest[Min(E)], s)
    BY <2>1, UnderstoodIsTheFirst
  <2> HIDE DEF super, rest, E
  <2>4. /\ \A i \in DOMAIN rest : i + 1 \in DOMAIN L /\ L[i + 1] = rest[i]
        /\ \A i \in DOMAIN L : i = 1 \/ i - 1 \in DOMAIN rest
    BY <2>1
  <2>5. DOMAIN rest \subseteq Nat \ {0} /\ DOMAIN L \subseteq Nat \ {0}
    BY <1>1, <2>1
  <2>6. \A i \in E : i + 1 \in D
    BY <1>3, <2>2, <2>4
  <2>7. \A i \in D : i - 1 \in E
    <3> TAKE i \in D
    <3>1. i # 1 /\ i \in DOMAIN L /\ atOrNil(L[i], s) # Nil
      BY <1>2, <1>3, <1>9
    <3>2. i - 1 \in DOMAIN rest /\ L[(i - 1) + 1] = rest[i - 1] /\ (i - 1) + 1 = i
      BY <2>4, <2>5, <3>1
    <3> QED BY <2>2, <3>1, <3>2
  <2>8. E \in SUBSET Nat
    BY <2>2, <2>5
  <2>9. E # {} => Min(E) \in E /\ \A i \in E : Min(E) <= i
    BY <2>8, LeastNatural
  <2>10. CASE E = {}
    <3>1. D = {}
      BY <2>7, <2>10
    <3> QED BY <1>4, <1>9, <2>3, <2>10, <3>1 DEF super
  <2>11. CASE E # {}
    <3>1. D # {}
      BY <2>6, <2>11
    <3>2. Min(D) = Min(E) + 1
      <4>1. Min(E) + 1 \in D /\ Min(D) - 1 \in E
        BY <1>6, <2>6, <2>7, <2>9, <2>11, <3>1
      <4>2. Min(D) <= Min(E) + 1 /\ Min(E) <= Min(D) - 1
        BY <1>6, <2>9, <2>11, <3>1, <4>1
      <4>3. Min(D) \in Nat /\ Min(E) \in Nat
        BY <1>5, <1>6, <2>8, <2>9, <2>11, <3>1
      <4> QED BY <4>2, <4>3
    <3>3. Min(E) \in DOMAIN rest
      BY <2>2, <2>9, <2>11
    <3>4. L[Min(D)] = rest[Min(E)]
      BY <2>4, <3>2, <3>3
    <3> QED BY <1>4, <1>9, <2>3, <2>11, <3>1, <3>4 DEF super
  <2> QED BY <2>10, <2>11
<1> QED BY <1>7, <1>8, <1>9

LookupStep(f, c, s) ==
  IF atOrNil(c, s) # Nil \/ Superclass[c] = Nil THEN atOrNil(c, s) ELSE f[Superclass[c]]

\* Behavior::lookupSelector, a function of the class, is the search in the lineage.
LEMMA LookupIsUnderstood ==
  ASSUME NEW s \in Selectors
  PROVE  \A c \in Classes : lookupSelector(c, s) = Promise!Understood(c, s)
<1> DEFINE IsLookup(f) == f = [c \in Classes |-> LookupStep(f, c, s)]
           found == CHOOSE f : IsLookup(f)
           understood == [c \in Classes |-> Promise!Understood(c, s)]
<1>1. IsLookup(understood)
  <2>1. \A c \in Classes : Superclass[c] # Nil => Superclass[c] \in Classes
    BY SomeDepth
  <2>2. \A c \in Classes : Promise!Understood(c, s) = LookupStep(understood, c, s)
    BY <2>1, UnderstoodIsRecursive, Zenon DEF LookupStep
  <2> QED BY <2>2, Zenon
<1>2. IsLookup(found)
  <2> HIDE DEF understood, IsLookup
  <2> QED BY <1>1, Zenon
<1>3. \A c : lookupSelector(c, s) = found[c]
  BY Zenon DEF lookupSelector, LookupStep
<1> DEFINE S == {c \in Classes : found[c] = Promise!Understood(c, s)}
<1>4. \A c \in Classes : found[c] = LookupStep(found, c, s)
  <2> HIDE DEF found
  <2> QED BY <1>2
<1> HIDE DEF found
<1>5. ASSUME NEW c \in Classes, Superclass[c] = Nil PROVE c \in S
  BY <1>4, <1>5, UnderstoodIsRecursive DEF LookupStep
<1>6. ASSUME NEW c \in Classes, Superclass[c] # Nil, Superclass[c] \in S PROVE c \in S
  BY <1>4, <1>6, UnderstoodIsRecursive DEF LookupStep
<1> HIDE DEF S
<1>7. S = Classes
  <2>1. S \in SUBSET Classes
    BY DEF S
  <2> QED BY <1>5, <1>6, <2>1, ClassInduction
<1> QED BY <1>3, <1>7 DEF S

\* Whatever the dictionaries hold, lookupSelector finds the method of the
\* nearest class that has one, in any hierarchy without a cycle.
THEOREM LookupFindsTheNearestMethod == Spec => []SendsAreUnderstood
<1>1. SendsAreUnderstood
  BY LookupIsUnderstood DEF SendsAreUnderstood
<1> QED BY <1>1, PTL
=============================================================================
