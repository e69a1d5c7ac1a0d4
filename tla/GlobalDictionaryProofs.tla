----------------------- MODULE GlobalDictionaryProofs -----------------------
(***************************************************************************)
(* Proofs about GlobalDictionary: the types, and, when the embedding       *)
(* program sets globals at start-up only, that a symbol keeps the          *)
(* association it has and that every reader sees one value.                *)
(***************************************************************************)
EXTENDS GlobalDictionary, HashedCollectionProofs

AssociationRecords ==
  [class : {"GlobalVariable", "Association"}, key : Symbols, value : Values]

\* The slots of a dictionary when n associations have been created.
GlobalSlots(n) == [key : Symbols, association : 1..n]

\* The fields are of their types, and the table is good.
Typed ==
  /\ Good(globals, GlobalSlots(Len(associations)))
  /\ associations \in Seq(AssociationRecords) /\ Len(associations) <= MaxAssociations
  /\ literals \subseteq DOMAIN associations
  /\ started \in BOOLEAN
  /\ assigned \in [Symbols -> Values \cup {Nil}]

\* The slots of the dictionary have symbols as keys and are not nil.
LEMMA GlobalSlotsAreSlots ==
  ASSUME NEW n \in Nat, n <= MaxAssociations
  PROVE  AreSlots(GlobalSlots(n)) /\ Nil \notin 1..n /\ \A s \in Symbols : s \in DOMAIN Hash
<1>1. 1..n \subseteq 1..MaxAssociations
  BY GlobalsAssumption
<1>2. GlobalSlots(n) \subseteq [key : Symbols, association : 1..MaxAssociations]
  BY <1>1 DEF GlobalSlots
<1> QED BY <1>1, <1>2, GlobalsAssumption DEF AreSlots

\* A good table stays one when more slots are possible.
LEMMA GoodForMore ==
  ASSUME NEW S, NEW T, S \subseteq T, NEW table, Good(table, S)
  PROVE  Good(table, T)
<1>1. table.keyValues \in [0..(table.capacity - 1) -> T \cup {Nil}]
  BY DEF Good, WellFormed, Tables
<1> QED BY <1>1 DEF Good, WellFormed, Tables

\* The types are right at first.
LEMMA InitTyped == Init => Typed
<1> SUFFICES ASSUME Init PROVE Typed
  OBVIOUS
<1>1. Len(associations) = 0 /\ associations \in Seq(AssociationRecords) /\ DOMAIN associations = {}
  BY DEF Init
<1>2. Good(globals, GlobalSlots(Len(associations)))
  BY EmptyTableIsGood DEF Init
<1>3. Len(associations) <= MaxAssociations
  BY <1>1, GlobalsAssumption
<1>4. literals \subseteq DOMAIN associations /\ started \in BOOLEAN
  BY DEF Init
<1>5. assigned \in [Symbols -> Values \cup {Nil}]
  BY DEF Init
<1> QED BY <1>1, <1>2, <1>3, <1>4, <1>5 DEF Typed

\* The association of a symbol is one that was created.
LEMMA AssociationIsOne ==
  ASSUME Typed, NEW s \in Symbols, associationAtOrNil(s) # Nil
  PROVE  associationAtOrNil(s) \in DOMAIN associations
<1>1. Len(associations) \in Nat /\ DOMAIN associations = 1..Len(associations)
  BY DEF Typed
<1>2. /\ AreSlots(GlobalSlots(Len(associations))) /\ s \in DOMAIN Hash
      /\ Good(globals, GlobalSlots(Len(associations)))
  BY <1>1, GlobalSlotsAreSlots DEF Typed
<1>3. SlotAt(globals, s) # Nil
  BY DEF associationAtOrNil
<1>4. SlotAt(globals, s) \in GlobalSlots(Len(associations))
  BY <1>2, <1>3, AnswersTheKey
<1> QED BY <1>1, <1>3, <1>4 DEF associationAtOrNil, GlobalSlots

\* Setting the value of an association changes no other one, and not its key.
LEMMA SetValueStep ==
  ASSUME Typed, NEW a \in DOMAIN associations, NEW value \in Values, SetValue(a, value)
  PROVE  /\ associations' \in Seq(AssociationRecords) /\ Len(associations') = Len(associations)
         /\ DOMAIN associations' = DOMAIN associations
         /\ associations'[a].value = value
         /\ \A b \in DOMAIN associations :
              /\ associations'[b].key = associations[b].key
              /\ associations'[b].class = associations[b].class
              /\ b # a => associations'[b] = associations[b]
         /\ globals' = globals
<1> DEFINE new == [associations[a] EXCEPT !.value = value]
<1>1. associations \in Seq(AssociationRecords) /\ associations[a] \in AssociationRecords
  BY DEF Typed
<1>2. /\ new \in AssociationRecords /\ new.value = value
      /\ new.key = associations[a].key /\ new.class = associations[a].class
  BY <1>1 DEF AssociationRecords
<1>3. associations' = [associations EXCEPT ![a] = new] /\ globals' = globals
  BY DEF SetValue
<1> HIDE DEF new
<1> QED BY <1>1, <1>2, <1>3

\* An association that is put is the one of its symbol, and of no other symbol.
LEMMA PutStep ==
  ASSUME Typed, NEW class \in {"GlobalVariable", "Association"},
         NEW s \in Symbols, NEW value \in Values, putAssociation(class, s, value)
  PROVE  /\ associations' \in Seq(AssociationRecords)
         /\ Len(associations') = Len(associations) + 1 /\ Len(associations') <= MaxAssociations
         /\ DOMAIN associations \subseteq DOMAIN associations'
         /\ \A a \in DOMAIN associations : associations'[a] = associations[a]
         /\ associationAtOrNil(s)' = Len(associations')
         /\ Len(associations') \in DOMAIN associations'
         /\ associations'[Len(associations')] = [class |-> class, key |-> s, value |-> value]
         /\ \A t \in Symbols : t # s => associationAtOrNil(t)' = associationAtOrNil(t)
         /\ Good(globals', GlobalSlots(Len(associations')))
<1> DEFINE n == Len(associations) + 1
           new == [class |-> class, key |-> s, value |-> value]
           slot == Slot(s, n)
<1>1. /\ associations' = Append(associations, new) /\ n <= MaxAssociations
      /\ globals' = PutAt(globals, s, slot)
  BY DEF putAssociation
<1>2. new \in AssociationRecords /\ associations \in Seq(AssociationRecords)
  BY DEF AssociationRecords, Typed
<1>3. /\ associations' \in Seq(AssociationRecords) /\ Len(associations') = n
      /\ DOMAIN associations' = 1..n /\ DOMAIN associations \subseteq DOMAIN associations'
      /\ \A a \in DOMAIN associations : associations'[a] = associations[a]
      /\ associations'[n] = new /\ n \in Nat /\ n \in 1..n
  <2> HIDE DEF new
  <2> QED BY <1>1, <1>2
<1>4. /\ AreSlots(GlobalSlots(n)) /\ s \in DOMAIN Hash /\ slot \in GlobalSlots(n)
      /\ slot.key = s /\ slot.association = n /\ slot # Nil
      /\ \A t \in Symbols : t \in DOMAIN Hash
  BY <1>1, <1>3, GlobalSlotsAreSlots DEF Slot, GlobalSlots, AreSlots
<1>5. Good(globals, GlobalSlots(n))
  <2>1. 1..Len(associations) \subseteq 1..n
    BY <1>2
  <2>2. GlobalSlots(Len(associations)) \subseteq GlobalSlots(n)
    BY <2>1 DEF GlobalSlots
  <2> QED BY <2>2, GoodForMore DEF Typed
<1> HIDE DEF n, slot
<1>6. Writes(slot, s, GlobalSlots(n))
  BY <1>4 DEF Writes
<1>7. /\ SlotAt(globals', s) = slot
      /\ \A t \in Symbols : t # s => SlotAt(globals', t) = SlotAt(globals, t)
  BY <1>1, <1>4, <1>5, <1>6, PutAnswers
<1>8. Good(globals', GlobalSlots(n))
  BY <1>1, <1>4, <1>5, <1>6, PutTable
<1>9. associationAtOrNil(s)' = n
  BY <1>4, <1>7 DEF associationAtOrNil
<1>10. \A t \in Symbols : t # s => associationAtOrNil(t)' = associationAtOrNil(t)
  BY <1>7 DEF associationAtOrNil
<1> QED BY <1>1, <1>3, <1>8, <1>9, <1>10 DEF n

----------------------------------------------------------------------------
(***************************************************************************)
(* The types.                                                              *)
(***************************************************************************)
LEMMA SetValueTyped ==
  ASSUME Typed, NEW a \in DOMAIN associations, NEW value \in Values, SetValue(a, value)
  PROVE  /\ Good(globals', GlobalSlots(Len(associations')))
         /\ associations' \in Seq(AssociationRecords) /\ Len(associations') <= MaxAssociations
         /\ DOMAIN associations \subseteq DOMAIN associations'
<1>1. /\ associations' \in Seq(AssociationRecords) /\ Len(associations') = Len(associations)
      /\ DOMAIN associations' = DOMAIN associations /\ globals' = globals
  BY SetValueStep
<1> QED BY <1>1 DEF Typed

\* An assignment changes what one symbol was assigned.
LEMMA AssignedTyped ==
  ASSUME Typed, NEW s \in Symbols, NEW value \in Values, assigned' = [assigned EXCEPT ![s] = value]
  PROVE  /\ assigned' \in [Symbols -> Values \cup {Nil}]
         /\ assigned'[s] = value
         /\ \A t \in Symbols : t # s => assigned'[t] = assigned[t]
BY DEF Typed

\* Every step preserves the types.
LEMMA NextTyped == Typed /\ [Next]_vars => Typed'
<1> SUFFICES ASSUME Typed, [Next]_vars PROVE Typed'
  OBVIOUS
<1>1. CASE Start
  BY <1>1 DEF Start, Typed
<1>2. ASSUME NEW s \in Symbols, lookSymbol(s) PROVE Typed'
  <2>1. associationAtOrNil(s) \in DOMAIN associations
    BY <1>2, AssociationIsOne DEF lookSymbol
  <2> QED BY <1>2, <2>1 DEF lookSymbol, Typed
<1>3. ASSUME NEW s \in Symbols, NEW v \in Values, setGlobalVariable(s, v) PROVE Typed'
  <2> DEFINE a == associationAtOrNil(s)
  <2>1. assigned' = [assigned EXCEPT ![s] = v] /\ literals' = literals /\ started' = started
    BY <1>3 DEF setGlobalVariable
  <2>2. /\ a # Nil => a \in DOMAIN associations
        /\ (SetValue(a, v) /\ a # Nil) \/ putAssociation("GlobalVariable", s, v)
    BY <1>3, AssociationIsOne DEF setGlobalVariable
  <2> HIDE DEF a
  <2>3. CASE SetValue(a, v) /\ a # Nil
    BY <2>1, <2>2, <2>3, SetValueTyped, AssignedTyped DEF Typed
  <2>4. CASE putAssociation("GlobalVariable", s, v)
    BY <2>1, <2>4, PutStep, AssignedTyped DEF Typed
  <2> QED BY <2>2, <2>3, <2>4
<1>4. ASSUME NEW s \in Symbols, NEW v \in Values, atPut(s, v) PROVE Typed'
  <2> DEFINE a == associationAtOrNil(s)
  <2>1. assigned' = [assigned EXCEPT ![s] = v] /\ literals' = literals /\ started' = started
    BY <1>4 DEF atPut
  <2>2. /\ a # Nil => a \in DOMAIN associations
        /\ (SetValue(a, v) /\ a # Nil) \/ putAssociation("Association", s, v)
    BY <1>4, AssociationIsOne DEF atPut
  <2> HIDE DEF a
  <2>3. CASE SetValue(a, v) /\ a # Nil
    BY <2>1, <2>2, <2>3, SetValueTyped, AssignedTyped DEF Typed
  <2>4. CASE putAssociation("Association", s, v)
    BY <2>1, <2>4, PutStep, AssignedTyped DEF Typed
  <2> QED BY <2>2, <2>3, <2>4
<1>5. ASSUME NEW a \in literals, NEW v \in Values, storeLiteralVariable(a, v) PROVE Typed'
  <2>0. a \in DOMAIN associations /\ associations[a] \in AssociationRecords
    BY DEF Typed
  <2>1. a \in DOMAIN associations /\ associations[a].key \in Symbols
    BY <2>0 DEF AssociationRecords
  <2>2. /\ assigned' = [assigned EXCEPT ![associations[a].key] = v] /\ SetValue(a, v)
        /\ literals' = literals /\ started' = started
    BY <1>5 DEF storeLiteralVariable
  <2> QED BY <2>1, <2>2, SetValueTyped, AssignedTyped DEF Typed
<1>6. CASE UNCHANGED vars
  BY <1>6 DEF vars, Typed
<1> QED BY <1>1, <1>2, <1>3, <1>4, <1>5, <1>6 DEF Next

\* The types are right in all states.
LEMMA AlwaysTyped == Spec => []Typed
BY InitTyped, NextTyped, PTL DEF Spec

\* The fields keep their types.
THEOREM GlobalsHaveTheirTypes == Spec => []TypeOK
<1>1. Typed => TypeOK
  <2> SUFFICES ASSUME Typed PROVE TypeOK
    OBVIOUS
  <2>1. DOMAIN associations = 1..Len(associations)
    BY DEF Typed
  <2>2. IsTable(globals, GlobalSlots(Len(associations)))
    BY GoodTableHasRoom DEF Typed
  <2> QED BY <2>1, <2>2 DEF Typed, TypeOK, GlobalSlots, AssociationRecords
<1> QED BY <1>1, AlwaysTyped, PTL

----------------------------------------------------------------------------
(***************************************************************************)
(* One value for a global.                                                 *)
(***************************************************************************)
\* The association of a symbol has what the symbol was assigned last, and it is
\* the one that the compiled methods refer to. Start-up makes global variables.
Agreed ==
  /\ ~started => /\ literals = {}
                 /\ \A a \in DOMAIN associations : associations[a].class = "GlobalVariable"
  /\ \A s \in Symbols :
       IF assigned[s] = Nil THEN associationAtOrNil(s) = Nil
       ELSE /\ associationAtOrNil(s) # Nil
            /\ associations[associationAtOrNil(s)].key = s
            /\ associations[associationAtOrNil(s)].value = assigned[s]
  /\ \A a \in literals : associationAtOrNil(associations[a].key) = a

\* The assignments without LateGlobals: a symbol that has an association keeps it.
Assigns(s, v, class) ==
  /\ \/ associationAtOrNil(s) # Nil /\ SetValue(associationAtOrNil(s), v)
     \/ associationAtOrNil(s) = Nil /\ putAssociation(class, s, v)
  /\ assigned' = [assigned EXCEPT ![s] = v]
  /\ UNCHANGED <<literals, started>>

\* Without late globals, every step starts, looks up, or assigns to what start-up
\* allows.
LEMMA AllAssignmentsAgree ==
  ASSUME ~LateGlobals, Typed, Agreed, Next
  PROVE  \/ Start
         \/ \E s \in Symbols : lookSymbol(s)
         \/ \E s \in Symbols, v \in Values : Assigns(s, v, "GlobalVariable")
         \/ started /\ \E s \in Symbols, v \in Values : Assigns(s, v, "Association")
<1>1. ASSUME NEW s \in Symbols, NEW v \in Values, setGlobalVariable(s, v)
      PROVE  Assigns(s, v, "GlobalVariable")
  <2>1. ~started
    BY <1>1 DEF setGlobalVariable
  <2>2. associationAtOrNil(s) # Nil => associations[associationAtOrNil(s)].class = "GlobalVariable"
    BY <2>1, AssociationIsOne DEF Agreed
  <2> QED BY <1>1, <2>2 DEF setGlobalVariable, Assigns
<1>2. ASSUME NEW s \in Symbols, NEW v \in Values, atPut(s, v)
      PROVE  started /\ Assigns(s, v, "Association")
  BY <1>2 DEF atPut, Assigns
<1>3. ASSUME NEW a \in literals, NEW v \in Values, storeLiteralVariable(a, v)
      PROVE  /\ started /\ associations[a].key \in Symbols
             /\ Assigns(associations[a].key, v, "Association")
  <2>1. started
    BY DEF Agreed, Typed
  <2>2. a \in DOMAIN associations /\ associations[a] \in AssociationRecords
    BY DEF Typed
  <2>3. associations[a].key \in Symbols /\ associationAtOrNil(associations[a].key) = a
    BY <2>2 DEF Agreed, AssociationRecords
  <2>4. a # Nil
    <3>1. Len(associations) \in Nat /\ DOMAIN associations = 1..Len(associations)
      BY DEF Typed
    <3>2. Nil \notin 1..Len(associations)
      BY <3>1, GlobalSlotsAreSlots DEF Typed
    <3> QED BY <2>2, <3>1, <3>2
  <2> QED BY <1>3, <2>1, <2>3, <2>4 DEF storeLiteralVariable, Assigns
<1> QED BY <1>1, <1>2, <1>3 DEF Next

\* What an assignment does to the associations of the symbols.
LEMMA AssignmentStep ==
  ASSUME Typed, Agreed, NEW s \in Symbols, NEW v \in Values,
         NEW class \in {"GlobalVariable", "Association"}, Assigns(s, v, class)
  PROVE  /\ associationAtOrNil(s)' \in DOMAIN associations' /\ associationAtOrNil(s)' # Nil
         /\ associations'[associationAtOrNil(s)'].key = s
         /\ associations'[associationAtOrNil(s)'].value = v
         /\ associationAtOrNil(s) # Nil => associationAtOrNil(s)' = associationAtOrNil(s)
         /\ \A t \in Symbols : t # s => associationAtOrNil(t)' = associationAtOrNil(t)
         /\ \A a \in DOMAIN associations :
              /\ a \in DOMAIN associations' /\ associations'[a].key = associations[a].key
              /\ associations[a].key # s => associations'[a] = associations[a]
         /\ \A a \in DOMAIN associations' :
              associations'[a].class = class \/ (/\ a \in DOMAIN associations
                                                 /\ associations'[a].class = associations[a].class)
<1>1. CASE associationAtOrNil(s) # Nil /\ SetValue(associationAtOrNil(s), v)
  <2> DEFINE a == associationAtOrNil(s)
  <2>1. a \in DOMAIN associations /\ a # Nil
    BY <1>1, AssociationIsOne
  <2>2. associations[a].key = s
    BY <2>1 DEF Agreed
  <2>3. SetValue(a, v)
    BY <1>1
  <2>4. \A t \in Symbols : associationAtOrNil(t)' = associationAtOrNil(t)
    BY <2>3 DEF SetValue, associationAtOrNil
  <2>5. a' = a
    BY <2>4
  <2> HIDE DEF a
  <2>6. /\ DOMAIN associations' = DOMAIN associations /\ associations'[a].value = v
        /\ \A b \in DOMAIN associations :
             /\ associations'[b].key = associations[b].key
             /\ associations'[b].class = associations[b].class
             /\ b # a => associations'[b] = associations[b]
    BY <2>1, <2>3, SetValueStep
  <2>7. /\ a' \in DOMAIN associations' /\ a' # Nil
        /\ associations'[a'].key = s /\ associations'[a'].value = v
    BY <2>1, <2>2, <2>5, <2>6
  <2>8. \A b \in DOMAIN associations : associations[b].key # s => b # a
    BY <2>2
  <2> QED BY <2>4, <2>5, <2>6, <2>7, <2>8 DEF a
<1>2. CASE associationAtOrNil(s) = Nil /\ putAssociation(class, s, v)
  <2> DEFINE n == Len(associations')
  <2>1. /\ associations' \in Seq(AssociationRecords) /\ n = Len(associations) + 1
        /\ DOMAIN associations \subseteq DOMAIN associations' /\ n <= MaxAssociations
        /\ \A a \in DOMAIN associations : associations'[a] = associations[a]
        /\ associationAtOrNil(s)' = n /\ n \in DOMAIN associations'
        /\ associations'[n] = [class |-> class, key |-> s, value |-> v]
        /\ \A t \in Symbols : t # s => associationAtOrNil(t)' = associationAtOrNil(t)
    BY <1>2, PutStep
  <2>2. \A a \in DOMAIN associations' : a = n \/ a \in DOMAIN associations
    BY <2>1 DEF Typed
  <2>3. DOMAIN associations' = 1..n /\ n \in Nat
    BY <2>1
  <2> HIDE DEF n
  <2>4. n # Nil
    BY <2>1, <2>3, GlobalSlotsAreSlots
  <2>5. /\ associations'[n].key = s /\ associations'[n].value = v /\ associations'[n].class = class
    BY <2>1
  <2> QED BY <1>2, <2>1, <2>2, <2>4, <2>5
<1> QED BY <1>1, <1>2 DEF Assigns

\* Such an assignment leaves one value for each global.
LEMMA AssignmentAgrees ==
  ASSUME Typed, Agreed, NEW s \in Symbols, NEW v \in Values,
         NEW class \in {"GlobalVariable", "Association"}, Assigns(s, v, class),
         class = "GlobalVariable" \/ started
  PROVE  Agreed'
<1>1. assigned' = [assigned EXCEPT ![s] = v] /\ literals' = literals /\ started' = started
  BY DEF Assigns
<1>2. v # Nil /\ assigned'[s] = v /\ \A t \in Symbols : t # s => assigned'[t] = assigned[t]
  BY <1>1, AssignedTyped, GlobalsAssumption
<1>3. ~started' => /\ literals' = {}
                   /\ \A a \in DOMAIN associations' : associations'[a].class = "GlobalVariable"
  BY <1>1, AssignmentStep DEF Agreed
<1>4. ASSUME NEW t \in Symbols
      PROVE  IF assigned'[t] = Nil THEN associationAtOrNil(t)' = Nil
             ELSE /\ associationAtOrNil(t)' # Nil
                  /\ associations'[associationAtOrNil(t)'].key = t
                  /\ associations'[associationAtOrNil(t)'].value = assigned'[t]
  <2>1. CASE t = s
    BY <1>2, <2>1, AssignmentStep
  <2>2. CASE t # s
    <3>1. associationAtOrNil(t)' = associationAtOrNil(t) /\ assigned'[t] = assigned[t]
      BY <1>2, <2>2, AssignmentStep
    <3>2. CASE assigned[t] = Nil
      BY <3>1, <3>2 DEF Agreed
    <3>3. CASE assigned[t] # Nil
      <4> DEFINE a == associationAtOrNil(t)
      <4>1. a # Nil /\ associations[a].key = t /\ associations[a].value = assigned[t]
        BY <3>3 DEF Agreed
      <4>2. a \in DOMAIN associations
        BY <4>1, AssociationIsOne
      <4>3. associations'[a] = associations[a]
        BY <2>2, <4>1, <4>2, AssignmentStep
      <4> HIDE DEF a
      <4>4. associationAtOrNil(t)' = a
        BY <3>1 DEF a
      <4> QED BY <3>1, <3>3, <4>1, <4>3, <4>4
    <3> QED BY <3>2, <3>3
  <2> QED BY <2>1, <2>2
<1>5. ASSUME NEW a \in literals
      PROVE  associationAtOrNil(associations[a].key)' = a
  <2>1. a \in DOMAIN associations /\ associations[a] \in AssociationRecords
    BY DEF Typed
  <2>2. PICK t \in Symbols : t = associations[a].key
    BY <2>1 DEF AssociationRecords
  <2>3. associationAtOrNil(t) = a /\ associations'[a].key = t
    BY <2>1, <2>2, AssignmentStep DEF Agreed
  <2>4. a # Nil
    <3>1. Len(associations) \in Nat /\ DOMAIN associations = 1..Len(associations)
      BY DEF Typed
    <3>2. Nil \notin 1..Len(associations)
      BY <3>1, GlobalSlotsAreSlots DEF Typed
    <3> QED BY <2>1, <3>1, <3>2
  <2>5. associationAtOrNil(t)' = a
    BY <2>3, <2>4, AssignmentStep
  <2> QED BY <2>3, <2>5
<1>6. \A a \in literals' : associationAtOrNil(associations[a].key)' = a
  BY <1>1, <1>5
<1>7. \A t \in Symbols :
        IF assigned'[t] = Nil THEN associationAtOrNil(t)' = Nil
        ELSE /\ associationAtOrNil(t)' # Nil
             /\ associations'[associationAtOrNil(t)'].key = t
             /\ associations'[associationAtOrNil(t)'].value = assigned'[t]
  BY <1>4
<1> QED BY <1>3, <1>6, <1>7 DEF Agreed

\* The inductive step of the agreement, and that a symbol keeps its association.
LEMMA StepAgrees ==
  ASSUME ~LateGlobals, Typed, Agreed, [Next]_vars
  PROVE  /\ Agreed'
         /\ \A s \in Symbols : associationAtOrNil(s) # Nil
              => associationAtOrNil(s)' = associationAtOrNil(s)
<1>1. CASE Start
  BY <1>1 DEF Start, Agreed, associationAtOrNil
<1>2. ASSUME NEW s \in Symbols, lookSymbol(s)
      PROVE  /\ Agreed'
             /\ \A t \in Symbols : associationAtOrNil(t)' = associationAtOrNil(t)
  <2>1. /\ started /\ literals' = literals \cup {associationAtOrNil(s)}
        /\ UNCHANGED <<globals, associations, started, assigned>>
        /\ associationAtOrNil(s) # Nil
    BY <1>2 DEF lookSymbol
  <2>2. \A t : associationAtOrNil(t)' = associationAtOrNil(t)
    BY <2>1 DEF associationAtOrNil
  <2>3. associations[associationAtOrNil(s)].key = s
    BY <2>1 DEF Agreed
  <2>4. \A a \in literals' : associationAtOrNil(associations[a].key) = a
    BY <2>1, <2>3 DEF Agreed
  <2> QED BY <2>1, <2>2, <2>4 DEF Agreed
<1>3. ASSUME NEW s \in Symbols, NEW v \in Values, NEW class \in {"GlobalVariable", "Association"},
             class = "GlobalVariable" \/ started, Assigns(s, v, class)
      PROVE  /\ Agreed'
             /\ \A t \in Symbols : associationAtOrNil(t) # Nil
                  => associationAtOrNil(t)' = associationAtOrNil(t)
  BY <1>3, AssignmentStep, AssignmentAgrees
<1>4. CASE UNCHANGED vars
  BY <1>4 DEF vars, Agreed, associationAtOrNil
<1>5. CASE Next
  <2>1. \/ Start
        \/ \E s \in Symbols : lookSymbol(s)
        \/ \E s \in Symbols, v \in Values : Assigns(s, v, "GlobalVariable")
        \/ started /\ \E s \in Symbols, v \in Values : Assigns(s, v, "Association")
    BY <1>5, AllAssignmentsAgree
  <2> QED BY <1>1, <1>2, <1>3, <2>1
<1> QED BY <1>4, <1>5

\* At first nothing is assigned.
LEMMA InitAgrees == Init => Agreed
<1> SUFFICES ASSUME Init PROVE Agreed
  OBVIOUS
<1>1. \A s \in Symbols : s \in DOMAIN Hash
  BY GlobalsAssumption
<1>2. AreSlots(GlobalSlots(0))
  BY GlobalSlotsAreSlots, GlobalsAssumption
<1>3. \A s \in Symbols : associationAtOrNil(s) = Nil
  BY <1>1, <1>2, EmptyTableAnswersNil DEF Init, associationAtOrNil
<1> QED BY <1>3 DEF Init, Agreed

\* Without late globals there is one value for each global in all states.
LEMMA AlwaysAgreed ==
  ASSUME ~LateGlobals
  PROVE  Spec => [](Typed /\ Agreed)
<1>1. Init => Typed /\ Agreed
  BY InitTyped, InitAgrees
<1>2. (Typed /\ Agreed) /\ [Next]_vars => (Typed /\ Agreed)'
  BY NextTyped, StepAgrees
<1> QED BY <1>1, <1>2, PTL DEF Spec

\* When the embedding program sets globals at start-up only, the dictionary, the
\* compiled methods and what was assigned last agree on the value of a global.
THEOREM GlobalsHaveOneValue ==
  ASSUME ~LateGlobals
  PROVE  Spec => []OneValuePerGlobal
<1>1. Typed /\ Agreed => OneValuePerGlobal
  <2> SUFFICES ASSUME Typed, Agreed PROVE OneValuePerGlobal
    OBVIOUS
  <2>1. ASSUME NEW a \in literals PROVE associations[a].value = assigned[associations[a].key]
    <3>1. a \in DOMAIN associations /\ associations[a] \in AssociationRecords
      BY DEF Typed
    <3>2. associations[a].key \in Symbols /\ associationAtOrNil(associations[a].key) = a
      BY <3>1 DEF Agreed, AssociationRecords
    <3>3. a # Nil
      <4>1. Len(associations) \in Nat /\ DOMAIN associations = 1..Len(associations)
        BY DEF Typed
      <4>2. Nil \notin 1..Len(associations)
        BY <4>1, GlobalSlotsAreSlots DEF Typed
      <4> QED BY <3>1, <4>1, <4>2
    <3> QED BY <3>2, <3>3 DEF Agreed
  <2> QED BY <2>1 DEF Agreed, OneValuePerGlobal
<1> QED BY <1>1, AlwaysAgreed, PTL

\* With the same condition a symbol never gets another association than the one
\* it has, so that the methods compiled with it go on seeing the global.
THEOREM SymbolsKeepTheirAssociation ==
  ASSUME ~LateGlobals
  PROVE  Spec => AssociationsStay
<1>1. (Typed /\ Agreed) /\ [Next]_vars
        => [\A s \in Symbols : associationAtOrNil(s) # Nil
              => associationAtOrNil(s)' = associationAtOrNil(s)]_vars
  BY StepAgrees
<1> QED BY <1>1, AlwaysAgreed, PTL DEF Spec, AssociationsStay
=============================================================================
