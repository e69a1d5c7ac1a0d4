-------------------------- MODULE GlobalDictionary --------------------------
(***************************************************************************)
(* The global variables: the SystemDictionary of the image, written by the *)
(* program that embeds the machine (VMContext::setGlobalVariable in        *)
(* vm/ObjectModel.cpp) and by Smalltalk code (at:put: in                   *)
(* runtime/kernel/Bootstrap.lodtalk).  A compiled method refers to a       *)
(* global by its association, which is one of its literals.                *)
(***************************************************************************)
EXTENDS HashedCollection, Sequences

CONSTANTS
  Symbols,
  Values,
  LateGlobals,       \* the embedding program sets globals after start-up, too
  MaxAssociations    \* bound on the associations created

ASSUME GlobalsAssumption ==
  /\ LateGlobals \in BOOLEAN /\ MaxAssociations \in Nat
  /\ Symbols \subseteq DOMAIN Hash
  /\ Nil \notin Values /\ Nil \notin 1..MaxAssociations
  /\ Nil \notin [key : Symbols, association : 1..MaxAssociations]

VARIABLES
  globals,        \* the table
  associations,   \* the associations in the order they were created
  literals,       \* the associations compiled methods refer to
  started,        \* the native classes are defined, Smalltalk code runs
  assigned        \* what each symbol was assigned last, or Nil

vars == <<globals, associations, literals, started, assigned>>

\* A slot holds an association, the key of which never changes.
Slot(symbol, a) == [key |-> symbol, association |-> a]

associationAtOrNil(symbol) ==
  LET slot == SlotAt(globals, symbol) IN IF slot = Nil THEN Nil ELSE slot.association

Init ==
  /\ globals = EmptyTable(0) /\ associations = << >>
  /\ literals = {}
  /\ started = FALSE
  /\ assigned = [s \in Symbols |-> Nil]

SetValue(a, value) ==
  /\ associations' = [associations EXCEPT ![a].value = value]
  /\ UNCHANGED globals

\* A new association is put into the dictionary; it takes the slot of another
\* association with its key.
putAssociation(class, symbol, value) ==
  LET new == Len(associations) + 1
  IN /\ new <= MaxAssociations
     /\ associations' = Append(associations, [class |-> class, key |-> symbol, value |-> value])
     /\ globals' = PutAt(globals, symbol, Slot(symbol, new))

setGlobalVariable(symbol, value) ==
  /\ ~started \/ LateGlobals
  /\ LET a == associationAtOrNil(symbol)
     IN IF a # Nil /\ associations[a].class = "GlobalVariable"
        THEN SetValue(a, value) ELSE putAssociation("GlobalVariable", symbol, value)
  /\ assigned' = [assigned EXCEPT ![symbol] = value]
  /\ UNCHANGED <<literals, started>>

\* Start-up is over.
Start ==
  /\ ~started /\ started' = TRUE
  /\ UNCHANGED <<globals, associations, literals, assigned>>

\* Faulty variant: the association is always a new one.
AtPutNew(symbol, value) ==
  /\ started
  /\ putAssociation("Association", symbol, value)
  /\ assigned' = [assigned EXCEPT ![symbol] = value]
  /\ UNCHANGED <<literals, started>>

\* Smalltalk at: symbol put: value.
atPut(symbol, value) ==
  /\ started
  /\ LET a == associationAtOrNil(symbol)
     IN IF a # Nil THEN SetValue(a, value) ELSE putAssociation("Association", symbol, value)
  /\ assigned' = [assigned EXCEPT ![symbol] = value]
  /\ UNCHANGED <<literals, started>>

\* Faulty variant: a symbol that is no global gets a literal, too.
LookSymbolUnchecked(symbol) ==
  /\ started
  /\ literals' = literals \cup {associationAtOrNil(symbol)}
  /\ UNCHANGED <<globals, associations, started, assigned>>

\* A method that refers to the symbol is compiled.
lookSymbol(symbol) ==
  /\ started
  /\ associationAtOrNil(symbol) # Nil
  /\ literals' = literals \cup {associationAtOrNil(symbol)}
  /\ UNCHANGED <<globals, associations, started, assigned>>

\* A compiled method assigns the global.
storeLiteralVariable(a, value) ==
  /\ a \in literals
  /\ SetValue(a, value)
  /\ assigned' = [assigned EXCEPT ![associations[a].key] = value]
  /\ UNCHANGED <<literals, started>>

Next ==
  \/ Start
  \/ \E s \in Symbols : lookSymbol(s)
  \/ \E s \in Symbols, v \in Values : setGlobalVariable(s, v) \/ atPut(s, v)
  \/ \E a \in literals, v \in Values : storeLiteralVariable(a, v)

Spec == Init /\ [][Next]_vars

----------------------------------------------------------------------------
(***************************************************************************)
(* Properties.                                                             *)
(***************************************************************************)

\* The fields have their types.
TypeOK ==
  /\ IsTable(globals, [key : Symbols, association : DOMAIN associations])
  /\ associations \in Seq([class : {"GlobalVariable", "Association"}, key : Symbols, value : Values])
  /\ literals \subseteq DOMAIN associations
  /\ started \in BOOLEAN
  /\ assigned \in [Symbols -> Values \cup {Nil}]

\* A global has one value: what was assigned last is what the dictionary answers
\* and what every compiled method that refers to the global reads, whoever has
\* assigned it and however the dictionary has grown since.
OneValuePerGlobal ==
  /\ \A s \in Symbols :
       IF assigned[s] = Nil THEN associationAtOrNil(s) = Nil
       ELSE associationAtOrNil(s) # Nil /\ associations[associationAtOrNil(s)].value = assigned[s]
  /\ \A a \in literals : associations[a].value = assigned[associations[a].key]

\* setGlobalVariable sets the value of a global that exists, as its comment says:
\* a symbol never gets another association than the one it has.
AssociationsStay ==
  [][\A s \in Symbols : associationAtOrNil(s) # Nil
        => associationAtOrNil(s)' = associationAtOrNil(s)]_vars
=============================================================================
