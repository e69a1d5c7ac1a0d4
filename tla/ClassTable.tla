----------------------------- MODULE ClassTable -----------------------------
(***************************************************************************)
(* ClassTable of vm/MemoryManager.cpp: the class of an object is found     *)
(* with the class index in its header, which is the identityHash its class *)
(* had when the object was created.  Threads register classes and look     *)
(* them up; a SharedMutex keeps them apart.                                *)
(***************************************************************************)
EXTENDS SharedMutex, Sequences

CONSTANTS
  Classes,         \* the classes and metaclasses
  SpecialClasses,  \* those the table has from the beginning, in order
  OopsPerPage,
  MaxSize,         \* bound on the classes registered
  Nil

ASSUME TableAssumption ==
  /\ OopsPerPage \in Nat \ {0} /\ MaxSize \in Nat
  /\ SpecialClasses \in Seq(Classes) /\ SpecialClasses # << >>
  /\ \A i, j \in DOMAIN SpecialClasses : i # j => SpecialClasses[i] # SpecialClasses[j]
  /\ Nil \notin Classes

VARIABLES
  pageTable,      \* the pages, each with OopsPerPage entries
  size,
  identityHash,   \* class -> the index in its header
  call,           \* what each thread is doing with the table
  answer          \* what the last lookup of each thread has answered

tableVars == <<pageTable, size, identityHash, call, answer>>
vars      == <<mutexVars, tableVars>>

(***************************************************************************)
(* A thread is out of the table; or it has called getClassFromIndex for an *)
(* object of a class, with the index in the header of the object; or it    *)
(* has called registerClass.  It is at a line of the function.             *)
(***************************************************************************)
Out               == [name |-> "none", class |-> Nil, index |-> 0, at |-> "out"]
Lookup(c, i, at)  == [name |-> "getClassFromIndex", class |-> c, index |-> i, at |-> at]
Register(c, at)   == [name |-> "registerClass", class |-> c, index |-> 0, at |-> at]

Go(t, at) == call' = [call EXCEPT ![t].at = at]

pageIndex(i)    == (i \div OopsPerPage) + 1
elementIndex(i) == i % OopsPerPage

Entry(i) == pageTable[pageIndex(i)][elementIndex(i)]

NewPage == [i \in 0..(OopsPerPage - 1) |-> Nil]

----------------------------------------------------------------------------
\* addSpecialClass has been called for each special class, before any thread
\* is started.
Init ==
  /\ MutexInit
  /\ size = Len(SpecialClasses)
  /\ pageTable = [p \in 1..pageIndex(size - 1) |->
                    [i \in 0..(OopsPerPage - 1) |->
                       LET n == (p - 1) * OopsPerPage + i + 1
                       IN IF n <= size THEN SpecialClasses[n] ELSE Nil]]
  /\ identityHash = [c \in {SpecialClasses[i] : i \in DOMAIN SpecialClasses} |->
                       (CHOOSE i \in DOMAIN SpecialClasses : SpecialClasses[i] = c) - 1]
  /\ call = [t \in Threads |-> Out]
  /\ answer = [t \in Threads |-> [class |-> Nil, found |-> Nil]]

----------------------------------------------------------------------------
(***************************************************************************)
(* getClassFromIndex.                                                      *)
(***************************************************************************)
\* The thread has an object of the class c: the object is created, without a
\* lock, with the identityHash of c, and asked for its class.
CallLookup(t, c) ==
  /\ call[t] = Out
  /\ c \in DOMAIN identityHash
  /\ call' = [call EXCEPT ![t] = Lookup(c, identityHash[c], "lock")]
  /\ UNCHANGED <<pageTable, size, identityHash, answer, mutexVars>>

LockToRead(t) ==
  /\ call[t].name = "getClassFromIndex" /\ call[t].at = "lock"
  /\ read_lock(t)
  /\ IF holds'[t] = "read" THEN Go(t, "check") ELSE UNCHANGED call
  /\ UNCHANGED <<pageTable, size, identityHash, answer>>

Answer(t, found) == answer' = [answer EXCEPT ![t] = [class |-> call[t].class, found |-> found]]

CheckIndex(t) ==
  /\ call[t].at = "check"
  /\ IF call[t].index >= size THEN Answer(t, Nil) /\ Go(t, "unlock")
                              ELSE Go(t, "read") /\ UNCHANGED answer
  /\ UNCHANGED <<pageTable, size, identityHash, mutexVars>>

ReadEntry(t) ==
  /\ call[t].at = "read"
  /\ Answer(t, Entry(call[t].index))
  /\ Go(t, "unlock")
  /\ UNCHANGED <<pageTable, size, identityHash, mutexVars>>

----------------------------------------------------------------------------
(***************************************************************************)
(* registerClass, of a new class or of one that is registered already.     *)
(***************************************************************************)
CallRegister(t, c) ==
  /\ call[t] = Out
  /\ Cardinality({u \in Threads : call[u].name = "registerClass"}) + size < MaxSize
  /\ call' = [call EXCEPT ![t] = Register(c, "lock")]
  /\ UNCHANGED <<pageTable, size, identityHash, answer, mutexVars>>

LockToWrite(t) ==
  /\ call[t].name = "registerClass" /\ call[t].at = "lock"
  /\ write_lock(t)
  /\ IF holds'[t] = "write" THEN Go(t, "store") ELSE UNCHANGED call
  /\ UNCHANGED <<pageTable, size, identityHash, answer>>

\* Faulty variant: the page is not allocated.
StoreWithoutAllocate(t) ==
  /\ call[t].at = "store"
  /\ pageTable' = [q \in DOMAIN pageTable |->
                     IF q = pageIndex(size) THEN [pageTable[q] EXCEPT ![elementIndex(size)] = call[t].class]
                                            ELSE pageTable[q]]
  /\ Go(t, "hash")
  /\ UNCHANGED <<size, identityHash, answer, mutexVars>>

StoreEntry(t) ==
  /\ call[t].at = "store"
  /\ LET p     == pageIndex(size)
         pages == IF elementIndex(size) = 0 /\ p = Len(pageTable) + 1
                  THEN Append(pageTable, NewPage) ELSE pageTable
     IN pageTable' = [pages EXCEPT ![p][elementIndex(size)] = call[t].class]
  /\ Go(t, "hash")
  /\ UNCHANGED <<size, identityHash, answer, mutexVars>>

SetHash(t) ==
  /\ call[t].at = "hash"
  /\ identityHash' = [c \in DOMAIN identityHash \cup {call[t].class} |->
                        IF c = call[t].class THEN size ELSE identityHash[c]]
  /\ Go(t, "grow")
  /\ UNCHANGED <<pageTable, size, answer, mutexVars>>

Grow(t) ==
  /\ call[t].at = "grow"
  /\ size' = size + 1
  /\ Go(t, "unlock")
  /\ UNCHANGED <<pageTable, identityHash, answer, mutexVars>>

\* The destructor of ReadLock or WriteLock.
Unlock(t) ==
  /\ call[t].at = "unlock"
  /\ IF call[t].name = "registerClass" THEN write_unlock(t) ELSE read_unlock(t)
  /\ call' = [call EXCEPT ![t] = Out]
  /\ UNCHANGED <<pageTable, size, identityHash, answer>>

----------------------------------------------------------------------------
ThreadStep(t) ==
  \/ \E c \in Classes : CallLookup(t, c) \/ CallRegister(t, c)
  \/ LockToRead(t) \/ CheckIndex(t) \/ ReadEntry(t)
  \/ LockToWrite(t) \/ StoreEntry(t) \/ SetHash(t) \/ Grow(t)
  \/ Unlock(t)
  \/ SpuriousWakeup(t) /\ UNCHANGED tableVars

Next == ~failed /\ \E t \in Threads : ThreadStep(t)

Spec == Init /\ [][Next]_vars

----------------------------------------------------------------------------
(***************************************************************************)
(* Properties.                                                             *)
(***************************************************************************)

\* The fields of SharedMutex and ClassTable have their types, and there are as
\* many pages as the entries of the table need.
TypeOK ==
  /\ MutexType
  /\ pageTable \in Seq([0..(OopsPerPage - 1) -> Classes \cup {Nil}])
  /\ size \in Nat
  /\ DOMAIN identityHash \subseteq Classes
  /\ \A c \in DOMAIN identityHash : identityHash[c] \in Nat
  /\ \A i \in 0..(size - 1) : pageIndex(i) <= Len(pageTable)

\* The index in the header of an object names the class of the object: the
\* lookup never misses it and never answers another class, even when the object
\* was created in the middle of the registration of its class.
InstancesKnowTheirClass ==
  \A t \in Threads : answer[t].found = answer[t].class
=============================================================================
