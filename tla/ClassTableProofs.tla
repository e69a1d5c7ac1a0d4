-------------------------- MODULE ClassTableProofs --------------------------
(***************************************************************************)
(* Proofs about ClassTable, for any number of threads, classes and entries *)
(* per page: as long as the assertions of SharedMutex hold, the lock is    *)
(* exclusive, no reader sleeps for ever, and an object always finds its    *)
(* class.                                                                  *)
(***************************************************************************)
EXTENDS ClassTable, FiniteSetTheorems, TLAPS

----------------------------------------------------------------------------
(***************************************************************************)
(* The lock.                                                               *)
(***************************************************************************)
MutexInv == MutexType /\ Exclusive /\ NoLostWakeup

\* Finitely many threads read and write.
LEMMA FiniteThreads ==
  ASSUME MutexType
  PROVE  IsFiniteSet(Readers) /\ IsFiniteSet(Writers)
BY ThreadsAssumption, FS_Subset DEF Readers, Writers

\* There is one writer at most.
LEMMA OneWriter ==
  ASSUME MutexInv, NEW t \in Writers, NEW u \in Writers
  PROVE  t = u
<1>1. IsFiniteSet(Writers) BY FiniteThreads DEF MutexInv
<1>2. writeCount = Cardinality(Writers) /\ writeCount \in {0, 1}
  BY DEF MutexInv, MutexType, Exclusive
<1>3. CASE writeCount = 0
  BY <1>1, <1>2, <1>3, FS_EmptySet
<1>4. CASE writeCount = 1
  <2>1. \E x : Writers = {x} BY <1>1, <1>2, <1>4, FS_Singleton
  <2>2. QED BY <2>1
<1>5. QED BY <1>2, <1>3, <1>4

\* The mutex is free at first, and counts nobody.
LEMMA InitMutexInv == MutexInit => MutexInv
<1> SUFFICES ASSUME MutexInit PROVE MutexInv OBVIOUS
<1>1. Readers = {} /\ Writers = {} BY DEF MutexInit, Readers, Writers
<1>2. MutexType
  <2>1. readCount \in Int /\ writeCount \in {0, 1} BY DEF MutexInit
  <2>2. failed \in BOOLEAN BY DEF MutexInit
  <2>3. holds \in [Threads -> {"no", "read", "write"}] BY DEF MutexInit
  <2>4. noReadCondition \subseteq Threads /\ noReadWriteCondition \subseteq Threads
    BY DEF MutexInit
  <2>5. QED BY <2>1, <2>2, <2>3, <2>4 DEF MutexType
<1>3. Cardinality({}) = 0 BY FS_EmptySet
<1>4. Exclusive BY <1>1, <1>3 DEF MutexInit, Exclusive
<1>5. NoLostWakeup BY DEF MutexInit, NoLostWakeup
<1>6. QED BY <1>2, <1>4, <1>5 DEF MutexInv

\* An aborted program leaves the mutex as it is.
LEMMA AbortMutexInv == ASSUME MutexInv, Abort PROVE MutexInv'
BY DEF MutexInv, Abort, MutexType, Exclusive, NoLostWakeup, Readers, Writers

\* Locking for reading keeps the counts of the mutex.
LEMMA ReadLockMutexInv ==
  ASSUME MutexInv, NEW t \in Threads, holds[t] = "no", read_lock(t)
  PROVE  MutexInv'
<1>1. CASE writeCount # 0
  BY <1>1 DEF MutexInv, read_lock, MutexType, Exclusive, NoLostWakeup, Readers, Writers
<1>2. CASE writeCount = 0
  <2>1. readCount' = readCount + 1 /\ holds' = [holds EXCEPT ![t] = "read"]
        /\ UNCHANGED <<writeCount, noReadCondition, noReadWriteCondition, failed>>
    BY <1>2 DEF read_lock
  <2>2. Readers' = Readers \cup {t} /\ t \notin Readers /\ Writers' = Writers
    BY <2>1 DEF Readers, Writers, MutexInv, MutexType
  <2>3. Cardinality(Readers') = Cardinality(Readers) + 1
    BY <2>2, FiniteThreads, FS_AddElement DEF MutexInv
  <2>4. Writers = {}
    BY <1>2, FiniteThreads, FS_EmptySet DEF MutexInv, Exclusive
  <2>5. Exclusive'
    BY <2>1, <2>2, <2>3, <2>4 DEF MutexInv, Exclusive
  <2>6. MutexType' BY <2>1 DEF MutexInv, MutexType
  <2>7. NoLostWakeup' BY <2>1 DEF MutexInv, NoLostWakeup
  <2>8. QED BY <2>5, <2>6, <2>7 DEF MutexInv
<1>3. QED BY <1>1, <1>2

\* Unlocking a reader keeps the counts of the mutex, and ends what it holds.
LEMMA ReadUnlockMutexInv ==
  ASSUME MutexInv, NEW t \in Threads, holds[t] = "read", read_unlock(t)
  PROVE  MutexInv' /\ holds' = [holds EXCEPT ![t] = "no"]
<1>0. t \in Readers BY DEF Readers
<1>1. Writers = {} /\ writeCount = 0
  BY <1>0, FiniteThreads, FS_EmptySet DEF MutexInv, Exclusive
<1>2. Cardinality(Readers \ {t}) = Cardinality(Readers) - 1 /\ Cardinality(Readers) \in Nat
  BY <1>0, FiniteThreads, FS_RemoveElement, FS_CardinalityType DEF MutexInv
<1>3. readCount > 0
  <2>1. Cardinality(Readers) # 0 BY <1>0, FiniteThreads, FS_EmptySet DEF MutexInv
  <2>2. QED BY <2>1, <1>2 DEF MutexInv, Exclusive
<1>4. /\ readCount' = readCount - 1 /\ holds' = [holds EXCEPT ![t] = "no"]
      /\ UNCHANGED <<writeCount, noReadWriteCondition, failed>>
      /\ noReadCondition' \subseteq noReadCondition
  BY <1>1, <1>3 DEF read_unlock, AfterNotifyOne
<1>5. Readers' = Readers \ {t} /\ Writers' = Writers
  BY <1>4 DEF Readers, Writers, MutexInv, MutexType
<1>6. Exclusive' BY <1>1, <1>2, <1>4, <1>5 DEF MutexInv, Exclusive
<1>7. MutexType' BY <1>4 DEF MutexInv, MutexType
<1>8. NoLostWakeup' BY <1>4 DEF MutexInv, NoLostWakeup
<1>9. QED BY <1>4, <1>6, <1>7, <1>8 DEF MutexInv

\* Locking for writing keeps the counts of the mutex.
LEMMA WriteLockMutexInv ==
  ASSUME MutexInv, NEW t \in Threads, holds[t] = "no", write_lock(t)
  PROVE  MutexInv'
<1>1. CASE writeCount # 0 /\ readCount # 0
  BY <1>1 DEF MutexInv, write_lock, MutexType, Exclusive, NoLostWakeup, Readers, Writers
<1>2. CASE readCount = 0 /\ writeCount = 0
  <2>1. writeCount' = 1 /\ holds' = [holds EXCEPT ![t] = "write"]
        /\ UNCHANGED <<readCount, noReadCondition, noReadWriteCondition, failed>>
    BY <1>2 DEF write_lock
  <2>2. Readers = {} /\ Writers = {}
    BY <1>2, FiniteThreads, FS_EmptySet DEF MutexInv, Exclusive
  <2>3. Readers' = {} /\ Writers' = {t}
    BY <2>1, <2>2 DEF Readers, Writers, MutexInv, MutexType
  <2>4. Cardinality({t}) = 1 BY FS_Singleton
  <2>5. Exclusive' BY <1>2, <2>1, <2>3, <2>4, FS_EmptySet DEF Exclusive
  <2>6. MutexType' BY <2>1 DEF MutexInv, MutexType
  <2>7. NoLostWakeup' BY <2>1 DEF NoLostWakeup
  <2>8. QED BY <2>5, <2>6, <2>7 DEF MutexInv
<1>3. CASE ~(writeCount # 0 /\ readCount # 0) /\ ~(readCount = 0 /\ writeCount = 0)
  BY <1>3, AbortMutexInv DEF write_lock
<1>4. QED BY <1>1, <1>2, <1>3

\* Unlocking a writer keeps the counts of the mutex, and ends what it holds.
LEMMA WriteUnlockMutexInv ==
  ASSUME MutexInv, NEW t \in Threads, holds[t] = "write", write_unlock(t)
  PROVE  MutexInv' /\ holds' = [holds EXCEPT ![t] = "no"]
<1>0. t \in Writers BY DEF Writers
<1>1. Readers = {} /\ readCount = 0
  BY <1>0, FS_EmptySet DEF MutexInv, Exclusive
<1>2. writeCount = 1
  BY <1>0, FiniteThreads, FS_EmptySet DEF MutexInv, Exclusive, MutexType
<1>3. /\ writeCount' = 0 /\ holds' = [holds EXCEPT ![t] = "no"]
      /\ noReadWriteCondition' = {} /\ noReadCondition' \subseteq noReadCondition
      /\ UNCHANGED <<readCount, failed>>
  BY <1>1, <1>2 DEF write_unlock, AfterNotifyOne
<1>4. Readers' = {} /\ Writers' = {}
  <2>1. \A u \in Writers : u = t BY <1>0, OneWriter
  <2>2. QED BY <1>1, <1>3, <2>1 DEF Readers, Writers, MutexInv, MutexType
<1>5. Exclusive' BY <1>1, <1>3, <1>4, FS_EmptySet DEF Exclusive
<1>6. MutexType' BY <1>3 DEF MutexInv, MutexType
<1>7. NoLostWakeup' BY <1>3 DEF NoLostWakeup
<1>8. QED BY <1>3, <1>5, <1>6, <1>7 DEF MutexInv

----------------------------------------------------------------------------
(***************************************************************************)
(* The calls.  A thread that is in the table holds the lock it has asked   *)
(* for, and nothing else.                                                  *)
(***************************************************************************)
InTableToRead(t)  == call[t].at \in {"check", "read"}
InTableToWrite(t) == call[t].at \in {"store", "hash", "grow"}

CallRecords ==
  [name : {"none", "getClassFromIndex", "registerClass"}, class : Classes \cup {Nil},
   index : Nat, at : {"out", "lock", "check", "read", "store", "hash", "grow", "unlock"}]

CallType ==
  /\ call \in [Threads -> CallRecords]
  /\ answer \in [Threads -> [class : Classes \cup {Nil}, found : Classes \cup {Nil}]]
  /\ \A t \in Threads :
        /\ call[t].name # "none" => call[t].class \in Classes
        /\ call[t].name = "none" => call[t].at = "out"
        /\ InTableToRead(t) => call[t].name = "getClassFromIndex"
        /\ InTableToWrite(t) => call[t].name = "registerClass"

LocksHeld ==
  \A t \in Threads :
    /\ InTableToRead(t) => holds[t] = "read"
    /\ InTableToWrite(t) => holds[t] = "write"
    /\ call[t].at = "unlock" =>
          holds[t] = IF call[t].name = "registerClass" THEN "write" ELSE "read"
    /\ call[t].at \in {"out", "lock"} => holds[t] = "no"

(***************************************************************************)
(* The table: the index i names the class c when the entry is there, or    *)
(* when the table is about to grow to it.                                  *)
(***************************************************************************)
Growing(t, c) == call[t].at = "grow" /\ call[t].class = c

Names(i, c) ==
  \/ i < size /\ Entry(i) = c
  \/ i = size /\ \E t \in Threads : Growing(t, c)

PageType == [0..(OopsPerPage - 1) -> Classes \cup {Nil}]

TableType ==
  /\ pageTable \in Seq(PageType)
  /\ size \in Nat \ {0}
  /\ \A i \in 0..(size - 1) : pageIndex(i) <= Len(pageTable)
  /\ DOMAIN identityHash \subseteq Classes
  /\ \A c \in DOMAIN identityHash : identityHash[c] \in Nat

TableInv ==
  /\ \A c \in DOMAIN identityHash : Names(identityHash[c], c)
  /\ \A t \in Threads : call[t].name = "getClassFromIndex" => Names(call[t].index, call[t].class)
  /\ \A t \in Threads : call[t].at = "read" => call[t].index < size
  /\ \A t \in Threads : call[t].at \in {"hash", "grow"} =>
        pageIndex(size) <= Len(pageTable) /\ Entry(size) = call[t].class

IInv == MutexInv /\ CallType /\ LocksHeld /\ TableType /\ TableInv /\ InstancesKnowTheirClass

----------------------------------------------------------------------------
(***************************************************************************)
(* Pages and entries.                                                      *)
(***************************************************************************)
LEMMA DivMod ==
  ASSUME NEW n \in Nat
  PROVE  /\ n = OopsPerPage * (n \div OopsPerPage) + (n % OopsPerPage)
         /\ n \div OopsPerPage \in Nat
         /\ n % OopsPerPage \in 0..(OopsPerPage - 1)
BY TableAssumption, SMT

\* Another index names another entry.
LEMMA EntriesDiffer ==
  ASSUME NEW i \in Nat, NEW j \in Nat, pageIndex(i) = pageIndex(j), elementIndex(i) = elementIndex(j)
  PROVE  i = j
BY DivMod DEF pageIndex, elementIndex

\* The page and the element of an index lie within the table's pages.
LEMMA IndexType ==
  ASSUME NEW i \in Nat
  PROVE  pageIndex(i) \in Nat \ {0} /\ elementIndex(i) \in 0..(OopsPerPage - 1)
BY DivMod DEF pageIndex, elementIndex

\* The next index is on the same page, or it is the first one of the next page.
LEMMA NextIndex ==
  ASSUME NEW n \in Nat
  PROVE  \/ pageIndex(n + 1) = pageIndex(n)
         \/ pageIndex(n + 1) = pageIndex(n) + 1 /\ elementIndex(n + 1) = 0
<1> DEFINE a == n \div OopsPerPage        r == n % OopsPerPage
           b == (n + 1) \div OopsPerPage  s == (n + 1) % OopsPerPage
<1>1. /\ n = OopsPerPage * a + r /\ a \in Nat /\ r \in 0..(OopsPerPage - 1)
      /\ n + 1 = OopsPerPage * b + s /\ b \in Nat /\ s \in 0..(OopsPerPage - 1)
  <2>1. n + 1 \in Nat OBVIOUS
  <2>2. QED BY DivMod, <2>1
<1>2. OopsPerPage \in Nat \ {0} BY TableAssumption
<1> HIDE DEF a, b, r, s
<1>3. b = a \/ (b = a + 1 /\ s = 0)
  BY <1>1, <1>2, SMT
<1>4. QED BY <1>3 DEF a, b, r, s, pageIndex, elementIndex

\* An entry that is below size is below the last page.
LEMMA PagesToWrite ==
  ASSUME TableType
  PROVE  \/ pageIndex(size) \in 1..Len(pageTable)
         \/ pageIndex(size) = Len(pageTable) + 1 /\ elementIndex(size) = 0
<1>1. size - 1 \in Nat /\ size - 1 \in 0..(size - 1) /\ (size - 1) + 1 = size
  BY DEF TableType
<1>2. pageIndex(size - 1) <= Len(pageTable) BY <1>1 DEF TableType
<1>3. \/ pageIndex(size) = pageIndex(size - 1)
      \/ pageIndex(size) = pageIndex(size - 1) + 1 /\ elementIndex(size) = 0
  BY <1>1, NextIndex
<1>4. pageIndex(size - 1) \in Nat \ {0} BY <1>1, IndexType
<1>5. Len(pageTable) \in Nat BY DEF TableType
<1>6. QED BY <1>2, <1>3, <1>4, <1>5

\* What is read at an index below the end of the pages is a class or nil.
LEMMA EntryType ==
  ASSUME TableType, NEW i \in Nat, pageIndex(i) <= Len(pageTable)
  PROVE  Entry(i) \in Classes \cup {Nil}
<1>1. pageIndex(i) \in DOMAIN pageTable /\ elementIndex(i) \in 0..(OopsPerPage - 1)
  BY IndexType DEF TableType
<1>2. pageTable[pageIndex(i)] \in PageType BY <1>1 DEF TableType
<1>3. QED BY <1>1, <1>2 DEF Entry, PageType

----------------------------------------------------------------------------
(***************************************************************************)
(* The initial state.                                                      *)
(***************************************************************************)
LEMMA InitInv == Init => IInv
<1> SUFFICES ASSUME Init PROVE IInv OBVIOUS
<1>1. MutexInv BY InitMutexInv DEF Init
<1>2. size \in Nat \ {0} /\ DOMAIN SpecialClasses = 1..size
      /\ \A n \in 1..size : SpecialClasses[n] \in Classes
  BY TableAssumption DEF Init
<1>3. \A t \in Threads : call[t] = Out /\ answer[t] = [class |-> Nil, found |-> Nil]
  BY DEF Init
<1>4. CallType /\ LocksHeld /\ InstancesKnowTheirClass
  <2>1. call = [t \in Threads |-> Out] /\ answer = [t \in Threads |-> [class |-> Nil, found |-> Nil]]
    BY DEF Init
  <2>2. Out \in CallRecords BY DEF Out, CallRecords
  <2>3. CallType BY <2>1, <2>2 DEF CallType, Out, InTableToRead, InTableToWrite
  <2>4. LocksHeld BY <2>1 DEF LocksHeld, Out, InTableToRead, InTableToWrite, Init, MutexInit
  <2>5. InstancesKnowTheirClass BY <1>3 DEF InstancesKnowTheirClass
  <2>6. QED BY <2>3, <2>4, <2>5
<1> DEFINE last == pageIndex(size - 1)
           E(p, i) == LET n == (p - 1) * OopsPerPage + i + 1
                      IN IF n <= size THEN SpecialClasses[n] ELSE Nil
<1>5. last \in Nat \ {0} /\ pageTable = [p \in 1..last |-> [i \in 0..(OopsPerPage - 1) |-> E(p, i)]]
  <2>1. size - 1 \in Nat BY <1>2
  <2>2. QED BY <2>1, IndexType DEF Init
<1>6. OopsPerPage \in Nat \ {0} BY TableAssumption
<1>7. \A p \in 1..last, i \in 0..(OopsPerPage - 1) : E(p, i) \in Classes \cup {Nil}
  <2> SUFFICES ASSUME NEW p \in 1..last, NEW i \in 0..(OopsPerPage - 1)
               PROVE  E(p, i) \in Classes \cup {Nil}
    OBVIOUS
  <2>1. (p - 1) * OopsPerPage \in Nat
    <3>1. p - 1 \in Nat BY <1>5
    <3>2. QED BY <3>1, <1>6
  <2>2. (p - 1) * OopsPerPage + i + 1 \in Nat \ {0} BY <2>1, <1>6
  <2>3. QED BY <2>2, <1>2
<1>8. pageTable \in Seq(PageType) /\ Len(pageTable) = last
  <2> HIDE DEF last, E
  <2>1. \A p \in 1..last : [i \in 0..(OopsPerPage - 1) |-> E(p, i)] \in PageType
    BY <1>7 DEF PageType
  <2>2. QED BY <1>5, <2>1
<1>9. \A n \in 0..(size - 1) : pageIndex(n) \in 1..last /\ Entry(n) = SpecialClasses[n + 1]
  <2> SUFFICES ASSUME NEW n \in 0..(size - 1)
               PROVE  pageIndex(n) \in 1..last /\ Entry(n) = SpecialClasses[n + 1]
    OBVIOUS
  <2> DEFINE a == n \div OopsPerPage        r == n % OopsPerPage
             b == (size - 1) \div OopsPerPage  s == (size - 1) % OopsPerPage
  <2>1. /\ n = OopsPerPage * a + r /\ a \in Nat /\ r \in 0..(OopsPerPage - 1)
        /\ size - 1 = OopsPerPage * b + s /\ b \in Nat /\ s \in 0..(OopsPerPage - 1)
    <3>1. n \in Nat /\ size - 1 \in Nat BY <1>2
    <3>2. QED BY <3>1, DivMod
  <2>2. pageIndex(n) = a + 1 /\ elementIndex(n) = r /\ last = b + 1
    BY DEF pageIndex, elementIndex
  <2> HIDE DEF a, b, r, s, last
  <2>3. a <= b BY <2>1, <1>2, <1>6, SMT
  <2>4. a + 1 \in 1..last BY <2>1, <2>2, <2>3
  <2>5. Entry(n) = E(a + 1, r)
    <3> HIDE DEF E
    <3>1. pageTable[a + 1] = [i \in 0..(OopsPerPage - 1) |-> E(a + 1, i)] BY <1>5, <2>4
    <3>2. QED BY <3>1, <2>1, <2>2 DEF Entry
  <2>6. ((a + 1) - 1) * OopsPerPage + r + 1 = n + 1
    <3>1. (a + 1) - 1 = a BY <2>1
    <3>2. a * OopsPerPage = OopsPerPage * a BY <2>1, <1>6
    <3>3. OopsPerPage * a \in Nat BY <2>1, <1>6
    <3>4. QED BY <3>1, <3>2, <3>3, <2>1
  <2>7. n + 1 <= size BY <1>2
  <2>8. QED BY <2>2, <2>4, <2>5, <2>6, <2>7
<1>10. \A c \in DOMAIN identityHash : identityHash[c] \in 0..(size - 1)
                                      /\ SpecialClasses[identityHash[c] + 1] = c
  <2> SUFFICES ASSUME NEW c \in DOMAIN identityHash
               PROVE  identityHash[c] \in 0..(size - 1) /\ SpecialClasses[identityHash[c] + 1] = c
    OBVIOUS
  <2>1. PICK n \in 1..size : SpecialClasses[n] = c BY <1>2 DEF Init
  <2> DEFINE m == CHOOSE k \in 1..size : SpecialClasses[k] = c
  <2>2. identityHash[c] = m - 1 BY <1>2 DEF Init
  <2>3. m \in 1..size /\ SpecialClasses[m] = c BY <2>1
  <2> HIDE DEF m
  <2>4. QED BY <2>2, <2>3, <1>2
<1>11. TableType
  <2>1. DOMAIN identityHash \subseteq Classes
    BY <1>2 DEF Init
  <2>3. QED BY <1>2, <1>8, <1>9, <1>10, <2>1 DEF TableType
<1>12. TableInv
  <2>2. \A c \in DOMAIN identityHash : Names(identityHash[c], c)
    <3> SUFFICES ASSUME NEW c \in DOMAIN identityHash PROVE Names(identityHash[c], c)
      OBVIOUS
    <3>1. PICK i \in 0..(size - 1) : i = identityHash[c] /\ SpecialClasses[i + 1] = c BY <1>10
    <3>2. Entry(i) = c BY <1>9, <3>1
    <3>3. i < size BY <1>2, <3>1
    <3>4. Names(i, c) BY <3>2, <3>3 DEF Names
    <3>5. QED BY <3>1, <3>4
  <2>3. QED BY <2>2, <1>3 DEF TableInv, Out
<1>13. QED BY <1>1, <1>4, <1>11, <1>12 DEF IInv

----------------------------------------------------------------------------
(***************************************************************************)
(* The steps.                                                              *)
(***************************************************************************)
\* A thread that holds the lock to write is the only one in the table.
LEMMA WriterAlone ==
  ASSUME IInv, NEW t \in Threads, holds[t] = "write", NEW u \in Threads, u # t
  PROVE  holds[u] = "no" /\ ~InTableToRead(u) /\ ~InTableToWrite(u) /\ call[u].at \in {"out", "lock"}
<1>1. t \in Writers BY DEF Writers
<1>2. u \notin Writers BY <1>1, OneWriter DEF IInv
<1>3. u \notin Readers BY <1>1 DEF IInv, MutexInv, Exclusive
<1>4. holds[u] = "no" BY <1>2, <1>3 DEF Readers, Writers, IInv, MutexInv, MutexType
<1>5. call[u].at \in {"out", "lock", "check", "read", "store", "hash", "grow", "unlock"}
  BY DEF IInv, CallType, CallRecords
<1>6. QED BY <1>4, <1>5 DEF IInv, LocksHeld, InTableToRead, InTableToWrite

\* While a thread reads, no other one writes.
LEMMA NoWriter ==
  ASSUME IInv, NEW t \in Threads, holds[t] = "read", NEW u \in Threads
  PROVE  ~InTableToWrite(u)
BY DEF IInv, MutexInv, Exclusive, LocksHeld, Readers, Writers

\* The call of thread t gets further, and nothing else is called.
LEMMA GoStep ==
  ASSUME CallType, NEW t \in Threads,
         NEW at \in {"check", "read", "store", "hash", "grow", "unlock"}, Go(t, at)
  PROVE  /\ call' \in [Threads -> CallRecords]
         /\ call'[t].at = at /\ call'[t].name = call[t].name
         /\ call'[t].class = call[t].class /\ call'[t].index = call[t].index
         /\ \A u \in Threads : u # t => call'[u] = call[u]
         /\ \A u \in Threads : /\ call'[u].name = call[u].name /\ call'[u].class = call[u].class
                               /\ call'[u].index = call[u].index
<1>1. call[t] \in CallRecords BY DEF CallType
<1>2. [call[t] EXCEPT !.at = at] \in CallRecords BY <1>1 DEF CallRecords
<1>3. call' = [call EXCEPT ![t] = [call[t] EXCEPT !.at = at]]
  BY DEF CallType, Go
<1>4. call'[t] = [call[t] EXCEPT !.at = at] BY <1>3 DEF CallType
<1>5. /\ call'[t].at = at /\ call'[t].name = call[t].name
      /\ call'[t].class = call[t].class /\ call'[t].index = call[t].index
  BY <1>4, <1>1 DEF CallRecords
<1>6. call' \in [Threads -> CallRecords] BY <1>2, <1>3 DEF CallType
<1>7. \A u \in Threads : u # t => call'[u] = call[u] BY <1>3 DEF CallType
<1>8. QED BY <1>5, <1>6, <1>7

\* The call of a lookup preserves the invariant.
LEMMA CallLookupStep ==
  ASSUME IInv, NEW t \in Threads, NEW c \in Classes, CallLookup(t, c)
  PROVE  IInv'
<1>1. /\ call' = [call EXCEPT ![t] = Lookup(c, identityHash[c], "lock")]
      /\ call[t] = Out /\ c \in DOMAIN identityHash
      /\ UNCHANGED <<pageTable, size, identityHash, answer, mutexVars>>
  BY DEF CallLookup
<1>2. Lookup(c, identityHash[c], "lock") \in CallRecords
  BY <1>1 DEF Lookup, CallRecords, IInv, TableType
<1>3. /\ call' \in [Threads -> CallRecords]
      /\ call'[t] = [name |-> "getClassFromIndex", class |-> c, index |-> identityHash[c], at |-> "lock"]
      /\ \A u \in Threads : u # t => call'[u] = call[u]
  BY <1>1, <1>2 DEF IInv, CallType, Lookup
<1>4. MutexInv'
  BY <1>1 DEF IInv, MutexInv, MutexType, Exclusive, NoLostWakeup, Readers, Writers, mutexVars
<1>5. CallType'
  BY <1>1, <1>3 DEF IInv, CallType, InTableToRead, InTableToWrite
<1>6. LocksHeld'
  <2>1. holds[t] = "no" BY <1>1 DEF IInv, LocksHeld, Out
  <2>2. UNCHANGED holds BY <1>1 DEF mutexVars
  <2>3. QED BY <2>1, <2>2, <1>3 DEF IInv, LocksHeld, InTableToRead, InTableToWrite
<1>7. TableType' BY <1>1 DEF IInv, TableType, pageIndex
<1>8. \A i, d : Names(i, d) => Names(i, d)'
  BY <1>1, <1>3 DEF Names, Growing, Out, Entry, pageIndex, elementIndex
<1>9. TableInv'
  <2>1. Names(identityHash[c], c) BY <1>1 DEF IInv, TableInv
  <2>2. QED BY <1>1, <1>3, <1>8, <2>1 DEF IInv, TableInv, Entry, pageIndex, elementIndex
<1>10. InstancesKnowTheirClass' BY <1>1 DEF IInv, InstancesKnowTheirClass
<1>11. QED BY <1>4, <1>5, <1>6, <1>7, <1>9, <1>10 DEF IInv

\* The call of a registration preserves the invariant.
LEMMA CallRegisterStep ==
  ASSUME IInv, NEW t \in Threads, NEW c \in Classes, CallRegister(t, c)
  PROVE  IInv'
<1>1. /\ call' = [call EXCEPT ![t] = Register(c, "lock")]
      /\ call[t] = Out
      /\ UNCHANGED <<pageTable, size, identityHash, answer, mutexVars>>
  BY DEF CallRegister
<1>2. Register(c, "lock") \in CallRecords BY DEF Register, CallRecords
<1>3. /\ call' \in [Threads -> CallRecords]
      /\ call'[t] = [name |-> "registerClass", class |-> c, index |-> 0, at |-> "lock"]
      /\ \A u \in Threads : u # t => call'[u] = call[u]
  BY <1>1, <1>2 DEF IInv, CallType, Register
<1>4. MutexInv'
  BY <1>1 DEF IInv, MutexInv, MutexType, Exclusive, NoLostWakeup, Readers, Writers, mutexVars
<1>5. CallType'
  BY <1>1, <1>3 DEF IInv, CallType, InTableToRead, InTableToWrite
<1>6. LocksHeld'
  <2>1. holds[t] = "no" BY <1>1 DEF IInv, LocksHeld, Out
  <2>2. UNCHANGED holds BY <1>1 DEF mutexVars
  <2>3. QED BY <2>1, <2>2, <1>3 DEF IInv, LocksHeld, InTableToRead, InTableToWrite
<1>7. TableType' BY <1>1 DEF IInv, TableType, pageIndex
<1>8. \A i, d : Names(i, d) => Names(i, d)'
  BY <1>1, <1>3 DEF Names, Growing, Out, Entry, pageIndex, elementIndex
<1>9. TableInv'
  BY <1>1, <1>3, <1>8 DEF IInv, TableInv, Entry, pageIndex, elementIndex
<1>10. InstancesKnowTheirClass' BY <1>1 DEF IInv, InstancesKnowTheirClass
<1>11. QED BY <1>4, <1>5, <1>6, <1>7, <1>9, <1>10 DEF IInv

\* The step of a thread that is in the table or at its lock and that changes
\* neither the table nor where any other thread is.
LEMMA NamesStay ==
  ASSUME UNCHANGED <<pageTable, size>>, NEW c,
         \A u \in Threads : Growing(u, c) => Growing(u, c)', NEW i, Names(i, c)
  PROVE  Names(i, c)'
BY DEF Names, Entry, pageIndex, elementIndex

\* Locking for reading preserves the invariant.
LEMMA LockToReadStep ==
  ASSUME IInv, NEW t \in Threads, LockToRead(t)
  PROVE  IInv'
<1>1. /\ call[t].name = "getClassFromIndex" /\ call[t].at = "lock" /\ read_lock(t)
      /\ UNCHANGED <<pageTable, size, identityHash, answer>>
  BY DEF LockToRead
<1>2. holds[t] = "no" BY <1>1 DEF IInv, LocksHeld
<1>3. MutexInv' BY <1>1, <1>2, ReadLockMutexInv DEF IInv
<1>4. \/ UNCHANGED <<holds, call>>
      \/ holds' = [holds EXCEPT ![t] = "read"] /\ Go(t, "check")
  <2>1. CASE writeCount # 0
    <3>1. UNCHANGED holds BY <1>1, <2>1 DEF read_lock
    <3>2. QED BY <3>1, <1>2 DEF LockToRead
  <2>2. CASE writeCount = 0
    <3>1. holds' = [holds EXCEPT ![t] = "read"] BY <1>1, <2>2 DEF read_lock
    <3>2. holds'[t] = "read" BY <3>1 DEF IInv, MutexInv, MutexType
    <3>3. QED BY <3>1, <3>2 DEF LockToRead
  <2>3. QED BY <2>1, <2>2
<1>5. CASE UNCHANGED <<holds, call>>
  <2>1. CallType' /\ LocksHeld' /\ InstancesKnowTheirClass'
    BY <1>1, <1>5 DEF IInv, CallType, LocksHeld, InstancesKnowTheirClass, InTableToRead, InTableToWrite
  <2>2. TableType' BY <1>1 DEF IInv, TableType, pageIndex
  <2>3. \A i, c : Names(i, c) => Names(i, c)' BY <1>1, <1>5, NamesStay DEF Growing
  <2>4. TableInv'
    BY <1>1, <1>5, <2>3 DEF IInv, TableInv, Entry, pageIndex, elementIndex
  <2>5. QED BY <1>3, <2>1, <2>2, <2>4 DEF IInv
<1>6. CASE holds' = [holds EXCEPT ![t] = "read"] /\ Go(t, "check")
  <2>1. /\ call' \in [Threads -> CallRecords]
        /\ call'[t].at = "check" /\ \A u \in Threads : u # t => call'[u] = call[u]
        /\ \A u \in Threads : /\ call'[u].name = call[u].name /\ call'[u].class = call[u].class
                              /\ call'[u].index = call[u].index
    BY <1>6, GoStep DEF IInv
  <2>2. CallType' BY <1>1, <2>1 DEF IInv, CallType, InTableToRead, InTableToWrite
  <2>3. holds'[t] = "read" /\ \A u \in Threads : u # t => holds'[u] = holds[u]
    BY <1>6 DEF IInv, MutexInv, MutexType
  <2>4. LocksHeld' BY <2>1, <2>3 DEF IInv, LocksHeld, InTableToRead, InTableToWrite
  <2>5. TableType' BY <1>1 DEF IInv, TableType, pageIndex
  <2>6. \A i, c : Names(i, c) => Names(i, c)' BY <1>1, <2>1, NamesStay DEF Growing
  <2>7. TableInv'
    BY <1>1, <2>1, <2>6 DEF IInv, TableInv, Entry, pageIndex, elementIndex
  <2>8. InstancesKnowTheirClass' BY <1>1 DEF IInv, InstancesKnowTheirClass
  <2>9. QED BY <1>3, <2>2, <2>4, <2>5, <2>7, <2>8 DEF IInv
<1>7. QED BY <1>4, <1>5, <1>6

\* Locking for writing preserves the invariant.
LEMMA LockToWriteStep ==
  ASSUME IInv, NEW t \in Threads, LockToWrite(t)
  PROVE  IInv'
<1>1. /\ call[t].name = "registerClass" /\ call[t].at = "lock" /\ write_lock(t)
      /\ UNCHANGED <<pageTable, size, identityHash, answer>>
  BY DEF LockToWrite
<1>2. holds[t] = "no" BY <1>1 DEF IInv, LocksHeld
<1>3. MutexInv' BY <1>1, <1>2, WriteLockMutexInv DEF IInv
<1>4. \/ UNCHANGED <<holds, call>>
      \/ holds' = [holds EXCEPT ![t] = "write"] /\ Go(t, "store")
  <2>1. UNCHANGED holds \/ holds' = [holds EXCEPT ![t] = "write"]
    BY <1>1 DEF write_lock, Abort
  <2>2. CASE UNCHANGED holds BY <2>2, <1>2 DEF LockToWrite
  <2>3. CASE holds' = [holds EXCEPT ![t] = "write"]
    <3>1. holds'[t] = "write" BY <2>3 DEF IInv, MutexInv, MutexType
    <3>2. QED BY <2>3, <3>1 DEF LockToWrite
  <2>4. QED BY <2>1, <2>2, <2>3
<1>5. CASE UNCHANGED <<holds, call>>
  <2>1. CallType' /\ LocksHeld' /\ InstancesKnowTheirClass'
    BY <1>1, <1>5 DEF IInv, CallType, LocksHeld, InstancesKnowTheirClass, InTableToRead, InTableToWrite
  <2>2. TableType' BY <1>1 DEF IInv, TableType, pageIndex
  <2>3. \A i, c : Names(i, c) => Names(i, c)' BY <1>1, <1>5, NamesStay DEF Growing
  <2>4. TableInv'
    BY <1>1, <1>5, <2>3 DEF IInv, TableInv, Entry, pageIndex, elementIndex
  <2>5. QED BY <1>3, <2>1, <2>2, <2>4 DEF IInv
<1>6. CASE holds' = [holds EXCEPT ![t] = "write"] /\ Go(t, "store")
  <2>1. /\ call' \in [Threads -> CallRecords]
        /\ call'[t].at = "store" /\ \A u \in Threads : u # t => call'[u] = call[u]
        /\ \A u \in Threads : /\ call'[u].name = call[u].name /\ call'[u].class = call[u].class
                              /\ call'[u].index = call[u].index
    BY <1>6, GoStep DEF IInv
  <2>2. CallType' BY <1>1, <2>1 DEF IInv, CallType, InTableToRead, InTableToWrite
  <2>3. holds'[t] = "write" /\ \A u \in Threads : u # t => holds'[u] = holds[u]
    BY <1>6 DEF IInv, MutexInv, MutexType
  <2>4. LocksHeld' BY <2>1, <2>3 DEF IInv, LocksHeld, InTableToRead, InTableToWrite
  <2>5. TableType' BY <1>1 DEF IInv, TableType, pageIndex
  <2>6. \A i, c : Names(i, c) => Names(i, c)' BY <1>1, <2>1, NamesStay DEF Growing
  <2>7. TableInv'
    BY <1>1, <2>1, <2>6 DEF IInv, TableInv, Entry, pageIndex, elementIndex
  <2>8. InstancesKnowTheirClass' BY <1>1 DEF IInv, InstancesKnowTheirClass
  <2>9. QED BY <1>3, <2>2, <2>4, <2>5, <2>7, <2>8 DEF IInv
<1>7. QED BY <1>4, <1>5, <1>6

\* The test of the index preserves the invariant.
LEMMA CheckIndexStep ==
  ASSUME IInv, NEW t \in Threads, CheckIndex(t)
  PROVE  IInv'
<1>1. call[t].at = "check" /\ UNCHANGED <<pageTable, size, identityHash, mutexVars>>
  BY DEF CheckIndex
<1>2. holds[t] = "read" /\ call[t].name = "getClassFromIndex"
  BY <1>1 DEF IInv, CallType, LocksHeld, InTableToRead
<1>3. \A u \in Threads, c \in Classes : ~Growing(u, c)
  BY <1>2, NoWriter DEF Growing, InTableToWrite
<1>4. call[t].class \in Classes BY <1>2 DEF IInv, CallType
<1>5. call[t].index < size
  BY <1>2, <1>3, <1>4 DEF IInv, TableInv, Names
<1>6. Go(t, "read") /\ UNCHANGED answer
  BY <1>5, <1>1 DEF CheckIndex, IInv, CallType, CallRecords, TableType
<1>7. /\ call' \in [Threads -> CallRecords]
      /\ call'[t].at = "read" /\ \A u \in Threads : u # t => call'[u] = call[u]
      /\ \A u \in Threads : /\ call'[u].name = call[u].name /\ call'[u].class = call[u].class
                            /\ call'[u].index = call[u].index
  BY <1>6, GoStep DEF IInv
<1>8. MutexInv'
  BY <1>1 DEF IInv, MutexInv, MutexType, Exclusive, NoLostWakeup, Readers, Writers, mutexVars
<1>9. CallType' BY <1>2, <1>6, <1>7 DEF IInv, CallType, InTableToRead, InTableToWrite
<1>10. LocksHeld'
  <2>1. UNCHANGED holds BY <1>1 DEF mutexVars
  <2>2. QED BY <2>1, <1>2, <1>7 DEF IInv, LocksHeld, InTableToRead, InTableToWrite
<1>11. TableType' BY <1>1 DEF IInv, TableType, pageIndex
<1>12. \A i, c : Names(i, c) => Names(i, c)'
  BY <1>1, <1>7, NamesStay DEF Growing
<1>13. TableInv'
  BY <1>1, <1>5, <1>7, <1>12 DEF IInv, TableInv, Entry, pageIndex, elementIndex
<1>14. InstancesKnowTheirClass' BY <1>6 DEF IInv, InstancesKnowTheirClass
<1>15. QED BY <1>8, <1>9, <1>10, <1>11, <1>13, <1>14 DEF IInv

\* Reading the entry preserves the invariant.
LEMMA ReadEntryStep ==
  ASSUME IInv, NEW t \in Threads, ReadEntry(t)
  PROVE  IInv'
<1>1. /\ call[t].at = "read" /\ Go(t, "unlock")
      /\ answer' = [answer EXCEPT ![t] = [class |-> call[t].class, found |-> Entry(call[t].index)]]
      /\ UNCHANGED <<pageTable, size, identityHash, mutexVars>>
  BY DEF ReadEntry, Answer
<1>2. holds[t] = "read" /\ call[t].name = "getClassFromIndex" /\ call[t].class \in Classes
  BY <1>1 DEF IInv, CallType, LocksHeld, InTableToRead
<1>3. call[t].index < size /\ Names(call[t].index, call[t].class) /\ call[t].index \in Nat
  BY <1>1, <1>2 DEF IInv, TableInv, CallType, CallRecords
<1>4. Entry(call[t].index) = call[t].class
  BY <1>3 DEF Names, IInv, TableType
<1>5. /\ call' \in [Threads -> CallRecords]
      /\ call'[t].at = "unlock" /\ \A u \in Threads : u # t => call'[u] = call[u]
      /\ \A u \in Threads : /\ call'[u].name = call[u].name /\ call'[u].class = call[u].class
                            /\ call'[u].index = call[u].index
  BY <1>1, GoStep DEF IInv
<1>6. MutexInv'
  BY <1>1 DEF IInv, MutexInv, MutexType, Exclusive, NoLostWakeup, Readers, Writers, mutexVars
<1>7. CallType'
  <2>1. answer' \in [Threads -> [class : Classes \cup {Nil}, found : Classes \cup {Nil}]]
    BY <1>1, <1>2, <1>4 DEF IInv, CallType
  <2>2. QED BY <1>2, <1>5, <2>1 DEF IInv, CallType, InTableToRead, InTableToWrite
<1>8. LocksHeld'
  <2>1. UNCHANGED holds BY <1>1 DEF mutexVars
  <2>2. QED BY <2>1, <1>2, <1>5 DEF IInv, LocksHeld, InTableToRead, InTableToWrite
<1>9. TableType' BY <1>1 DEF IInv, TableType, pageIndex
<1>10. \A i, c : Names(i, c) => Names(i, c)'
  BY <1>1, <1>5, NamesStay DEF Growing
<1>11. TableInv'
  BY <1>1, <1>5, <1>10 DEF IInv, TableInv, Entry, pageIndex, elementIndex
<1>12. InstancesKnowTheirClass'
  BY <1>1, <1>4 DEF IInv, InstancesKnowTheirClass, CallType
<1>13. QED BY <1>6, <1>7, <1>8, <1>9, <1>11, <1>12 DEF IInv

\* Storing the class, on a new page when the last one is full, preserves the invariant.
LEMMA StoreEntryStep ==
  ASSUME IInv, NEW t \in Threads, StoreEntry(t)
  PROVE  IInv'
<1> DEFINE p     == pageIndex(size)
           e     == elementIndex(size)
           pages == IF e = 0 /\ p = Len(pageTable) + 1 THEN Append(pageTable, NewPage) ELSE pageTable
<1>1. /\ call[t].at = "store" /\ Go(t, "hash")
      /\ pageTable' = [pages EXCEPT ![p][e] = call[t].class]
      /\ UNCHANGED <<size, identityHash, answer, mutexVars>>
  BY DEF StoreEntry
<1>2. holds[t] = "write" /\ call[t].name = "registerClass" /\ call[t].class \in Classes
  BY <1>1 DEF IInv, CallType, LocksHeld, InTableToWrite
<1>3. \A u \in Threads : ~InTableToRead(u) /\ (u # t => ~InTableToWrite(u))
  <2>1. ~InTableToRead(t) BY <1>1 DEF InTableToRead
  <2>2. QED BY <2>1, <1>2, WriterAlone
<1>4. \A u \in Threads : \A c : ~Growing(u, c)
  BY <1>1, <1>3 DEF Growing, InTableToWrite
<1>5. size \in Nat /\ p \in Nat \ {0} /\ e \in 0..(OopsPerPage - 1)
  BY IndexType DEF IInv, TableType
<1>6. /\ pages \in Seq(PageType) /\ p \in 1..Len(pages) /\ Len(pageTable) <= Len(pages)
      /\ \A q \in 1..Len(pageTable) : pages[q] = pageTable[q]
  <2>1. pageTable \in Seq(PageType) BY DEF IInv, TableType
  <2>2. NewPage \in PageType BY DEF NewPage, PageType
  <2>3. p \in 1..Len(pageTable) \/ (p = Len(pageTable) + 1 /\ e = 0)
    BY PagesToWrite DEF IInv
  <2> HIDE DEF p, e
  <2>4. CASE p = Len(pageTable) + 1 /\ e = 0 BY <2>1, <2>2, <2>4
  <2>5. CASE p \in 1..Len(pageTable) /\ ~(p = Len(pageTable) + 1 /\ e = 0) BY <2>1, <2>5
  <2>6. QED BY <2>3, <2>4, <2>5
<1> HIDE DEF pages
<1>7. /\ pageTable' \in Seq(PageType) /\ Len(pageTable') = Len(pages)
      /\ pageTable'[p][e] = call[t].class
      /\ \A q \in 1..Len(pages), f \in 0..(OopsPerPage - 1) :
            q # p \/ f # e => pageTable'[q][f] = pages[q][f]
  <2> HIDE DEF p, e
  <2>1. pages[p] \in PageType BY <1>6
  <2>2. [pages[p] EXCEPT ![e] = call[t].class] \in PageType
    BY <2>1, <1>2, <1>5 DEF PageType
  <2>3. pageTable' = [pages EXCEPT ![p] = [pages[p] EXCEPT ![e] = call[t].class]]
    BY <1>1
  <2>4. pageTable' \in Seq(PageType) /\ Len(pageTable') = Len(pages)
    BY <2>2, <2>3, <1>6
  <2>5. pageTable'[p] = [pages[p] EXCEPT ![e] = call[t].class]
    BY <2>3, <1>6
  <2>6. \A q \in 1..Len(pages) : q # p => pageTable'[q] = pages[q]
    BY <2>3, <1>6
  <2>7. pageTable'[p][e] = call[t].class
        /\ \A f \in 0..(OopsPerPage - 1) : f # e => pageTable'[p][f] = pages[p][f]
    BY <2>5, <2>1, <1>5 DEF PageType
  <2>8. QED BY <2>4, <2>6, <2>7
<1>8. \A i \in 0..(size - 1) : Entry(i)' = Entry(i)
  <2> SUFFICES ASSUME NEW i \in 0..(size - 1) PROVE Entry(i)' = Entry(i)
    OBVIOUS
  <2>1. i \in Nat /\ i # size BY <1>5
  <2>2. pageIndex(i) # p \/ elementIndex(i) # e
    BY <2>1, <1>5, EntriesDiffer
  <2>3. pageIndex(i) \in 1..Len(pageTable) /\ elementIndex(i) \in 0..(OopsPerPage - 1)
    <3>1. pageIndex(i) <= Len(pageTable) /\ Len(pageTable) \in Nat BY DEF IInv, TableType
    <3>2. pageIndex(i) \in Nat \ {0} /\ elementIndex(i) \in 0..(OopsPerPage - 1)
      BY <2>1, IndexType
    <3>3. QED BY <3>1, <3>2
  <2>4. pageIndex(i) \in 1..Len(pages) /\ pages[pageIndex(i)] = pageTable[pageIndex(i)]
    BY <2>3, <1>6
  <2>5. pageTable'[pageIndex(i)][elementIndex(i)] = pageTable[pageIndex(i)][elementIndex(i)]
    <3> HIDE DEF p, e
    <3>1. QED BY <2>2, <2>3, <2>4, <1>7
  <2>6. QED BY <2>5 DEF Entry, pageIndex, elementIndex
<1>9. /\ call' \in [Threads -> CallRecords]
      /\ call'[t].at = "hash" /\ \A u \in Threads : u # t => call'[u] = call[u]
      /\ \A u \in Threads : /\ call'[u].name = call[u].name /\ call'[u].class = call[u].class
                            /\ call'[u].index = call[u].index
  BY <1>1, GoStep DEF IInv
<1>10. MutexInv'
  BY <1>1 DEF IInv, MutexInv, MutexType, Exclusive, NoLostWakeup, Readers, Writers, mutexVars
<1>11. CallType' BY <1>1, <1>2, <1>9 DEF IInv, CallType, InTableToRead, InTableToWrite
<1>12. LocksHeld'
  <2>1. UNCHANGED holds BY <1>1 DEF mutexVars
  <2>2. QED BY <2>1, <1>2, <1>9 DEF IInv, LocksHeld, InTableToRead, InTableToWrite
<1>13. TableType'
  <2>1. \A i \in 0..(size - 1) : pageIndex(i) <= Len(pageTable')
    <3> SUFFICES ASSUME NEW i \in 0..(size - 1) PROVE pageIndex(i) <= Len(pageTable')
      OBVIOUS
    <3>1. pageIndex(i) <= Len(pageTable) BY DEF IInv, TableType
    <3>2. pageIndex(i) \in Nat BY <1>5, IndexType
    <3>3. Len(pageTable) \in Nat /\ Len(pages) \in Nat BY <1>6 DEF IInv, TableType
    <3>4. QED BY <3>1, <3>2, <3>3, <1>6, <1>7
  <2>2. QED BY <2>1, <1>1, <1>7 DEF IInv, TableType, pageIndex
<1>14. \A i \in Nat : \A c : Names(i, c) => i < size /\ Names(i, c)'
  <2> SUFFICES ASSUME NEW i \in Nat, NEW c, Names(i, c) PROVE i < size /\ Names(i, c)'
    OBVIOUS
  <2>1. i < size /\ Entry(i) = c BY <1>4 DEF Names
  <2>2. i \in 0..(size - 1) BY <2>1, <1>5
  <2>3. Entry(i)' = c BY <2>1, <2>2, <1>8
  <2>4. QED BY <2>1, <2>3, <1>1 DEF Names
<1>15. pageIndex(size) <= Len(pageTable') /\ Entry(size)' = call[t].class
  <2>1. p <= Len(pageTable')
    <3> HIDE DEF p
    <3>1. QED BY <1>6, <1>7
  <2>2. pageIndex(size)' = p /\ elementIndex(size)' = e
    BY <1>1 DEF pageIndex, elementIndex
  <2>3. QED BY <2>1, <2>2, <1>7 DEF Entry
<1>16. TableInv'
  <2>1. \A c \in DOMAIN identityHash' : Names(identityHash[c], c)'
    BY <1>1, <1>14 DEF IInv, TableInv, TableType
  <2>2. (\A u \in Threads : call[u].name = "getClassFromIndex" => Names(call[u].index, call[u].class))'
    <3> SUFFICES ASSUME NEW u \in Threads, call'[u].name = "getClassFromIndex"
                 PROVE  Names(call[u].index, call[u].class)'
      OBVIOUS
    <3>1. PICK i \in Nat, d \in Classes \cup {Nil} : i = call[u].index /\ d = call[u].class
      BY DEF IInv, CallType, CallRecords
    <3>2. Names(i, d)' BY <3>1, <1>9, <1>14 DEF IInv, TableInv
    <3>3. call'[u].index = i /\ call'[u].class = d BY <3>1, <1>9
    <3>4. QED BY <3>2, <3>3
  <2>3. \A u \in Threads : call'[u].at = "read" => call'[u].index < size'
    BY <1>1, <1>9, <1>3 DEF InTableToRead
  <2>4. \A u \in Threads : call'[u].at \in {"hash", "grow"} => u = t
    BY <1>9, <1>3 DEF InTableToWrite
  <2>5. \A u \in Threads : call'[u].at \in {"hash", "grow"} =>
           pageIndex(size)' <= Len(pageTable') /\ Entry(size)' = call'[u].class
    BY <2>4, <1>9, <1>15, <1>1 DEF pageIndex
  <2>6. (\A u \in Threads : call[u].at \in {"hash", "grow"} =>
           pageIndex(size) <= Len(pageTable) /\ Entry(size) = call[u].class)'
    BY <2>5
  <2>7. QED BY <2>1, <2>2, <2>3, <2>6 DEF TableInv
<1>17. InstancesKnowTheirClass' BY <1>1 DEF IInv, InstancesKnowTheirClass
<1>18. QED BY <1>10, <1>11, <1>12, <1>13, <1>16, <1>17 DEF IInv

\* Setting the hash of the class preserves the invariant.
LEMMA SetHashStep ==
  ASSUME IInv, NEW t \in Threads, SetHash(t)
  PROVE  IInv'
<1>1. /\ call[t].at = "hash" /\ Go(t, "grow")
      /\ identityHash' = [c \in DOMAIN identityHash \cup {call[t].class} |->
                            IF c = call[t].class THEN size ELSE identityHash[c]]
      /\ UNCHANGED <<pageTable, size, answer, mutexVars>>
  BY DEF SetHash
<1>2. holds[t] = "write" /\ call[t].name = "registerClass" /\ call[t].class \in Classes
  BY <1>1 DEF IInv, CallType, LocksHeld, InTableToWrite
<1>3. \A u \in Threads : u # t => ~InTableToRead(u) /\ ~InTableToWrite(u)
  BY <1>2, WriterAlone
<1>4. /\ call' \in [Threads -> CallRecords]
      /\ call'[t].at = "grow" /\ \A u \in Threads : u # t => call'[u] = call[u]
      /\ \A u \in Threads : /\ call'[u].name = call[u].name /\ call'[u].class = call[u].class
                            /\ call'[u].index = call[u].index
  BY <1>1, GoStep DEF IInv
<1>5. MutexInv'
  BY <1>1 DEF IInv, MutexInv, MutexType, Exclusive, NoLostWakeup, Readers, Writers, mutexVars
<1>6. CallType' BY <1>1, <1>2, <1>4 DEF IInv, CallType, InTableToRead, InTableToWrite
<1>7. LocksHeld'
  <2>1. UNCHANGED holds BY <1>1 DEF mutexVars
  <2>2. QED BY <2>1, <1>2, <1>4 DEF IInv, LocksHeld, InTableToRead, InTableToWrite
<1>8. TableType' BY <1>1, <1>2 DEF IInv, TableType, pageIndex
<1>9. \A i, c : Names(i, c) => Names(i, c)'
  <2>1. \A u \in Threads : \A c : Growing(u, c) => Growing(u, c)'
    BY <1>1, <1>4 DEF Growing
  <2>2. QED BY <1>1, <2>1, NamesStay
<1>10. Names(size, call[t].class)'
  BY <1>1, <1>4 DEF Names, Growing
<1>11. (\A c \in DOMAIN identityHash : Names(identityHash[c], c))'
  <2> SUFFICES ASSUME NEW c \in DOMAIN identityHash' PROVE Names(identityHash[c], c)'
    OBVIOUS
  <2>1. CASE c = call[t].class
    <3>1. identityHash'[c] = size' /\ c = call'[t].class BY <1>1, <1>4, <2>1
    <3>2. Names(size, c)' BY <1>10, <1>4, <2>1
    <3>3. QED BY <3>1, <3>2
  <2>2. CASE c # call[t].class
    <3>1. PICK i : i = identityHash[c] OBVIOUS
    <3>2. c \in DOMAIN identityHash /\ identityHash'[c] = i BY <1>1, <2>2, <3>1
    <3>3. Names(i, c)' BY <3>1, <3>2, <1>9 DEF IInv, TableInv
    <3>4. QED BY <3>2, <3>3
  <2>3. QED BY <2>1, <2>2
<1>12. TableInv'
  <2>1. (\A u \in Threads : call[u].name = "getClassFromIndex" => Names(call[u].index, call[u].class))'
    <3> SUFFICES ASSUME NEW u \in Threads, (call[u].name = "getClassFromIndex")'
                 PROVE  Names(call[u].index, call[u].class)'
      OBVIOUS
    <3>1. PICK i, c : i = call[u].index /\ c = call[u].class OBVIOUS
    <3>2. call'[u].index = i /\ call'[u].class = c /\ call[u].name = "getClassFromIndex"
      BY <1>4, <3>1
    <3>3. Names(i, c)' BY <1>9, <3>1, <3>2 DEF IInv, TableInv
    <3>4. QED BY <3>2, <3>3
  <2>2. \A u \in Threads : call'[u].at = "read" => call'[u].index < size'
    <3>1. \A u \in Threads : call'[u].at = "read" => u # t BY <1>4
    <3>2. QED BY <1>1, <1>4, <3>1 DEF IInv, TableInv
  <2>3. /\ pageIndex(size) <= Len(pageTable) /\ Entry(size) = call[t].class
        /\ \A u \in Threads \ {t} : call[u].at \in {"hash", "grow"} =>
              pageIndex(size) <= Len(pageTable) /\ Entry(size) = call[u].class
    BY <1>1 DEF IInv, TableInv
  <2>4. pageIndex(size)' = pageIndex(size) /\ Entry(size)' = Entry(size)
    BY <1>1 DEF Entry, pageIndex, elementIndex
  <2>5. \A u \in Threads : call'[u].at \in {"hash", "grow"} =>
           pageIndex(size)' <= Len(pageTable') /\ Entry(size)' = call'[u].class
    <3>1. \A u \in Threads : call'[u].class = call[u].class /\ (u # t => call'[u].at = call[u].at)
      BY <1>4
    <3>2. QED BY <1>1, <2>3, <2>4, <3>1
  <2>6. QED BY <1>11, <2>1, <2>2, <2>5 DEF TableInv
<1>13. InstancesKnowTheirClass' BY <1>1 DEF IInv, InstancesKnowTheirClass
<1>14. QED BY <1>5, <1>6, <1>7, <1>8, <1>12, <1>13 DEF IInv

\* Counting the new class preserves the invariant.
LEMMA GrowStep ==
  ASSUME IInv, NEW t \in Threads, Grow(t)
  PROVE  IInv'
<1>1. /\ call[t].at = "grow" /\ Go(t, "unlock") /\ size' = size + 1
      /\ UNCHANGED <<pageTable, identityHash, answer, mutexVars>>
  BY DEF Grow
<1>2. holds[t] = "write" /\ call[t].name = "registerClass" /\ call[t].class \in Classes
  BY <1>1 DEF IInv, CallType, LocksHeld, InTableToWrite
<1>3. \A u \in Threads : u # t => ~InTableToRead(u) /\ ~InTableToWrite(u)
  BY <1>2, WriterAlone
<1>4. /\ call' \in [Threads -> CallRecords]
      /\ call'[t].at = "unlock" /\ \A u \in Threads : u # t => call'[u] = call[u]
      /\ \A u \in Threads : /\ call'[u].name = call[u].name /\ call'[u].class = call[u].class
                            /\ call'[u].index = call[u].index
  BY <1>1, GoStep DEF IInv
<1>5. MutexInv'
  BY <1>1 DEF IInv, MutexInv, MutexType, Exclusive, NoLostWakeup, Readers, Writers, mutexVars
<1>6. CallType' BY <1>1, <1>2, <1>4 DEF IInv, CallType, InTableToRead, InTableToWrite
<1>7. LocksHeld'
  <2>1. UNCHANGED holds BY <1>1 DEF mutexVars
  <2>2. QED BY <2>1, <1>2, <1>4 DEF IInv, LocksHeld, InTableToRead, InTableToWrite
<1>8. size \in Nat /\ pageIndex(size) <= Len(pageTable) /\ Entry(size) = call[t].class
  BY <1>1 DEF IInv, TableInv, TableType
<1>9. TableType'
  <2>1. \A i \in 0..(size + 1 - 1) : i \in 0..(size - 1) \/ i = size BY <1>8
  <2>2. \A i \in 0..(size + 1 - 1) : pageIndex(i) <= Len(pageTable)
    BY <2>1, <1>8 DEF IInv, TableType
  <2>3. size' \in Nat \ {0} BY <1>1, <1>8
  <2>4. QED BY <1>1, <2>2, <2>3 DEF IInv, TableType, pageIndex
<1>10. \A i \in Nat : \A c : Names(i, c) => Names(i, c)'
  <2> SUFFICES ASSUME NEW i \in Nat, NEW c, Names(i, c) PROVE Names(i, c)'
    OBVIOUS
  <2>1. CASE i < size /\ Entry(i) = c
    <3>1. Entry(i)' = c BY <1>1, <2>1 DEF Entry, pageIndex, elementIndex
    <3>2. i < size' BY <2>1, <1>1, <1>8
    <3>3. QED BY <3>1, <3>2 DEF Names
  <2>2. CASE i = size /\ \E u \in Threads : Growing(u, c)
    <3>1. c = call[t].class BY <2>2, <1>3 DEF Growing, InTableToWrite
    <3>2. Entry(i)' = c BY <2>2, <3>1, <1>1, <1>8 DEF Entry, pageIndex, elementIndex
    <3>3. i < size' BY <2>2, <1>1, <1>8
    <3>4. QED BY <3>2, <3>3 DEF Names
  <2>3. QED BY <2>1, <2>2 DEF Names
<1>11. TableInv'
  <2>1. \A u \in Threads : call'[u].at \notin {"hash", "grow", "read"}
    BY <1>3, <1>4 DEF InTableToRead, InTableToWrite
  <2>2. (\A c \in DOMAIN identityHash : Names(identityHash[c], c))'
    <3> SUFFICES ASSUME NEW c \in DOMAIN identityHash PROVE Names(identityHash[c], c)'
      BY <1>1
    <3>1. PICK i \in Nat : i = identityHash[c] BY DEF IInv, TableType
    <3>2. Names(i, c)' BY <3>1, <1>10 DEF IInv, TableInv
    <3>3. QED BY <3>1, <3>2, <1>1
  <2>3. (\A u \in Threads : call[u].name = "getClassFromIndex" => Names(call[u].index, call[u].class))'
    <3> SUFFICES ASSUME NEW u \in Threads, call'[u].name = "getClassFromIndex"
                 PROVE  Names(call[u].index, call[u].class)'
      OBVIOUS
    <3>1. PICK i \in Nat, d \in Classes \cup {Nil} : i = call[u].index /\ d = call[u].class
      BY DEF IInv, CallType, CallRecords
    <3>2. Names(i, d)' BY <3>1, <1>4, <1>10 DEF IInv, TableInv
    <3>3. call'[u].index = i /\ call'[u].class = d BY <3>1, <1>4
    <3>4. QED BY <3>2, <3>3
  <2>4. QED BY <2>1, <2>2, <2>3 DEF TableInv
<1>12. InstancesKnowTheirClass' BY <1>1 DEF IInv, InstancesKnowTheirClass
<1>13. QED BY <1>5, <1>6, <1>7, <1>9, <1>11, <1>12 DEF IInv

\* Unlocking preserves the invariant.
LEMMA UnlockStep ==
  ASSUME IInv, NEW t \in Threads, Unlock(t)
  PROVE  IInv'
<1>1. /\ call[t].at = "unlock"
      /\ IF call[t].name = "registerClass" THEN write_unlock(t) ELSE read_unlock(t)
      /\ call' = [call EXCEPT ![t] = Out]
      /\ UNCHANGED <<pageTable, size, identityHash, answer>>
  BY DEF Unlock
<1>2. MutexInv' /\ holds' = [holds EXCEPT ![t] = "no"]
  <2>1. holds[t] = IF call[t].name = "registerClass" THEN "write" ELSE "read"
    BY <1>1 DEF IInv, LocksHeld
  <2>2. CASE call[t].name = "registerClass" BY <1>1, <2>1, <2>2, WriteUnlockMutexInv DEF IInv
  <2>3. CASE call[t].name # "registerClass" BY <1>1, <2>1, <2>3, ReadUnlockMutexInv DEF IInv
  <2>4. QED BY <2>2, <2>3
<1>3. /\ call' \in [Threads -> CallRecords]
      /\ call'[t] = [name |-> "none", class |-> Nil, index |-> 0, at |-> "out"]
      /\ \A u \in Threads : u # t => call'[u] = call[u]
  <2>1. Out \in CallRecords BY DEF Out, CallRecords
  <2>2. QED BY <1>1, <2>1 DEF IInv, CallType, Out
<1>4. CallType' BY <1>1, <1>3 DEF IInv, CallType, InTableToRead, InTableToWrite
<1>5. LocksHeld'
  <2>1. holds'[t] = "no" /\ \A u \in Threads : u # t => holds'[u] = holds[u]
    BY <1>2 DEF IInv, MutexInv, MutexType
  <2>2. QED BY <2>1, <1>3 DEF IInv, LocksHeld, InTableToRead, InTableToWrite
<1>6. TableType' BY <1>1 DEF IInv, TableType, pageIndex
<1>7. \A i, c : Names(i, c) => Names(i, c)'
  BY <1>1, <1>3, NamesStay DEF Growing
<1>8. TableInv'
  BY <1>1, <1>3, <1>7 DEF IInv, TableInv, Entry, pageIndex, elementIndex
<1>9. InstancesKnowTheirClass' BY <1>1 DEF IInv, InstancesKnowTheirClass
<1>10. QED BY <1>2, <1>4, <1>5, <1>6, <1>8, <1>9 DEF IInv

\* A wake-up for no reason, and a step that changes nothing, leave the table
\* and the owners of the lock as they are.
LEMMA TableStays ==
  ASSUME IInv, MutexInv', UNCHANGED <<holds, tableVars>>
  PROVE  IInv'
<1>1. CallType' /\ LocksHeld' /\ InstancesKnowTheirClass'
  BY DEF IInv, CallType, LocksHeld, InstancesKnowTheirClass, InTableToRead, InTableToWrite, tableVars
<1>2. TableType' BY DEF IInv, TableType, pageIndex, tableVars
<1>3. UNCHANGED <<pageTable, size, identityHash, call>> BY DEF tableVars
<1>4. \A i, c : Names(i, c) => Names(i, c)' BY <1>3, NamesStay DEF Growing
<1>5. TableInv'
  BY <1>3, <1>4 DEF IInv, TableInv, Entry, pageIndex, elementIndex
<1>6. QED BY <1>1, <1>2, <1>5 DEF IInv

\* A spurious wake-up preserves the invariant.
LEMMA SpuriousStep ==
  ASSUME IInv, NEW t \in Threads, SpuriousWakeup(t), UNCHANGED tableVars
  PROVE  IInv'
<1>1. UNCHANGED <<readCount, writeCount, holds, failed>>
      /\ noReadCondition' \subseteq noReadCondition
      /\ noReadWriteCondition' \subseteq noReadWriteCondition
  BY DEF SpuriousWakeup
<1>2. MutexInv'
  BY <1>1 DEF IInv, MutexInv, MutexType, Exclusive, NoLostWakeup, Readers, Writers
<1>3. QED BY <1>1, <1>2, TableStays

\* Every step preserves the invariant.
LEMMA NextInv == IInv /\ [Next]_vars => IInv'
<1> SUFFICES ASSUME IInv, [Next]_vars PROVE IInv' OBVIOUS
<1>1. CASE Next
  <2>1. PICK t \in Threads : ThreadStep(t) BY <1>1 DEF Next
  <2>2. ASSUME NEW c \in Classes, CallLookup(t, c) \/ CallRegister(t, c) PROVE IInv'
    BY <2>2, CallLookupStep, CallRegisterStep
  <2>3. CASE LockToRead(t) BY <2>3, LockToReadStep
  <2>4. CASE CheckIndex(t) BY <2>4, CheckIndexStep
  <2>5. CASE ReadEntry(t) BY <2>5, ReadEntryStep
  <2>6. CASE LockToWrite(t) BY <2>6, LockToWriteStep
  <2>7. CASE StoreEntry(t) BY <2>7, StoreEntryStep
  <2>8. CASE SetHash(t) BY <2>8, SetHashStep
  <2>9. CASE Grow(t) BY <2>9, GrowStep
  <2>10. CASE Unlock(t) BY <2>10, UnlockStep
  <2>11. CASE SpuriousWakeup(t) /\ UNCHANGED tableVars BY <2>11, SpuriousStep
  <2>12. QED
    BY <2>1, <2>2, <2>3, <2>4, <2>5, <2>6, <2>7, <2>8, <2>9, <2>10, <2>11 DEF ThreadStep
<1>2. CASE UNCHANGED vars
  <2>1. UNCHANGED mutexVars /\ UNCHANGED tableVars BY <1>2 DEF vars
  <2>2. MutexInv'
    BY <2>1 DEF IInv, MutexInv, MutexType, Exclusive, NoLostWakeup, Readers, Writers, mutexVars
  <2>3. QED BY <2>1, <2>2, TableStays DEF mutexVars
<1>3. QED BY <1>1, <1>2

----------------------------------------------------------------------------
(***************************************************************************)
(* The theorems.                                                           *)
(***************************************************************************)

\* The inductive invariant: a thread in the table holds its lock, and every
\* index that was ever given to a class names it, or will when the table grows.
THEOREM InvariantHolds == Spec => []IInv
<1>1. Init => IInv BY InitInv
<1>2. IInv /\ [Next]_vars => IInv' BY NextInv
<1>3. QED BY <1>1, <1>2, PTL DEF Spec

\* The fields of SharedMutex and ClassTable have their types, and registerClass
\* allocates every page before it writes on it.
THEOREM TypeCorrect == Spec => []TypeOK
<1>1. IInv => TypeOK
  BY DEF IInv, MutexInv, TypeOK, TableType, PageType
<1>2. QED BY <1>1, InvariantHolds, PTL

\* SharedMutex: readCount and writeCount count the owners, and whoever has it
\* to write has it alone.
THEOREM LockIsExclusive == Spec => []Exclusive
<1>1. IInv => Exclusive BY DEF IInv, MutexInv
<1>2. QED BY <1>1, InvariantHolds, PTL

\* SharedMutex: write_unlock leaves no reader asleep.
THEOREM NoWakeupIsLost == Spec => []NoLostWakeup
<1>1. IInv => NoLostWakeup BY DEF IInv, MutexInv
<1>2. QED BY <1>1, InvariantHolds, PTL

\* ClassTable: getClassFromIndex answers, for the index in the header of an
\* object, the class the object was created with, also while registerClass runs.
THEOREM InstancesFindTheirClass == Spec => []InstancesKnowTheirClass
<1>1. IInv => InstancesKnowTheirClass BY DEF IInv
<1>2. QED BY <1>1, InvariantHolds, PTL
=============================================================================
