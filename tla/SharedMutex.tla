----------------------------- MODULE SharedMutex -----------------------------
(***************************************************************************)
(* SharedMutex of include/Lodtalk/Synchronization.hpp: many readers or one *)
(* writer.  Its operations run under a std::mutex, so each of them is one  *)
(* step; a thread that has to wait goes to sleep on one of the two         *)
(* condition variables, and starts over when it is woken up.  A failed     *)
(* assertion ends the process.                                             *)
(***************************************************************************)
EXTENDS Integers, FiniteSets

CONSTANT Threads

ASSUME ThreadsAssumption == IsFiniteSet(Threads)

VARIABLES
  readCount, writeCount,
  noReadCondition,       \* threads asleep on it: writers
  noReadWriteCondition,  \* threads asleep on it: readers
  holds,                 \* what a thread has locked: "no", "read" or "write"
  failed                 \* an assertion has failed

mutexVars == <<readCount, writeCount, noReadCondition, noReadWriteCondition, holds, failed>>

Asleep  == noReadCondition \cup noReadWriteCondition
Readers == {t \in Threads : holds[t] = "read"}
Writers == {t \in Threads : holds[t] = "write"}

MutexInit ==
  /\ readCount = 0 /\ writeCount = 0
  /\ noReadCondition = {} /\ noReadWriteCondition = {}
  /\ holds = [t \in Threads |-> "no"]
  /\ failed = FALSE

\* What may be left asleep after notify_one on a condition variable.
AfterNotifyOne(asleep) == IF asleep = {} THEN {{}} ELSE {asleep \ {t} : t \in asleep}

Abort ==
  /\ failed' = TRUE
  /\ UNCHANGED <<readCount, writeCount, noReadCondition, noReadWriteCondition, holds>>

\* Faulty variant: readers do not wait for the writer.
ReadLockWithoutWait(t) ==
  /\ t \notin Asleep
  /\ readCount' = readCount + 1
  /\ holds' = [holds EXCEPT ![t] = "read"]
  /\ UNCHANGED <<writeCount, noReadCondition, noReadWriteCondition, failed>>

read_lock(t) ==
  /\ t \notin Asleep
  /\ IF writeCount # 0
     THEN /\ noReadWriteCondition' = noReadWriteCondition \cup {t}
          /\ UNCHANGED <<readCount, holds>>
     ELSE /\ readCount' = readCount + 1
          /\ holds' = [holds EXCEPT ![t] = "read"]
          /\ UNCHANGED noReadWriteCondition
  /\ UNCHANGED <<writeCount, noReadCondition, failed>>

read_unlock(t) ==
  IF writeCount = 0 /\ readCount > 0
  THEN /\ readCount' = readCount - 1
       /\ holds' = [holds EXCEPT ![t] = "no"]
       /\ noReadCondition' \in IF readCount = 1 THEN AfterNotifyOne(noReadCondition)
                                                ELSE {noReadCondition}
       /\ UNCHANGED <<writeCount, noReadWriteCondition, failed>>
  ELSE Abort

\* Faulty variant: the second assertion is missing.
WriteLockBesideWriter(t) ==
  /\ t \notin Asleep
  /\ IF readCount = 0
     THEN /\ writeCount' = 1
          /\ holds' = [holds EXCEPT ![t] = "write"]
          /\ UNCHANGED <<readCount, noReadCondition, noReadWriteCondition, failed>>
     ELSE Abort

\* The loop waits while there are a writer and readers, which is never: a
\* thread that finds one or the other runs into the assertions after the loop.
write_lock(t) ==
  /\ t \notin Asleep
  /\ IF writeCount # 0 /\ readCount # 0
     THEN /\ noReadCondition' = noReadCondition \cup {t}
          /\ UNCHANGED <<readCount, writeCount, noReadWriteCondition, holds, failed>>
     ELSE IF readCount = 0 /\ writeCount = 0
     THEN /\ writeCount' = 1
          /\ holds' = [holds EXCEPT ![t] = "write"]
          /\ UNCHANGED <<readCount, noReadCondition, noReadWriteCondition, failed>>
     ELSE Abort

\* Faulty variant: one of the readers is woken up.
WriteUnlockNotifyOne(t) ==
  IF writeCount = 1 /\ readCount = 0
  THEN /\ writeCount' = 0
       /\ holds' = [holds EXCEPT ![t] = "no"]
       /\ noReadCondition' \in AfterNotifyOne(noReadCondition)
       /\ noReadWriteCondition' \in AfterNotifyOne(noReadWriteCondition)
       /\ UNCHANGED <<readCount, failed>>
  ELSE Abort

write_unlock(t) ==
  IF writeCount = 1 /\ readCount = 0
  THEN /\ writeCount' = 0
       /\ holds' = [holds EXCEPT ![t] = "no"]
       /\ noReadCondition' \in AfterNotifyOne(noReadCondition)
       /\ noReadWriteCondition' = {}
       /\ UNCHANGED <<readCount, failed>>
  ELSE Abort

\* A condition variable may wake a thread up for no reason.
SpuriousWakeup(t) ==
  /\ t \in Asleep
  /\ noReadCondition' = noReadCondition \ {t}
  /\ noReadWriteCondition' = noReadWriteCondition \ {t}
  /\ UNCHANGED <<readCount, writeCount, holds, failed>>

----------------------------------------------------------------------------
MutexType ==
  /\ readCount \in Int /\ writeCount \in {0, 1}
  /\ noReadCondition \subseteq Threads /\ noReadWriteCondition \subseteq Threads
  /\ holds \in [Threads -> {"no", "read", "write"}]
  /\ failed \in BOOLEAN

\* The counters count the threads that hold the lock, and a writer holds it
\* alone: what the two assertions of each operation rely on.
Exclusive ==
  /\ readCount = Cardinality(Readers)
  /\ writeCount = Cardinality(Writers)
  /\ Writers # {} => Readers = {}

\* No wake-up is lost: a reader is asleep only while there is a writer that
\* will wake it up.
NoLostWakeup == noReadWriteCondition # {} => writeCount = 1

\* What write_lock asserts when its loop has ended: assert(readCount == 0) and
\* assert(writeCount == 0).
AssertionsHold == ~failed
=============================================================================
