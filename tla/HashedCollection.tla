-------------------------- MODULE HashedCollection --------------------------
(***************************************************************************)
(* The open addressing of HashedCollection and MethodDictionary in         *)
(* include/Lodtalk/Collections.hpp.  A table is a record of the fields of  *)
(* the C++ object; a slot of keyValues is Nil when it is free, and a       *)
(* record with the key and what the collection keeps for it otherwise.     *)
(***************************************************************************)
EXTENDS Integers, FiniteSetsExt

CONSTANTS
  Nil,
  Hash,           \* key -> identityHashOf(key)
  FirstCapacity   \* 16 in the code

ASSUME HashAssumption ==
  /\ FirstCapacity \in Nat \ {0}
  /\ \A key \in DOMAIN Hash : Hash[key] \in Nat

EmptyTable(capacity) ==
  [capacity |-> capacity, tally |-> 0, keyValues |-> [i \in 0..(capacity - 1) |-> Nil]]

Used(table) == {i \in DOMAIN table.keyValues : table.keyValues[i] # Nil}

\* The slot with the key, or the free slot it would go to: the first of them
\* from the hash on, around the end of the table.  -1 when there is none.
findKeyPosition(table, key) ==
  LET start    == Hash[key] % table.capacity
      probe(n) == (start + n) % table.capacity
      stops    == {n \in 0..(table.capacity - 1) :
                     LET slot == table.keyValues[probe(n)]
                     IN slot = Nil \/ slot.key = key}
  IN IF stops = {} THEN -1 ELSE probe(Min(stops))

\* Faulty variant: the table may be filled up.
TooFullWhenFull(table) == table.tally > table.capacity

\* More than 80% of the capacity, computed on tagged integers.
TooFull(table) == 2 * table.tally + 1 > ((2 * table.capacity + 1) * 4) \div 5

NextCapacity(table) == IF table.capacity = 0 THEN FirstCapacity ELSE 2 * table.capacity

Store(table, i, slot) ==
  [capacity  |-> table.capacity,
   tally     |-> IF table.keyValues[i] = Nil THEN table.tally + 1 ELSE table.tally,
   keyValues |-> [table.keyValues EXCEPT ![i] = slot]]

\* Faulty variant: the slots are copied to where they were.
CopyOnIncrease(table) ==
  [EmptyTable(NextCapacity(table)) EXCEPT
     !.tally = Cardinality(Used(table)),
     !.keyValues = [i \in DOMAIN @ |-> IF i \in Used(table) THEN table.keyValues[i] ELSE Nil]]

\* setCapacity puts the old slots, in their order, into an empty table.
increaseCapacity(table) ==
  LET moved[n \in 0..table.capacity] ==
        IF n = 0 THEN EmptyTable(NextCapacity(table))
        ELSE LET new  == moved[n - 1]
                 slot == table.keyValues[n - 1]
             IN IF slot = Nil THEN new
                ELSE Store(new, findKeyPosition(new, slot.key), slot)
  IN moved[table.capacity]

\* The table that has a place for the key, and the table after the slot is
\* written: it grows when the slot was free and the table is too full now.
WithPlaceFor(table, key) ==
  IF findKeyPosition(table, key) < 0 THEN increaseCapacity(table) ELSE table

PutAt(table, key, slot) ==
  LET roomy  == WithPlaceFor(table, key)
      i      == findKeyPosition(roomy, key)
      stored == Store(roomy, i, slot)
  IN IF roomy.keyValues[i] = Nil /\ TooFull(stored) THEN increaseCapacity(stored) ELSE stored

\* The slot with the key, or Nil.
SlotAt(table, key) ==
  LET i == findKeyPosition(table, key)
  IN IF i < 0 THEN Nil ELSE table.keyValues[i]

----------------------------------------------------------------------------
IsTable(table, Slots) ==
  /\ table.capacity \in Nat /\ table.tally \in Nat
  /\ table.keyValues \in [0..(table.capacity - 1) -> Slots \cup {Nil}]

\* There is a free slot, so that every search ends, and growing the table never
\* makes it grow again while its slots are moved.
HasRoom(table) ==
  table.capacity # 0 => ~TooFull(table) /\ Cardinality(Used(table)) < table.capacity
=============================================================================
