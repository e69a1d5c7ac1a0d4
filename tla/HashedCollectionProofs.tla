----------------------- MODULE HashedCollectionProofs -----------------------
(***************************************************************************)
(* Lemmas about HashedCollection: a search ends where the key is or at a   *)
(* free slot, a table answers for each key the slot that was put last, and *)
(* a table that grows keeps its slots, for any hashes and capacities.      *)
(***************************************************************************)
EXTENDS HashedCollection, FiniteSetsExt, FiniteSetTheorems, WellFoundedInduction, TLAPS

----------------------------------------------------------------------------
(***************************************************************************)
(* Natural numbers: least elements, induction stated with a set, and the   *)
(* remainder.                                                              *)
(***************************************************************************)
\* The numbers below another one precede it in their well-founded order.
LEMMA Precedes == \A x, y \in Nat : x < y => <<x, y>> \in OpToRel(<, Nat)
BY DEF OpToRel

\* Every set of natural numbers has a least element.
LEMMA LeastNatural ==
  ASSUME NEW S \in SUBSET Nat, S # {}
  PROVE  Min(S) \in S /\ \A y \in S : Min(S) <= y
<1>1. PICK x \in S : \A y \in S : ~(<<y, x>> \in OpToRel(<, Nat))
  BY NatLessThanWellFounded, WFMin, Zenon
<1>2. \A y \in S : ~(y < x)
  BY <1>1, Precedes, Zenon
<1>3. \A y \in S : x <= y
  BY <1>2
<1> QED BY <1>3, Zenon DEF Min

\* Induction, for a set of natural numbers.
LEMMA SetInduction ==
  ASSUME NEW S \in SUBSET Nat, 0 \in S, \A n \in S : n + 1 \in S
  PROVE  S = Nat
<1>1. SUFFICES ASSUME Nat \ S # {} PROVE FALSE
  BY Zenon
<1> DEFINE x == Min(Nat \ S)
<1>2. x \in Nat \ S /\ \A y \in Nat \ S : x <= y
  BY <1>1, LeastNatural
<1>3. x - 1 \in Nat
  BY <1>2
<1>4. x - 1 \in S
  BY <1>2, <1>3
<1>5. (x - 1) + 1 = x
  BY <1>2
<1> QED BY <1>2, <1>4, <1>5

\* The remainder of a number below twice the divisor.
LEMMA Remainder ==
  ASSUME NEW c \in Nat \ {0}, NEW x \in Nat
  PROVE  /\ x % c \in 0..(c - 1)
         /\ x < c => x % c = x
         /\ c <= x /\ x < 2 * c => x % c = x - c
<1>1. x % c \in 0..(c - 1) /\ x \div c \in Int /\ x = c * (x \div c) + (x % c)
  OBVIOUS
<1>2. ASSUME x < c PROVE x % c = x
  BY <1>1, <1>2
<1>3. ASSUME c <= x, x < 2 * c PROVE x % c = x - c
  BY <1>1, <1>3
<1> QED BY <1>1, <1>2, <1>3

----------------------------------------------------------------------------
(***************************************************************************)
(* The search.  Probe is the slot that is looked at in the n-th place, and *)
(* Stops are the places at which the search may end.                       *)
(***************************************************************************)
Positions(table) == 0..(table.capacity - 1)
Probe(table, key, n) == ((Hash[key] % table.capacity) + n) % table.capacity
Ends(table, key, i) == table.keyValues[i] = Nil \/ table.keyValues[i].key = key
Stops(table, key) == {n \in Positions(table) : Ends(table, key, Probe(table, key, n))}

\* Slots are records with a hashed key, and a free slot is none of them.
AreSlots(Slots) == Nil \notin Slots /\ \A slot \in Slots : slot.key \in DOMAIN Hash

\* The search ends at the first position that stops it.
LEMMA FindIsFirstStop ==
  ASSUME NEW table, NEW key
  PROVE  findKeyPosition(table, key)
           = IF Stops(table, key) = {} THEN -1 ELSE Probe(table, key, Min(Stops(table, key)))
BY DEF findKeyPosition, Stops, Ends, Probe, Positions

\* The search visits positions of the table only, and every one of them.
LEMMA ProbesArePositions ==
  ASSUME NEW table, table.capacity \in Nat \ {0}, NEW key \in DOMAIN Hash
  PROVE  /\ \A n \in Positions(table) : Probe(table, key, n) \in Positions(table)
         /\ \A i \in Positions(table) : \E n \in Positions(table) : Probe(table, key, n) = i
<1> DEFINE c == table.capacity
           h == Hash[key] % table.capacity
<1>1. Hash[key] \in Nat
  BY HashAssumption
<1>2. h \in 0..(c - 1)
  BY <1>1, Remainder
<1>3. \A n \in Positions(table) : Probe(table, key, n) \in Positions(table)
  <2> TAKE n \in Positions(table)
  <2>1. h + n \in Nat
    BY <1>2 DEF Positions
  <2> HIDE DEF h
  <2>2. (h + n) % c \in 0..(c - 1)
    BY <2>1, Remainder
  <2> QED BY <2>2 DEF Probe, Positions, h
<1>4. \A i \in Positions(table) : \E n \in Positions(table) : Probe(table, key, n) = i
  <2> TAKE i \in Positions(table)
  <2> DEFINE n == IF h <= i THEN i - h ELSE i - h + c
  <2>1. n \in Positions(table) /\ h + n \in Nat
    BY <1>2 DEF Positions
  <2>2. h + n = i \/ h + n = i + c
    BY <1>2 DEF Positions
  <2>3. i \in Nat /\ i < c /\ c \in Nat \ {0} /\ i + c \in Nat /\ c <= i + c /\ i + c < 2 * c
    BY DEF Positions
  <2> HIDE DEF h, n
  <2>4. (h + n) % c = i
    <3>1. CASE h + n = i
      <4>1. i % c = i BY <2>3, Remainder
      <4> QED BY <3>1, <4>1
    <3>2. CASE h + n = i + c
      <4>1. (i + c) % c = (i + c) - c BY <2>3, Remainder
      <4> QED BY <3>2, <4>1, <2>3
    <3> QED BY <2>2, <3>1, <3>2
  <2> QED BY <2>1, <2>4 DEF Probe, h
<1> QED BY <1>3, <1>4

\* A search that has a place to end at ends at the first of them.
LEMMA SearchEnds ==
  ASSUME NEW table, table.capacity \in Nat \ {0}, NEW key \in DOMAIN Hash,
         NEW i \in Positions(table), Ends(table, key, i)
  PROVE  \E n \in Stops(table, key) :
            /\ findKeyPosition(table, key) = Probe(table, key, n)
            /\ \A m \in Stops(table, key) : n <= m
<1>1. PICK n \in Positions(table) : Probe(table, key, n) = i
  BY ProbesArePositions
<1>2. Stops(table, key) # {} /\ Stops(table, key) \in SUBSET Nat
  BY <1>1 DEF Stops, Positions
<1>3. /\ Min(Stops(table, key)) \in Stops(table, key)
      /\ \A m \in Stops(table, key) : Min(Stops(table, key)) <= m
  BY <1>2, LeastNatural
<1> QED BY <1>2, <1>3, FindIsFirstStop

\* The slot that is found is a slot of the table: it is free or has the key.
LEMMA FoundSlot ==
  ASSUME NEW table, table.capacity \in Nat \ {0}, NEW key \in DOMAIN Hash,
         NEW i \in Positions(table), Ends(table, key, i)
  PROVE  /\ findKeyPosition(table, key) \in Positions(table)
         /\ Ends(table, key, findKeyPosition(table, key))
<1>1. PICK n \in Stops(table, key) : findKeyPosition(table, key) = Probe(table, key, n)
  BY SearchEnds
<1>2. n \in Positions(table) /\ Ends(table, key, Probe(table, key, n))
  BY DEF Stops
<1> QED BY <1>1, <1>2, ProbesArePositions

\* The first place at which the search may end is where it ends.
LEMMA FirstStopIsFound ==
  ASSUME NEW table, NEW key, NEW n \in Stops(table, key), table.capacity \in Nat,
         \A m \in Stops(table, key) : n <= m
  PROVE  findKeyPosition(table, key) = Probe(table, key, n)
<1>1. Stops(table, key) # {} /\ Stops(table, key) \in SUBSET Nat
  BY DEF Stops, Positions
<1>2. /\ Min(Stops(table, key)) \in Stops(table, key)
      /\ \A m \in Stops(table, key) : Min(Stops(table, key)) <= m
  BY <1>1, LeastNatural
<1>3. Min(Stops(table, key)) = n
  BY <1>1, <1>2
<1> QED BY <1>1, <1>3, FindIsFirstStop

----------------------------------------------------------------------------
(***************************************************************************)
(* Tables.  In one that is Findable the search for the key of a slot ends  *)
(* at that slot; Contents are the slots it has.                            *)
(***************************************************************************)
Tables(capacity, Slots) ==
  [capacity : {capacity}, tally : Nat, keyValues : [0..(capacity - 1) -> Slots \cup {Nil}]]
WellFormed(table, Slots) == table.capacity \in Nat /\ table \in Tables(table.capacity, Slots)
Findable(table) == \A i \in Used(table) : findKeyPosition(table, table.keyValues[i].key) = i
Contents(table) == {table.keyValues[i] : i \in Used(table)}

\* The fields of a table that is well formed.
LEMMA TableFields ==
  ASSUME NEW Slots, NEW table, WellFormed(table, Slots)
  PROVE  /\ IsTable(table, Slots)
         /\ table.capacity \in Nat /\ table.tally \in Nat
         /\ table.keyValues \in [Positions(table) -> Slots \cup {Nil}]
         /\ \A i \in Used(table) : i \in Positions(table) /\ table.keyValues[i] \in Slots
BY DEF WellFormed, Tables, IsTable, Positions, Used

\* An empty table is well formed and has no slots.
LEMMA EmptyTableIsWellFormed ==
  ASSUME NEW Slots, NEW capacity \in Nat
  PROVE  LET table == EmptyTable(capacity)
         IN /\ WellFormed(table, Slots) /\ Findable(table) /\ Used(table) = {} /\ Contents(table) = {}
            /\ table.tally = 0 /\ table.capacity = capacity
BY DEF EmptyTable, WellFormed, Tables, Findable, Used, Contents

\* Storing a slot changes one position, and the tally when it was free.
LEMMA StoredFields ==
  ASSUME NEW Slots, NEW table, WellFormed(table, Slots),
         NEW i \in Positions(table), NEW slot \in Slots \cup {Nil}
  PROVE  LET new == Store(table, i, slot)
         IN /\ WellFormed(new, Slots)
            /\ new.capacity = table.capacity
            /\ new.keyValues = [table.keyValues EXCEPT ![i] = slot]
            /\ new.tally = IF table.keyValues[i] = Nil THEN table.tally + 1 ELSE table.tally
<1>1. /\ table.tally \in Nat /\ table.capacity \in Nat
      /\ table.keyValues \in [0..(table.capacity - 1) -> Slots \cup {Nil}]
  BY DEF WellFormed, Tables
<1> QED BY <1>1 DEF Store, WellFormed, Tables, Positions

\* A table answers the slot with the key, or nil when it has none.
LEMMA SlotAtAnswers ==
  ASSUME NEW Slots, AreSlots(Slots), NEW table, WellFormed(table, Slots), Findable(table),
         NEW key \in DOMAIN Hash
  PROVE  /\ \A slot \in Contents(table) : slot.key = key => SlotAt(table, key) = slot
         /\ (\A slot \in Contents(table) : slot.key # key) => SlotAt(table, key) = Nil
<1>1. ASSUME NEW i \in Used(table), table.keyValues[i].key = key
      PROVE  SlotAt(table, key) = table.keyValues[i]
  <2>1. findKeyPosition(table, key) = i
    BY <1>1 DEF Findable
  <2>2. i \in Nat
    BY TableFields DEF Positions
  <2> QED BY <2>1, <2>2 DEF SlotAt
<1>2. ASSUME \A slot \in Contents(table) : slot.key # key
      PROVE  SlotAt(table, key) = Nil
  <2>1. CASE Stops(table, key) = {}
    BY <2>1, FindIsFirstStop DEF SlotAt
  <2>2. CASE Stops(table, key) # {}
    <3>1. PICK m \in Stops(table, key) : TRUE
      BY <2>2
    <3>2. m \in Positions(table) /\ Ends(table, key, Probe(table, key, m))
      BY DEF Stops
    <3>3. table.capacity \in Nat \ {0}
      BY <3>2, TableFields DEF Positions
    <3>4. Probe(table, key, m) \in Positions(table)
      BY <3>2, <3>3, ProbesArePositions
    <3>5. /\ findKeyPosition(table, key) \in Positions(table)
          /\ Ends(table, key, findKeyPosition(table, key))
      BY <3>2, <3>3, <3>4, FoundSlot
    <3>6. table.keyValues[findKeyPosition(table, key)] = Nil
      <4>1. table.keyValues[findKeyPosition(table, key)] # Nil
              => findKeyPosition(table, key) \in Used(table)
        BY <3>5, TableFields DEF Used
      <4> QED BY <1>2, <3>5, <4>1 DEF Ends, Contents
    <3> QED BY <3>5, <3>6 DEF SlotAt, Positions
  <2> QED BY <2>1, <2>2
<1> QED BY <1>1, <1>2 DEF Contents

\* A slot that is stored where the search for its key ends is found, and hides
\* no other one.
LEMMA StoreKeepsFindable ==
  ASSUME NEW Slots, AreSlots(Slots), NEW table, WellFormed(table, Slots), Findable(table),
         NEW slot \in Slots, NEW i \in Positions(table),
         i = findKeyPosition(table, slot.key), Ends(table, slot.key, i)
  PROVE  LET new == Store(table, i, slot)
         IN /\ Findable(new)
            /\ Used(new) = Used(table) \cup {i}
            /\ Contents(new) = {s \in Contents(table) : s.key # slot.key} \cup {slot}
<1> DEFINE new == Store(table, i, slot)
<1>1. /\ WellFormed(new, Slots) /\ new.capacity = table.capacity
      /\ new.keyValues = [table.keyValues EXCEPT ![i] = slot]
  BY StoredFields
<1>2. /\ Positions(new) = Positions(table)
      /\ table.keyValues \in [Positions(table) -> Slots \cup {Nil}]
      /\ table.capacity \in Nat \ {0} /\ slot.key \in DOMAIN Hash /\ slot # Nil
  BY <1>1, TableFields DEF Positions, AreSlots
<1>3. \A key, n : Probe(new, key, n) = Probe(table, key, n)
  BY <1>1 DEF Probe
<1>4. new.keyValues[i] = slot /\ \A j \in Positions(table) : j # i => new.keyValues[j] = table.keyValues[j]
  BY <1>1, <1>2
<1> HIDE DEF new
<1>5. Used(new) = Used(table) \cup {i}
  BY <1>1, <1>2, <1>4 DEF Used
<1>6. findKeyPosition(new, slot.key) = i
  <2>1. PICK n \in Stops(table, slot.key) :
           i = Probe(table, slot.key, n) /\ \A m \in Stops(table, slot.key) : n <= m
    BY <1>2, SearchEnds
  <2>2. n \in Stops(new, slot.key)
    BY <1>2, <1>3, <1>4, <2>1 DEF Stops, Ends
  <2>3. \A m \in Stops(new, slot.key) : n <= m
    <3> SUFFICES ASSUME NEW m \in Stops(new, slot.key), m \notin Stops(table, slot.key) PROVE n <= m
      BY <2>1
    <3>1. m \in Positions(table) /\ Ends(new, slot.key, Probe(table, slot.key, m))
      BY <1>2, <1>3 DEF Stops
    <3>2. Probe(table, slot.key, m) \in Positions(table)
      BY <1>2, <3>1, ProbesArePositions
    <3>3. Probe(table, slot.key, m) # i => Ends(table, slot.key, Probe(table, slot.key, m))
      BY <1>4, <3>1, <3>2 DEF Ends
    <3>4. Probe(table, slot.key, m) = i => Ends(table, slot.key, Probe(table, slot.key, m))
      OBVIOUS
    <3> QED BY <3>1, <3>3, <3>4 DEF Stops
  <2>4. findKeyPosition(new, slot.key) = Probe(new, slot.key, n)
    BY <1>1, <1>2, <2>2, <2>3, FirstStopIsFound
  <2> QED BY <1>3, <2>1, <2>4
<1>7. ASSUME NEW j \in Used(table), j # i
      PROVE  findKeyPosition(new, table.keyValues[j].key) = j /\ table.keyValues[j].key # slot.key
  <2> DEFINE key == table.keyValues[j].key
  <2>1. j \in Positions(table) /\ table.keyValues[j] \in Slots /\ key \in DOMAIN Hash
    BY TableFields DEF AreSlots
  <2>2. findKeyPosition(table, key) = j /\ Ends(table, key, j)
    BY DEF Findable, Ends
  <2>3. key # slot.key
    BY <1>7, <2>2
  <2> HIDE DEF key
  <2>4. PICK n \in Stops(table, key) : j = Probe(table, key, n) /\ \A m \in Stops(table, key) : n <= m
    BY <1>2, <2>1, <2>2, SearchEnds
  <2>5. n \in Stops(new, key)
    BY <1>2, <1>3, <1>4, <1>7, <2>1, <2>4 DEF Stops, Ends
  <2>6. \A m \in Stops(new, key) : n <= m
    <3> SUFFICES ASSUME NEW m \in Stops(new, key), m \notin Stops(table, key) PROVE n <= m
      BY <2>4
    <3>1. m \in Positions(table) /\ Ends(new, key, Probe(table, key, m))
      BY <1>2, <1>3 DEF Stops
    <3>2. Probe(table, key, m) \in Positions(table)
      BY <1>2, <2>1, <3>1, ProbesArePositions
    <3>3. Probe(table, key, m) # i => Ends(table, key, Probe(table, key, m))
      BY <1>4, <3>1, <3>2 DEF Ends
    <3>4. Probe(table, key, m) = i => FALSE
      BY <1>2, <1>4, <2>3, <3>1 DEF Ends
    <3> QED BY <3>1, <3>3, <3>4 DEF Stops
  <2>7. findKeyPosition(new, key) = Probe(new, key, n)
    BY <1>1, <1>2, <2>5, <2>6, FirstStopIsFound
  <2> QED BY <1>3, <2>3, <2>4, <2>7 DEF key
<1>8. \A j \in Used(table) : j # i => new.keyValues[j] = table.keyValues[j]
  BY <1>4, TableFields
<1>9. Findable(new)
  BY <1>4, <1>5, <1>6, <1>7, <1>8 DEF Findable
<1>10. Contents(new) = {s \in Contents(table) : s.key # slot.key} \cup {slot}
  <2>1. ASSUME NEW j \in Used(new)
        PROVE  new.keyValues[j] \in {s \in Contents(table) : s.key # slot.key} \cup {slot}
    BY <1>4, <1>5, <1>7, <1>8 DEF Contents
  <2>2. ASSUME NEW j \in Used(table), table.keyValues[j].key # slot.key
        PROVE  table.keyValues[j] \in Contents(new)
    <3>1. j # i
      BY <2>2 DEF Ends, Used
    <3> QED BY <1>5, <1>8, <3>1 DEF Contents
  <2>3. slot \in Contents(new)
    BY <1>4, <1>5 DEF Contents
  <2> QED BY <2>1, <2>2, <2>3 DEF Contents
<1> QED BY <1>5, <1>9, <1>10 DEF new

----------------------------------------------------------------------------
(***************************************************************************)
(* Growing a table.  MovedSlots is what the recursive function of          *)
(* increaseCapacity is at n, and IsMoving says that f is that function up  *)
(* to a position.                                                          *)
(***************************************************************************)
MovedSlots(table, f, n) ==
  IF n = 0 THEN EmptyTable(NextCapacity(table))
  ELSE IF table.keyValues[n - 1] = Nil THEN f[n - 1]
  ELSE Store(f[n - 1], findKeyPosition(f[n - 1], table.keyValues[n - 1].key), table.keyValues[n - 1])
IsMoving(table, f, last) == f = [n \in 0..last |-> MovedSlots(table, f, n)]

\* The recursive function exists.
LEMMA SomeMoving ==
  ASSUME NEW table, NEW last \in Nat
  PROVE  \E f : IsMoving(table, f, last)
<1> DEFINE S == {k \in Nat : \E f : IsMoving(table, f, k)}
<1>1. 0 \in S
  <2> DEFINE f == [n \in 0..0 |-> EmptyTable(NextCapacity(table))]
  <2>1. IsMoving(table, f, 0)
    <3>1. \A n \in 0..0 : MovedSlots(table, f, n) = EmptyTable(NextCapacity(table))
      BY DEF MovedSlots
    <3> QED BY <3>1 DEF IsMoving
  <2> QED BY <2>1
<1>2. ASSUME NEW k \in S PROVE k + 1 \in S
  <2>1. PICK f : IsMoving(table, f, k)
    OBVIOUS
  <2> DEFINE g == [n \in 0..(k + 1) |-> IF n <= k THEN f[n] ELSE MovedSlots(table, f, n)]
  <2>2. \A n \in 0..k : f[n] = MovedSlots(table, f, n) /\ g[n] = f[n]
    BY <2>1 DEF IsMoving
  <2>3. g[k + 1] = MovedSlots(table, f, k + 1)
    OBVIOUS
  <2>4. g = [n \in 0..(k + 1) |-> g[n]]
    OBVIOUS
  <2> HIDE DEF g
  <2>5. \A n \in 0..(k + 1) : MovedSlots(table, g, n) = MovedSlots(table, f, n)
    <3> TAKE n \in 0..(k + 1)
    <3>1. CASE n = 0
      BY <3>1 DEF MovedSlots
    <3>2. CASE n # 0
      <4>1. n - 1 \in 0..k
        BY <3>2
      <4>2. g[n - 1] = f[n - 1]
        BY <2>2, <4>1
      <4> QED BY <4>2 DEF MovedSlots
    <3> QED BY <3>1, <3>2
  <2>6. \A n \in 0..(k + 1) : g[n] = MovedSlots(table, g, n)
    <3> TAKE n \in 0..(k + 1)
    <3>1. CASE n <= k
      BY <2>2, <2>5, <3>1
    <3>2. CASE n = k + 1
      BY <2>3, <2>5, <3>2
    <3> QED BY <3>1, <3>2
  <2>7. IsMoving(table, g, k + 1)
    BY <2>4, <2>6, Zenon DEF IsMoving
  <2> QED BY <2>7
<1> HIDE DEF S
<1>3. S = Nat
  <2>1. S \in SUBSET Nat
    BY DEF S
  <2> QED BY <1>1, <1>2, <2>1, SetInduction
<1> QED BY <1>3 DEF S

\* increaseCapacity answers the table that the function ends with.
LEMMA IncreaseMoves ==
  ASSUME NEW table, table.capacity \in Nat
  PROVE  \E f : IsMoving(table, f, table.capacity) /\ increaseCapacity(table) = f[table.capacity]
<1> DEFINE f == CHOOSE g : IsMoving(table, g, table.capacity)
<1>1. IsMoving(table, f, table.capacity)
  BY SomeMoving
<1>2. increaseCapacity(table) = f[table.capacity]
  BY Zenon DEF increaseCapacity, IsMoving, MovedSlots
<1> QED BY <1>1, <1>2

\* A table has finitely many slots, and no more than its capacity.
LEMMA UsedIsFinite ==
  ASSUME NEW Slots, NEW table, WellFormed(table, Slots)
  PROVE  IsFiniteSet(Used(table)) /\ Cardinality(Used(table)) \in 0..table.capacity
<1>1. Used(table) \subseteq 0..(table.capacity - 1) /\ table.capacity \in Nat
  BY TableFields DEF Positions
<1>2. IsFiniteSet(0..(table.capacity - 1)) /\ Cardinality(0..(table.capacity - 1)) = table.capacity
  <2> DEFINE last == table.capacity - 1
  <2>1. 0 \in Int /\ last \in Int /\ last + 1 = table.capacity /\ ~(0 > last + 1)
    BY <1>1
  <2> HIDE DEF last
  <2>2. IsFiniteSet(0..last) /\ Cardinality(0..last) = IF 0 > last THEN 0 ELSE last - 0 + 1
    BY <2>1, FS_Interval
  <2>3. IsFiniteSet(0..last) /\ Cardinality(0..last) = table.capacity
    BY <2>1, <2>2
  <2> QED BY <2>3 DEF last
<1>3. IsFiniteSet(Used(table)) /\ Cardinality(Used(table)) <= table.capacity
  BY <1>1, <1>2, FS_Subset
<1>4. Cardinality(Used(table)) \in Nat
  BY <1>3, FS_CardinalityType
<1> QED BY <1>1, <1>3, <1>4

\* A table that has fewer slots than its capacity has a free one.
LEMMA SomeSlotIsFree ==
  ASSUME NEW Slots, NEW table, WellFormed(table, Slots), Cardinality(Used(table)) < table.capacity
  PROVE  \E i \in Positions(table) : table.keyValues[i] = Nil
<1> SUFFICES ASSUME \A i \in Positions(table) : table.keyValues[i] # Nil PROVE FALSE
  OBVIOUS
<1>1. Used(table) = 0..(table.capacity - 1) /\ table.capacity \in Nat
  BY TableFields DEF Positions, Used
<1>2. Cardinality(Used(table)) = table.capacity
  BY <1>1, FS_Interval
<1> QED BY <1>1, <1>2

\* A table grows.
LEMMA NextCapacityIsLarger ==
  ASSUME NEW table, table.capacity \in Nat
  PROVE  NextCapacity(table) \in Nat \ {0} /\ table.capacity < NextCapacity(table)
BY HashAssumption DEF NextCapacity

\* The slots that have been moved when n places have been visited.
MovedFrom(table, n) == {j \in Used(table) : j < n}
HasMoved(table, new, n, Slots) ==
  /\ WellFormed(new, Slots) /\ Findable(new) /\ new.capacity = NextCapacity(table)
  /\ Contents(new) = {table.keyValues[j] : j \in MovedFrom(table, n)}
  /\ Cardinality(Used(new)) = Cardinality(MovedFrom(table, n))
  /\ new.tally = Cardinality(Used(new))

\* One slot is moved.
LEMMA MoveOne ==
  ASSUME NEW Slots, AreSlots(Slots), NEW table, WellFormed(table, Slots), Findable(table),
         NEW n \in Positions(table), table.keyValues[n] # Nil,
         NEW new, HasMoved(table, new, n, Slots)
  PROVE  HasMoved(table,
                  Store(new, findKeyPosition(new, table.keyValues[n].key), table.keyValues[n]),
                  n + 1, Slots)
<1> DEFINE slot == table.keyValues[n]
           i    == findKeyPosition(new, slot.key)
           next == Store(new, i, slot)
<1>1. n \in Used(table) /\ slot \in Slots /\ slot # Nil /\ n \in Nat /\ slot.key \in DOMAIN Hash
  BY TableFields DEF Used, Positions, AreSlots
<1>2. \A j \in MovedFrom(table, n) : table.keyValues[j].key # slot.key
  BY <1>1 DEF MovedFrom, Findable
<1>3. /\ IsFiniteSet(MovedFrom(table, n)) /\ n \notin MovedFrom(table, n)
      /\ MovedFrom(table, n + 1) = MovedFrom(table, n) \cup {n}
  <2>1. \A j \in Used(table) : j \in Int
    BY TableFields DEF Positions
  <2>2. \A j \in Int : j < n + 1 <=> j < n \/ j = n
    BY <1>1
  <2>3. MovedFrom(table, n + 1) = MovedFrom(table, n) \cup {n}
    BY <1>1, <2>1, <2>2, Zenon DEF MovedFrom
  <2>4. n \notin MovedFrom(table, n)
    BY <1>1 DEF MovedFrom
  <2>5. MovedFrom(table, n) \subseteq Used(table)
    BY DEF MovedFrom
  <2> QED BY <2>3, <2>4, <2>5, UsedIsFinite, FS_Subset
<1>4. Cardinality(MovedFrom(table, n + 1)) = Cardinality(MovedFrom(table, n)) + 1
  BY <1>3, FS_AddElement
<1>5. Cardinality(Used(new)) < new.capacity /\ new.capacity \in Nat \ {0}
  <2>1. Cardinality(MovedFrom(table, n)) <= Cardinality(Used(table))
    BY UsedIsFinite, FS_Subset DEF MovedFrom
  <2>2. Cardinality(Used(table)) <= table.capacity /\ table.capacity \in Nat
    BY UsedIsFinite, TableFields
  <2>3. Cardinality(Used(table)) \in Nat /\ Cardinality(MovedFrom(table, n)) \in Nat
    BY UsedIsFinite, <1>3, FS_CardinalityType
  <2>4. NextCapacity(table) \in Nat \ {0} /\ table.capacity < NextCapacity(table)
    BY <2>2, NextCapacityIsLarger
  <2> QED BY <2>1, <2>2, <2>3, <2>4 DEF HasMoved
<1> HIDE DEF i
<1>6. i \in Positions(new) /\ Ends(new, slot.key, i)
  <2>1. PICK j \in Positions(new) : new.keyValues[j] = Nil
    BY <1>5, SomeSlotIsFree DEF HasMoved
  <2> QED BY <1>1, <1>5, <2>1, FoundSlot DEF Ends, i
<1>7. new.keyValues[i] = Nil
  <2> SUFFICES ASSUME new.keyValues[i] # Nil PROVE FALSE
    OBVIOUS
  <2>1. new.keyValues[i] \in Contents(new) /\ new.keyValues[i].key = slot.key
    <3>1. i \in Used(new)
      BY <1>6, TableFields DEF HasMoved, Used
    <3> QED BY <1>6, <3>1 DEF Contents, Ends
  <2> QED BY <1>2, <2>1 DEF HasMoved
<1>8. /\ WellFormed(next, Slots) /\ next.capacity = new.capacity
      /\ next.tally = new.tally + 1
  <2>1. WellFormed(new, Slots) /\ slot \in Slots \cup {Nil}
    BY <1>1 DEF HasMoved
  <2> HIDE DEF slot
  <2> QED BY <1>6, <1>7, <2>1, StoredFields
<1>9. /\ Findable(next) /\ Used(next) = Used(new) \cup {i}
      /\ Contents(next) = {s \in Contents(new) : s.key # slot.key} \cup {slot}
  <2>1. i = findKeyPosition(new, slot.key) /\ WellFormed(new, Slots) /\ Findable(new)
    BY DEF i, HasMoved
  <2> HIDE DEF slot
  <2> QED BY <1>1, <1>6, <2>1, StoreKeepsFindable
<1>10. Contents(next) = {table.keyValues[j] : j \in MovedFrom(table, n + 1)}
  BY <1>2, <1>3, <1>9 DEF HasMoved
<1>11. Cardinality(Used(next)) = Cardinality(Used(new)) + 1
  <2>1. i \notin Used(new)
    BY <1>7 DEF Used
  <2>2. IsFiniteSet(Used(new))
    BY UsedIsFinite DEF HasMoved
  <2> QED BY <1>9, <2>1, <2>2, FS_AddElement
<1> HIDE DEF next
<1>12. HasMoved(table, next, n + 1, Slots)
  BY <1>4, <1>8, <1>9, <1>10, <1>11 DEF HasMoved
<1> QED BY <1>12 DEF next, i

\* A table that grows keeps its slots, and counts them.
LEMMA GrownTable ==
  ASSUME NEW Slots, AreSlots(Slots), NEW table, WellFormed(table, Slots), Findable(table)
  PROVE  LET new == increaseCapacity(table)
         IN /\ WellFormed(new, Slots) /\ Findable(new) /\ Contents(new) = Contents(table)
            /\ new.capacity = NextCapacity(table)
            /\ new.tally = Cardinality(Used(new))
            /\ Cardinality(Used(new)) = Cardinality(Used(table))
<1>1. table.capacity \in Nat
  BY TableFields
<1>2. PICK f : IsMoving(table, f, table.capacity) /\ increaseCapacity(table) = f[table.capacity]
  BY <1>1, IncreaseMoves
<1>3. \A n \in 0..table.capacity : f[n] = MovedSlots(table, f, n)
  BY <1>2 DEF IsMoving
<1> DEFINE S == {n \in Nat : n <= table.capacity => HasMoved(table, f[n], n, Slots)}
<1>4. 0 \in S
  <2>1. MovedFrom(table, 0) = {}
    BY TableFields DEF MovedFrom, Positions
  <2>2. f[0] = EmptyTable(NextCapacity(table)) /\ NextCapacity(table) \in Nat
    BY <1>1, <1>3, NextCapacityIsLarger DEF MovedSlots
  <2>3. Cardinality({}) = 0
    BY FS_EmptySet
  <2> QED BY <2>1, <2>2, <2>3, EmptyTableIsWellFormed DEF HasMoved
<1>5. ASSUME NEW n \in S PROVE n + 1 \in S
  <2> SUFFICES ASSUME n + 1 <= table.capacity PROVE HasMoved(table, f[n + 1], n + 1, Slots)
    OBVIOUS
  <2>1. n \in Positions(table) /\ n + 1 \in 0..table.capacity /\ (n + 1) - 1 = n /\ n + 1 # 0
    BY <1>1 DEF Positions
  <2>2. HasMoved(table, f[n], n, Slots)
    BY <1>1
  <2>3. CASE table.keyValues[n] = Nil
    <3>1. f[n + 1] = f[n]
      BY <1>3, <2>1, <2>3 DEF MovedSlots
    <3>2. \A j \in Used(table) : j \in Int /\ j # n
      BY <2>3, TableFields DEF Used, Positions
    <3>3. MovedFrom(table, n + 1) = MovedFrom(table, n)
      BY <3>2 DEF MovedFrom
    <3> QED BY <2>2, <3>1, <3>3 DEF HasMoved
  <2>4. CASE table.keyValues[n] # Nil
    <3>1. f[n + 1] = Store(f[n], findKeyPosition(f[n], table.keyValues[n].key), table.keyValues[n])
      BY <1>3, <2>1, <2>4 DEF MovedSlots
    <3> QED BY <2>1, <2>2, <2>4, <3>1, MoveOne
  <2> QED BY <2>3, <2>4
<1> HIDE DEF S
<1>6. S = Nat
  <2>1. S \in SUBSET Nat
    BY DEF S
  <2> QED BY <1>4, <1>5, <2>1, SetInduction
<1>7. HasMoved(table, f[table.capacity], table.capacity, Slots)
  BY <1>1, <1>6 DEF S
<1>8. MovedFrom(table, table.capacity) = Used(table)
  BY <1>1, TableFields DEF MovedFrom, Positions
<1> QED BY <1>2, <1>7, <1>8 DEF HasMoved, Contents

----------------------------------------------------------------------------
(***************************************************************************)
(* Putting a slot.  A Good table has room, and counts no less than it      *)
(* keeps: what is put for the key nil is counted and takes no slot.        *)
(***************************************************************************)
Good(table, Slots) ==
  /\ WellFormed(table, Slots) /\ Findable(table)
  /\ HasRoom(table)
  /\ Cardinality(Used(table)) <= table.tally

\* What is written for a key: a slot with the key, or nothing for the key of no slot.
Writes(slot, key, Slots) ==
  \/ slot \in Slots /\ slot.key = key
  \/ slot = Nil /\ \A s \in Slots : s.key # key

Written(contents, key, slot) ==
  IF slot = Nil THEN contents ELSE {s \in contents : s.key # key} \cup {slot}

\* A good table has room: it has no positions, or a free one at which a search ends.
LEMMA GoodTableHasRoom ==
  ASSUME NEW Slots, NEW table, Good(table, Slots)
  PROVE  IsTable(table, Slots) /\ HasRoom(table)
BY TableFields DEF Good

\* The table that a collection begins with is good.
LEMMA EmptyTableIsGood ==
  ASSUME NEW Slots
  PROVE  Good(EmptyTable(0), Slots) /\ Contents(EmptyTable(0)) = {}
<1>1. Cardinality({}) = 0
  BY FS_EmptySet
<1> QED BY <1>1, EmptyTableIsWellFormed DEF Good, HasRoom

\* A table that is not too full has room, and one of twice the capacity is not too
\* full.
LEMMA TooFullBounds ==
  ASSUME NEW c \in Nat \ {0}, NEW t \in Nat
  PROVE  /\ 2 * t + 1 <= ((2 * c + 1) * 4) \div 5 => t < c
         /\ t <= c => 2 * t + 1 <= ((2 * (2 * c) + 1) * 4) \div 5
         /\ 1 <= ((2 * c + 1) * 4) \div 5
<1>1. ASSUME NEW x \in Nat PROVE 5 * (x \div 5) <= x /\ x < 5 * (x \div 5) + 5 /\ x \div 5 \in Int
  OBVIOUS
<1>2. (2 * c + 1) * 4 = 8 * c + 4 /\ (2 * (2 * c) + 1) * 4 = 16 * c + 4 /\ 8 * c + 4 \in Nat /\ 16 * c + 4 \in Nat
  OBVIOUS
<1> DEFINE a == (8 * c + 4) \div 5
           b == (16 * c + 4) \div 5
<1>3. a \in Int /\ b \in Int /\ 5 * a <= 8 * c + 4 /\ 8 * c + 4 < 5 * a + 5 /\ 16 * c + 4 < 5 * b + 5
  BY <1>1, <1>2
<1> HIDE DEF a, b
<1>4. 2 * t + 1 <= a => t < c
  BY <1>3
<1>5. t <= c => 2 * t + 1 <= b
  BY <1>3
<1>6. 1 <= a
  BY <1>3
<1> QED BY <1>2, <1>4, <1>5, <1>6 DEF a, b

\* A table that has grown has room for more.
LEMMA GrownTableHasRoom ==
  ASSUME NEW Slots, AreSlots(Slots), NEW table, WellFormed(table, Slots), Findable(table)
  PROVE  LET new == increaseCapacity(table)
         IN Good(new, Slots) /\ Contents(new) = Contents(table) /\ new.capacity \in Nat \ {0}
<1> DEFINE new == increaseCapacity(table)
           used == Cardinality(Used(table))
<1>1. /\ WellFormed(new, Slots) /\ Findable(new) /\ Contents(new) = Contents(table)
      /\ new.capacity = NextCapacity(table) /\ new.tally = used /\ Cardinality(Used(new)) = used
  BY GrownTable
<1>2. table.capacity \in Nat /\ used \in Nat /\ used <= table.capacity
  BY TableFields, UsedIsFinite
<1>3. NextCapacity(table) \in Nat \ {0} /\ table.capacity < NextCapacity(table)
  BY <1>2, NextCapacityIsLarger
<1> HIDE DEF new, used
<1>4. ~TooFull(new)
  <2>1. CASE table.capacity = 0
    <3>1. used = 0
      BY <1>2, <2>1
    <3>2. 1 <= ((2 * new.capacity + 1) * 4) \div 5
      BY <1>1, <1>3, TooFullBounds
    <3>3. 2 * new.tally + 1 = 1 /\ new.capacity \in Nat
      BY <1>1, <1>3, <3>1
    <3> QED BY <3>2, <3>3 DEF TooFull
  <2>2. CASE table.capacity # 0
    <3>1. new.capacity = 2 * table.capacity
      BY <1>1, <2>2 DEF NextCapacity
    <3>2. 2 * used + 1 <= ((2 * (2 * table.capacity) + 1) * 4) \div 5
      BY <1>2, <2>2, TooFullBounds
    <3>3. 2 * new.tally + 1 <= ((2 * new.capacity + 1) * 4) \div 5
      BY <1>1, <3>1, <3>2
    <3> QED BY <1>1, <1>2, <1>3, <3>3 DEF TooFull
  <2> QED BY <2>1, <2>2
<1>5. Cardinality(Used(new)) < new.capacity /\ Cardinality(Used(new)) <= new.tally
  BY <1>1, <1>2, <1>3
<1> QED BY <1>1, <1>3, <1>4, <1>5 DEF Good, HasRoom, new

\* There is always a place for a key.
LEMMA PlaceForKey ==
  ASSUME NEW Slots, AreSlots(Slots), NEW table, Good(table, Slots), NEW key \in DOMAIN Hash
  PROVE  LET roomy == WithPlaceFor(table, key)
         IN /\ Good(roomy, Slots) /\ Contents(roomy) = Contents(table)
            /\ roomy.capacity \in Nat \ {0}
            /\ findKeyPosition(roomy, key) \in Positions(roomy)
            /\ Ends(roomy, key, findKeyPosition(roomy, key))
<1>1. ASSUME NEW roomy, Good(roomy, Slots), roomy.capacity \in Nat \ {0}
      PROVE  /\ findKeyPosition(roomy, key) \in Positions(roomy)
             /\ Ends(roomy, key, findKeyPosition(roomy, key))
  <2>1. PICK i \in Positions(roomy) : roomy.keyValues[i] = Nil
    BY <1>1, SomeSlotIsFree DEF Good, HasRoom
  <2> QED BY <1>1, <2>1, FoundSlot DEF Ends
<1>2. WellFormed(table, Slots) /\ Findable(table) /\ table.capacity \in Nat
  BY TableFields DEF Good
<1>3. CASE table.capacity = 0
  <2>1. Stops(table, key) = {}
    BY <1>3 DEF Stops, Positions
  <2>2. WithPlaceFor(table, key) = increaseCapacity(table)
    BY <2>1, FindIsFirstStop DEF WithPlaceFor
  <2>3. LET new == increaseCapacity(table)
        IN Good(new, Slots) /\ Contents(new) = Contents(table) /\ new.capacity \in Nat \ {0}
    BY <1>2, GrownTableHasRoom
  <2> QED BY <1>1, <2>2, <2>3
<1>4. CASE table.capacity # 0
  <2>1. /\ findKeyPosition(table, key) \in Positions(table)
        /\ Ends(table, key, findKeyPosition(table, key))
    BY <1>1, <1>2, <1>4
  <2>2. WithPlaceFor(table, key) = table
    BY <2>1 DEF WithPlaceFor, Positions
  <2> QED BY <1>2, <1>4, <2>1, <2>2
<1> QED BY <1>2, <1>3, <1>4

\* The table after the slot is written, before it grows.
LEMMA StoredTable ==
  ASSUME NEW Slots, AreSlots(Slots), NEW table, Good(table, Slots), table.capacity \in Nat \ {0},
         NEW key \in DOMAIN Hash, NEW slot, Writes(slot, key, Slots),
         NEW i \in Positions(table), i = findKeyPosition(table, key), Ends(table, key, i)
  PROVE  LET stored == Store(table, i, slot)
         IN /\ WellFormed(stored, Slots) /\ Findable(stored)
            /\ stored.capacity = table.capacity
            /\ stored.tally = IF table.keyValues[i] = Nil THEN table.tally + 1 ELSE table.tally
            /\ Cardinality(Used(stored)) <= stored.tally
            /\ Contents(stored) = Written(Contents(table), key, slot)
<1> DEFINE stored == Store(table, i, slot)
<1>1. WellFormed(table, Slots) /\ Findable(table) /\ slot \in Slots \cup {Nil}
  BY DEF Good, Writes
<1>2. /\ WellFormed(stored, Slots) /\ stored.capacity = table.capacity
      /\ stored.keyValues = [table.keyValues EXCEPT ![i] = slot]
      /\ stored.tally = IF table.keyValues[i] = Nil THEN table.tally + 1 ELSE table.tally
  BY <1>1, StoredFields
<1>3. /\ IsFiniteSet(Used(table)) /\ Cardinality(Used(table)) \in Nat /\ table.tally \in Nat
      /\ Cardinality(Used(table)) <= table.tally
      /\ table.keyValues \in [Positions(table) -> Slots \cup {Nil}]
  BY <1>1, UsedIsFinite, TableFields DEF Good
<1>4. CASE slot = Nil
  <2>1. table.keyValues[i] = Nil
    <3> SUFFICES ASSUME table.keyValues[i] # Nil PROVE FALSE
      OBVIOUS
    <3>1. table.keyValues[i] \in Slots /\ table.keyValues[i].key = key
      BY <1>3 DEF Ends
    <3> QED BY <1>4, <3>1 DEF Writes, AreSlots
  <2>2. stored.keyValues = table.keyValues
    BY <1>2, <1>3, <1>4, <2>1
  <2> HIDE DEF stored
  <2>3. Used(stored) = Used(table) /\ Contents(stored) = Contents(table)
    BY <2>2 DEF Used, Contents
  <2>4. Findable(stored)
    <3>1. \A k, n : Probe(stored, k, n) = Probe(table, k, n)
      BY <1>2 DEF Probe
    <3>2. \A k : Stops(stored, k) = Stops(table, k)
      BY <1>2, <2>2, <3>1 DEF Stops, Ends, Positions
    <3>3. \A k : findKeyPosition(stored, k) = findKeyPosition(table, k)
      BY <3>1, <3>2, FindIsFirstStop
    <3> QED BY <1>1, <2>2, <2>3, <3>3 DEF Findable
  <2>5. Cardinality(Used(stored)) <= stored.tally
    BY <1>2, <1>3, <2>1, <2>3
  <2> QED BY <1>2, <1>4, <2>3, <2>4, <2>5 DEF Written, stored
<1>5. CASE slot # Nil
  <2>1. slot \in Slots /\ slot.key = key
    BY <1>5 DEF Writes
  <2>2. /\ Findable(stored) /\ Used(stored) = Used(table) \cup {i}
        /\ Contents(stored) = {s \in Contents(table) : s.key # slot.key} \cup {slot}
    BY <1>1, <2>1, StoreKeepsFindable
  <2> HIDE DEF stored
  <2>3. i \in Used(table) <=> table.keyValues[i] # Nil
    BY <1>3 DEF Used
  <2>4. Cardinality(Used(stored)) = IF i \in Used(table) THEN Cardinality(Used(table))
                                    ELSE Cardinality(Used(table)) + 1
    BY <1>3, <2>2, FS_AddElement
  <2>5. Cardinality(Used(stored)) <= stored.tally
    BY <1>2, <1>3, <2>3, <2>4
  <2> QED BY <1>2, <1>5, <2>1, <2>2, <2>5 DEF Written, stored
<1> QED BY <1>4, <1>5

\* Putting a slot replaces the one with its key and keeps the others, whether
\* the table grows before, after, or not at all; and it leaves room.
LEMMA PutTable ==
  ASSUME NEW Slots, AreSlots(Slots), NEW table, Good(table, Slots),
         NEW key \in DOMAIN Hash, NEW slot, Writes(slot, key, Slots)
  PROVE  LET new == PutAt(table, key, slot)
         IN Good(new, Slots) /\ Contents(new) = Written(Contents(table), key, slot)
<1> DEFINE roomy  == WithPlaceFor(table, key)
           i      == findKeyPosition(roomy, key)
           stored == Store(roomy, i, slot)
<1>1. PutAt(table, key, slot)
        = IF roomy.keyValues[i] = Nil /\ TooFull(stored) THEN increaseCapacity(stored) ELSE stored
  BY DEF PutAt
<1>2. /\ Good(roomy, Slots) /\ Contents(roomy) = Contents(table) /\ roomy.capacity \in Nat \ {0}
      /\ i \in Positions(roomy) /\ Ends(roomy, key, i)
  BY PlaceForKey
<1> HIDE DEF roomy
<1>3. /\ WellFormed(stored, Slots) /\ Findable(stored) /\ stored.capacity = roomy.capacity
      /\ stored.tally = IF roomy.keyValues[i] = Nil THEN roomy.tally + 1 ELSE roomy.tally
      /\ Cardinality(Used(stored)) <= stored.tally
      /\ Contents(stored) = Written(Contents(table), key, slot)
  <2>1. i = findKeyPosition(roomy, key)
    OBVIOUS
  <2> HIDE DEF i
  <2> QED BY <1>2, <2>1, StoredTable
<1> HIDE DEF i, stored
<1>4. stored.capacity \in Nat \ {0} /\ stored.tally \in Nat /\ Cardinality(Used(stored)) \in Nat
  BY <1>2, <1>3, TableFields, UsedIsFinite
<1>5. CASE roomy.keyValues[i] = Nil /\ TooFull(stored)
  BY <1>1, <1>3, <1>5, GrownTableHasRoom
<1>6. CASE ~(roomy.keyValues[i] = Nil /\ TooFull(stored))
  <2>1. ~TooFull(stored)
    <3>1. CASE roomy.keyValues[i] # Nil
      BY <1>2, <1>3, <3>1 DEF TooFull, Good, HasRoom
    <3> QED BY <1>6, <3>1
  <2>2. 2 * stored.tally + 1 <= ((2 * stored.capacity + 1) * 4) \div 5
    BY <1>4, <2>1 DEF TooFull
  <2>3. stored.tally < stored.capacity
    BY <1>4, <2>2, TooFullBounds
  <2>4. HasRoom(stored)
    BY <1>3, <1>4, <2>1, <2>3 DEF HasRoom
  <2> QED BY <1>1, <1>3, <1>6, <2>4 DEF Good
<1> QED BY <1>5, <1>6

\* After a slot is put, its key is answered with it and every other key as before.
LEMMA PutAnswers ==
  ASSUME NEW Slots, AreSlots(Slots), NEW table, Good(table, Slots),
         NEW key \in DOMAIN Hash, NEW slot, Writes(slot, key, Slots)
  PROVE  LET new == PutAt(table, key, slot)
         IN /\ slot # Nil => SlotAt(new, key) = slot
            /\ \A k \in DOMAIN Hash : k # key \/ slot = Nil => SlotAt(new, k) = SlotAt(table, k)
<1> DEFINE new == PutAt(table, key, slot)
<1>1. Good(new, Slots) /\ Contents(new) = Written(Contents(table), key, slot)
  BY PutTable
<1> HIDE DEF new
<1>2. WellFormed(table, Slots) /\ Findable(table) /\ WellFormed(new, Slots) /\ Findable(new)
  BY <1>1 DEF Good
<1>3. slot # Nil => slot \in Contents(new) /\ slot.key = key
  BY <1>1 DEF Written, Writes
<1>4. slot # Nil => SlotAt(new, key) = slot
  BY <1>2, <1>3, SlotAtAnswers
<1>5. ASSUME NEW k \in DOMAIN Hash, k # key \/ slot = Nil
      PROVE  SlotAt(new, k) = SlotAt(table, k)
  <2>1. \A s : s \in Contents(new) /\ s.key = k <=> s \in Contents(table) /\ s.key = k
    BY <1>1, <1>3, <1>5 DEF Written
  <2>2. CASE \E s \in Contents(table) : s.key = k
    <3>1. PICK s \in Contents(table) : s.key = k
      BY <2>2
    <3>2. SlotAt(table, k) = s /\ SlotAt(new, k) = s
      BY <1>2, <2>1, <3>1, SlotAtAnswers
    <3> QED BY <3>2
  <2>3. CASE \A s \in Contents(table) : s.key # k
    <3>1. \A s \in Contents(new) : s.key # k
      BY <2>1, <2>3
    <3>2. SlotAt(table, k) = Nil /\ SlotAt(new, k) = Nil
      BY <1>2, <2>3, <3>1, SlotAtAnswers
    <3> QED BY <3>2
  <2> QED BY <2>2, <2>3
<1> QED BY <1>4, <1>5 DEF new

\* A table that answers a slot answers one with the key.
LEMMA AnswersTheKey ==
  ASSUME NEW Slots, AreSlots(Slots), NEW table, Good(table, Slots), NEW key \in DOMAIN Hash
  PROVE  SlotAt(table, key) # Nil => SlotAt(table, key) \in Slots /\ SlotAt(table, key).key = key
<1>1. WellFormed(table, Slots) /\ Findable(table)
  BY DEF Good
<1>2. \A slot \in Contents(table) : slot \in Slots
  BY <1>1, TableFields DEF Contents
<1>3. CASE \E slot \in Contents(table) : slot.key = key
  <2>1. PICK slot \in Contents(table) : slot.key = key
    BY <1>3
  <2>2. SlotAt(table, key) = slot
    BY <1>1, <2>1, SlotAtAnswers
  <2> QED BY <1>2, <2>1, <2>2
<1>4. CASE \A slot \in Contents(table) : slot.key # key
  <2>1. SlotAt(table, key) = Nil
    BY <1>1, <1>4, SlotAtAnswers
  <2> QED BY <2>1
<1> QED BY <1>3, <1>4

\* An empty table answers nil for every key.
LEMMA EmptyTableAnswersNil ==
  ASSUME NEW Slots, AreSlots(Slots), NEW key \in DOMAIN Hash
  PROVE  SlotAt(EmptyTable(0), key) = Nil
BY EmptyTableIsGood, SlotAtAnswers DEF Good
=============================================================================
