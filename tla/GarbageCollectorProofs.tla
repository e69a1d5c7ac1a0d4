----------------------- MODULE GarbageCollectorProofs -----------------------
(***************************************************************************)
(* The collector on a heap of any size, for any program whose objects are  *)
(* all small: the walks over the heap stay on objects, a move never        *)
(* damages an object that has still to be moved, nothing reachable is      *)
(* condemned and nothing dangles afterwards.                               *)
(***************************************************************************)
EXTENDS GarbageCollector, TLAPS

\* No object has a slot count word (see RootsForwarded for what happens else).
SmallObjects == \A n \in SlotCounts : n < BigSlotCount

(***************************************************************************)
(* The objects D fill the addresses from a up to b without gap or overlap. *)
(***************************************************************************)
Tiles(D, a, b) ==
  /\ \A o \in D : a <= Base(o) /\ End(o) <= b
  /\ \A o, p \in D : o < p => End(o) <= Base(p)
  /\ \A o \in D : End(o) = b \/ \E p \in D : Base(p) = End(o)
  /\ a = b \/ \E p \in D : Base(p) = a

Compacting == phase \in {"forward", "move"}

\* The objects that are, or are going to be, in the compacted part of the heap.
Settled ==
  {o \in DOMAIN heap : IF phase = "move" THEN Base(o) < live \/ Marked(o)
                                         ELSE Base(o) < live /\ Marked(o)}

\* Where such an object is, or is going to be.
Place(o) == IF phase = "move" /\ o <= live THEN o ELSE heap[o].fwd

\* What a slot or a root may hold while the heap is walkable...
Valid(v) == v \in DOMAIN heap \cup {Nil, Immediate}

\* ... and once the pointers are updated.
ValidPlace(v) == v \in {Place(o) : o \in Settled} \cup {Nil, Immediate}

HeapInv ==
  /\ phase # "move" => Tiles(DOMAIN heap, 0, size)
  /\ phase = "move" => Tiles({o \in DOMAIN heap : Base(o) >= live}, live, size)

PointerInv ==
  /\ phase # "move" =>
       /\ \A s \in DOMAIN root : Valid(root[s])
       /\ \A o \in DOMAIN heap : \A i \in DOMAIN heap[o].slots : Valid(heap[o].slots[i])
  /\ phase = "move" =>
       /\ \A s \in DOMAIN root : ValidPlace(root[s])
       /\ \A o \in Settled : \A i \in DOMAIN heap[o].slots : ValidPlace(heap[o].slots[i])

PlaceInv ==
  Compacting =>
    /\ live <= size /\ freeAddress <= size
    /\ live = size \/ \E o \in DOMAIN heap : Base(o) = live
    /\ \A o \in Settled : Place(o) \in 1..o /\ Place(o) - 1 + Extent(o) <= freeAddress
    /\ \A o, p \in Settled : o < p => Place(o) + Extent(o) <= Place(p)
    /\ \A o \in Settled : \/ Place(o) - 1 + Extent(o) = freeAddress
                          \/ \E p \in Settled : Place(p) = Place(o) + Extent(o)
    /\ freeAddress = 0 \/ \E o \in Settled : Place(o) = 1
    /\ phase = "forward" => freeAddress <= live

ColorInv ==
  /\ phase = "idle" => nativeColor = White /\ \A o \in DOMAIN heap : ~Marked(o)
  /\ phase = "move" => \A o \in DOMAIN heap : Base(o) < live => ~Marked(o)

MarkInv ==
  phase \in {"mark", "forward"} =>
    /\ phase = "forward" => pending = {}
    /\ \A s \in DOMAIN root : root[s] \in DOMAIN heap => Marked(root[s]) \/ root[s] \in pending
    /\ \A o \in DOMAIN heap : Marked(o) =>
         \A v \in Children(o) : v \in DOMAIN heap => Marked(v) \/ v \in pending

\* k holds the objects of the compacted part of the heap, each at its place.
Compacted(k) ==
  /\ DOMAIN k = {Place(o) : o \in Settled}
  /\ \A o \in Settled : /\ k[Place(o)].id = heap[o].id /\ k[Place(o)].weak = heap[o].weak
                        /\ k[Place(o)].slots = heap[o].slots

IInv == TypeOK /\ HeapInv /\ PlaceInv /\ PointerInv /\ ColorInv /\ MarkInv

----------------------------------------------------------------------------
\* The layout of small objects.
LEMMA Sizes ==
  ASSUME SmallObjects, NEW n \in SlotCounts
  PROVE  extraHeaderSize(n) = 1 /\ computeSize(n) = n + 2 /\ ~isBig(n) /\ n \in Nat
BY GCAssumption DEF SmallObjects, extraHeaderSize, computeSize, isBig

\* The first word of an object and the words it has, when none has an extra header.
LEMMA Layout ==
  ASSUME SmallObjects, TypeOK, NEW o \in DOMAIN heap
  PROVE  /\ o \in Nat \ {0} /\ heap[o].slotCount \in Nat /\ heap[o].fwd \in Nat
         /\ Base(o) = o - 1 /\ Extent(o) = heap[o].slotCount + 2
         /\ End(o) = o + heap[o].slotCount + 1
<1>1. heap[o].slotCount \in SlotCounts /\ o \in Nat \ {0} /\ heap[o].fwd \in Nat
  BY DEF TypeOK, HeapType, Object
<1>2. QED BY <1>1, Sizes DEF Base, Extent, End

\* The invariant holds at first.
LEMMA InitInv == ASSUME Init PROVE IInv
<1>1. DOMAIN heap = {} /\ Settled = {} /\ DOMAIN root = StaticRoots
  BY DEF Init, Settled
<1>2. HeapType
  BY <1>1, GCAssumption DEF Init, HeapType
<1>3. ProgramType
  BY <1>1 DEF Init, ProgramType, Oop, Nil
<1>4. CollectorType
  BY DEF Init, CollectorType, Phases
<1>5. HeapInv
  BY <1>1 DEF Init, HeapInv, Tiles
<1>6. PlaceInv /\ MarkInv
  BY DEF Init, PlaceInv, MarkInv, Compacting
<1>7. PointerInv
  BY <1>1 DEF Init, PointerInv, Valid
<1>8. ColorInv
  BY <1>1 DEF Init, ColorInv
<1>9. QED BY <1>2, <1>3, <1>4, <1>5, <1>6, <1>7, <1>8 DEF IInv, TypeOK

\* Outside of a collection only three parts of the invariant say anything.
LEMMA IdleInv ==
  ASSUME phase = "idle"
  PROVE  IInv <=> /\ TypeOK /\ Tiles(DOMAIN heap, 0, size)
                  /\ \A s \in DOMAIN root : Valid(root[s])
                  /\ \A o \in DOMAIN heap : \A i \in DOMAIN heap[o].slots : Valid(heap[o].slots[i])
                  /\ nativeColor = White /\ \A o \in DOMAIN heap : ~Marked(o)
BY DEF IInv, HeapInv, PlaceInv, PointerInv, ColorInv, MarkInv, Compacting

\* What the invariant says after a step that ends between two collections.
LEMMA IdleInvNext ==
  ASSUME phase' = "idle"
  PROVE  IInv' <=> (/\ TypeOK /\ Tiles(DOMAIN heap, 0, size)
                    /\ \A s \in DOMAIN root : Valid(root[s])
                    /\ \A o \in DOMAIN heap : \A i \in DOMAIN heap[o].slots : Valid(heap[o].slots[i])
                    /\ nativeColor = White /\ \A o \in DOMAIN heap : ~Marked(o))'
BY DEF IInv, HeapInv, PlaceInv, PointerInv, ColorInv, MarkInv, Compacting

\* What the program holds may be stored anywhere.
LEMMA HeldValid ==
  ASSUME IInv, phase = "idle", NEW v \in Held
  PROVE  Valid(v) /\ v \in Int
BY IdleInv, GCAssumption DEF Held, Valid, Nil, Immediate, TypeOK, ProgramType, Oop

\* The steps of the program that change root slots and what is beside the heap.
LEMMA RootStep ==
  ASSUME IInv, phase = "idle", UNCHANGED <<heap, size, capacity, nativeColor, queued, collector>>,
         ProgramType', \A s \in DOMAIN root' : Valid(root'[s])
  PROVE  IInv'
<1>1. Tiles(DOMAIN heap, 0, size)'
  BY IdleInv DEF Tiles, Base, End, Extent
<1>2. TypeOK'
  BY IdleInv DEF TypeOK, HeapType, CollectorType, collector
<1>3. (\A o \in DOMAIN heap : ~Marked(o))' /\ (\A s \in DOMAIN root : Valid(root[s]))'
  BY IdleInv DEF Marked, Valid
<1>4. (\A o \in DOMAIN heap : \A i \in DOMAIN heap[o].slots : Valid(heap[o].slots[i]))'
  BY IdleInv DEF Valid
<1>5. nativeColor' = White /\ phase' = "idle"
  BY IdleInv DEF collector
<1>6. QED
  BY <1>1, <1>2, <1>3, <1>4, <1>5, IdleInvNext

\* Setting a root preserves the invariant.
LEMMA SetRootStep ==
  ASSUME IInv, NEW s \in DOMAIN root, NEW v, Valid(v), v \in Int, SetRoot(s, v)
  PROVE  IInv'
<1>1. phase = "idle" /\ ProgramType /\ \A t \in DOMAIN root : Valid(root[t])
  BY IdleInv DEF SetRoot, TypeOK
<1>2. root' = [root EXCEPT ![s] = v] /\ UNCHANGED <<disableCount, raw, rawId>>
  BY DEF SetRoot
<1>3. ProgramType'
  BY <1>1, <1>2 DEF ProgramType, Oop
<1>4. \A t \in DOMAIN root' : Valid(root'[t])
  BY <1>1, <1>2
<1>5. QED
  BY <1>1, <1>3, <1>4, RootStep DEF SetRoot

\* Loading a slot into a root preserves the invariant.
LEMMA LoadStep ==
  ASSUME IInv, NEW s \in DOMAIN root, NEW t \in DOMAIN root,
         NEW i \in Int, Load(s, t, i)
  PROVE  IInv'
<1> DEFINE v == heap[root[t]].slots[i]
<1>1. phase = "idle" /\ root[t] \in DOMAIN heap /\ i \in DOMAIN heap[root[t]].slots
  BY DEF Load, SetRoot
<1>2. Valid(v)
  BY <1>1, IdleInv
<1>3. v \in Int
  BY <1>1, <1>2, IdleInv DEF Valid, TypeOK, HeapType, Nil, Immediate
<1>4. QED
  BY <1>2, <1>3, SetRootStep DEF Load

\* Registering a root preserves the invariant.
LEMMA RegisterStep ==
  ASSUME IInv, NEW s \in Refs \ DOMAIN root, NEW v \in Held, registerOopReference(s, v)
  PROVE  IInv'
<1>1. phase = "idle" /\ ProgramType /\ \A t \in DOMAIN root : Valid(root[t])
  BY IdleInv DEF registerOopReference, TypeOK
<1>2. Valid(v) /\ v \in Int
  BY <1>1, HeldValid
<1>3. /\ root' = [t \in DOMAIN root \cup {s} |-> IF t = s THEN v ELSE root[t]]
      /\ UNCHANGED <<disableCount, raw, rawId>>
  BY DEF registerOopReference
<1>4. ProgramType'
  BY <1>1, <1>2, <1>3 DEF ProgramType, Oop
<1>5. \A t \in DOMAIN root' : Valid(root'[t])
  BY <1>1, <1>2, <1>3
<1>6. QED
  BY <1>1, <1>4, <1>5, RootStep DEF registerOopReference

\* Unregistering a root preserves the invariant.
LEMMA UnregisterStep ==
  ASSUME IInv, NEW s \in Refs \cap DOMAIN root, unregisterOopReference(s)
  PROVE  IInv'
<1>1. phase = "idle" /\ ProgramType /\ \A t \in DOMAIN root : Valid(root[t])
  BY IdleInv DEF unregisterOopReference, TypeOK
<1>2. /\ root' = [t \in DOMAIN root \ {s} |-> root[t]]
      /\ UNCHANGED <<disableCount, raw, rawId>>
  BY DEF unregisterOopReference
<1>3. ProgramType'
  BY <1>1, <1>2, GCAssumption DEF ProgramType, Oop
<1>4. \A t \in DOMAIN root' : Valid(root'[t])
  BY <1>1, <1>2
<1>5. QED
  BY <1>1, <1>3, <1>4, RootStep DEF unregisterOopReference

\* Opening and closing a WithoutGC scope, and holding a pointer in it, preserve the
\* invariant.
LEMMA WithoutGCStep ==
  ASSUME IInv, disable \/ enable \/ \E s \in DOMAIN root : HoldRaw(s)
  PROVE  IInv'
<1>1. phase = "idle" /\ ProgramType /\ HeapType /\ \A t \in DOMAIN root : Valid(root[t])
  BY IdleInv DEF disable, enable, HoldRaw, TypeOK
<1>2. /\ UNCHANGED <<heap, size, capacity, nativeColor, queued, collector>>
      /\ root' = root
  BY DEF disable, enable, HoldRaw
<1>3. ProgramType'
  <2>1. CASE disable
    BY <2>1, <1>1 DEF disable, ProgramType
  <2>2. CASE enable
    BY <2>2, <1>1 DEF enable, ProgramType
  <2>3. ASSUME NEW s \in DOMAIN root, HoldRaw(s) PROVE ProgramType'
    BY <2>3, <1>1 DEF HoldRaw, ProgramType, HeapType, Object
  <2>4. QED BY <2>1, <2>2, <2>3
<1>4. QED
  BY <1>1, <1>2, <1>3, RootStep

\* Where the objects are depends on their sizes only.
LEMMA SameLayout ==
  ASSUME DOMAIN heap' = DOMAIN heap,
         \A o \in DOMAIN heap : heap'[o].slotCount = heap[o].slotCount
  PROVE  \A o \in DOMAIN heap : Base(o)' = Base(o) /\ Extent(o)' = Extent(o) /\ End(o)' = End(o)
BY DEF Base, Extent, End

\* Storing into a slot preserves the invariant.
LEMMA StoreStep ==
  ASSUME IInv, NEW s \in DOMAIN root, NEW v \in Held, NEW i \in Int, Store(s, i, v)
  PROVE  IInv'
<1> DEFINE o == root[s]
<1>1. /\ phase = "idle" /\ phase' = "idle" /\ TypeOK /\ Tiles(DOMAIN heap, 0, size)
      /\ \A t \in DOMAIN root : Valid(root[t])
      /\ \A p \in DOMAIN heap : \A j \in DOMAIN heap[p].slots : Valid(heap[p].slots[j])
      /\ nativeColor = White /\ \A p \in DOMAIN heap : ~Marked(p)
  BY IdleInv DEF Store, collector
<1>2. Valid(v) /\ v \in Int
  BY <1>1, HeldValid
<1>3. /\ o \in DOMAIN heap /\ i \in DOMAIN heap[o].slots
      /\ heap' = [heap EXCEPT ![o].slots[i] = v]
      /\ UNCHANGED <<size, capacity, nativeColor, queued, mutator, collector>>
  BY DEF Store
<1>4. /\ DOMAIN heap' = DOMAIN heap
      /\ \A p \in DOMAIN heap :
            /\ heap'[p] \in Object(heap[p].slotCount) /\ heap'[p].slotCount = heap[p].slotCount
            /\ heap'[p].color = heap[p].color /\ DOMAIN heap'[p].slots = DOMAIN heap[p].slots
            /\ \A j \in DOMAIN heap[p].slots : heap'[p].slots[j] \in {v, heap[p].slots[j]}
  <2>1. \A p \in DOMAIN heap : heap[p] \in Object(heap[p].slotCount)
    BY <1>1 DEF TypeOK, HeapType
  <2>2. heap' = [p \in DOMAIN heap |-> IF p = o
                   THEN [heap[o] EXCEPT !.slots = [heap[o].slots EXCEPT ![i] = v]] ELSE heap[p]]
    BY <1>1, <1>3 DEF TypeOK, HeapType
  <2>3. ASSUME NEW p \in DOMAIN heap, p = o
        PROVE  /\ heap'[p] \in Object(heap[p].slotCount) /\ heap'[p].slotCount = heap[p].slotCount
               /\ heap'[p].color = heap[p].color /\ DOMAIN heap'[p].slots = DOMAIN heap[p].slots
               /\ \A j \in DOMAIN heap[p].slots : heap'[p].slots[j] \in {v, heap[p].slots[j]}
    <3>1. heap'[p] = [heap[o] EXCEPT !.slots = [heap[o].slots EXCEPT ![i] = v]]
      BY <2>2, <2>3
    <3>2. [heap[o].slots EXCEPT ![i] = v] \in [1..heap[o].slotCount -> Oop]
      BY <2>1, <1>2, <1>3 DEF Object, Oop
    <3>3. QED BY <2>1, <3>1, <3>2, <2>3, <1>3 DEF Object
  <2>4. QED BY <2>1, <2>2, <2>3
<1>5. Tiles(DOMAIN heap, 0, size)'
  BY <1>1, <1>3, <1>4, SameLayout DEF Tiles
<1>6. TypeOK'
  <2>1. HeapType'
    <3>1. heap' = [p \in DOMAIN heap' |-> heap'[p]] BY <1>3
    <3>2. DOMAIN heap' \subseteq Nat \ {0} BY <1>1, <1>4 DEF TypeOK, HeapType
    <3>3. \A p \in DOMAIN heap' :
             heap'[p].slotCount \in SlotCounts /\ heap'[p] \in Object(heap'[p].slotCount)
      <4>1. \A p \in DOMAIN heap : heap[p].slotCount \in SlotCounts BY <1>1 DEF TypeOK, HeapType
      <4>2. QED BY <4>1, <1>4
    <3>4. size' \in Nat /\ capacity' \in 0..MaxCapacity BY <1>1, <1>3 DEF TypeOK, HeapType
    <3>5. QED BY <3>1, <3>2, <3>3, <3>4 DEF HeapType
  <2>2. ProgramType' /\ CollectorType'
    BY <1>1, <1>3 DEF TypeOK, ProgramType, CollectorType, mutator, collector
  <2>3. QED BY <2>1, <2>2 DEF TypeOK
<1>7. (\A p \in DOMAIN heap : \A j \in DOMAIN heap[p].slots : Valid(heap[p].slots[j]))'
  BY <1>1, <1>2, <1>4 DEF Valid
<1>8. (\A t \in DOMAIN root : Valid(root[t]))' /\ (\A p \in DOMAIN heap : ~Marked(p))'
  BY <1>1, <1>3, <1>4 DEF Valid, Marked, mutator
<1>9. nativeColor' = White
  BY <1>1, <1>3
<1>10. QED
  BY <1>1, <1>5, <1>6, <1>7, <1>8, <1>9, IdleInvNext

\* An allocation preserves the invariant.
LEMMA AllocateStep ==
  ASSUME SmallObjects, IInv, NEW s \in DOMAIN root, NEW n \in SlotCounts, NEW weak \in BOOLEAN,
         Allocate(s, n, weak)
  PROVE  IInv'
<1>1. /\ phase = "idle" /\ phase' = "idle" /\ TypeOK /\ Tiles(DOMAIN heap, 0, size)
      /\ \A t \in DOMAIN root : Valid(root[t])
      /\ \A p \in DOMAIN heap : \A j \in DOMAIN heap[p].slots : Valid(heap[p].slots[j])
      /\ nativeColor = White /\ \A p \in DOMAIN heap : ~Marked(p)
  BY IdleInv DEF Allocate, collector
<1>2. /\ extraHeaderSize(n) = 1 /\ computeSize(n) = n + 2 /\ n \in Nat /\ size \in Nat
  BY Sizes, <1>1 DEF TypeOK, HeapType
<1>0. PICK o : o = size + 1 /\ o \in Nat
  BY <1>2
<1>3. /\ heap' = [p \in DOMAIN heap \cup {o} |-> IF p = o THEN NewObject(n, weak) ELSE heap[p]]
      /\ size' = size + n + 2 /\ root' = [root EXCEPT ![s] = o]
      /\ UNCHANGED <<nativeColor, disableCount, raw, rawId, collector>>
  BY <1>0, <1>2 DEF Allocate
<1>4. /\ NewObject(n, weak) \in Object(n) /\ NewObject(n, weak).slotCount = n
      /\ NewObject(n, weak).color = White
      /\ NewObject(n, weak).slots = [i \in 1..n |-> Nil]
  <2>1. PICK y \in Ids : \A p \in DOMAIN heap : heap[p].id # y
    BY DEF Allocate
  <2>2. (CHOOSE x \in Ids : \A p \in DOMAIN heap : heap[p].id # x) \in Ids
    BY <2>1
  <2>3. [i \in 1..n |-> Nil] \in [1..n -> Oop]
    BY DEF Nil, Oop
  <2>4. QED BY <2>2, <2>3, <1>2 DEF NewObject, Object
<1>5. \A p \in DOMAIN heap : /\ p \in Nat \ {0} /\ heap[p].slotCount \in Nat
                             /\ Base(p) = p - 1 /\ End(p) = p + heap[p].slotCount + 1
  BY Layout, <1>1
<1>6. o \notin DOMAIN heap
  BY <1>0, <1>1, <1>2, <1>5 DEF Tiles
<1>7. /\ DOMAIN heap' = DOMAIN heap \cup {o} /\ heap'[o] = NewObject(n, weak)
      /\ \A p \in DOMAIN heap : heap'[p] = heap[p]
  BY <1>3, <1>6
<1>8. /\ \A p \in DOMAIN heap : Base(p)' = Base(p) /\ End(p)' = End(p)
      /\ Base(o)' = size /\ End(o)' = size'
  <2>1. \A p \in DOMAIN heap : Base(p)' = Base(p) /\ End(p)' = End(p)
    BY <1>7 DEF Base, End, Extent
  <2>2. Base(o)' = o - extraHeaderSize(n) /\ End(o)' = o - extraHeaderSize(n) + computeSize(n)
    BY <1>7, <1>4 DEF Base, End, Extent
  <2>3. QED BY <2>1, <2>2, <1>0, <1>2, <1>3
<1>9. Tiles(DOMAIN heap, 0, size)'
  <2>0. /\ \A p \in DOMAIN heap : 0 <= Base(p) /\ End(p) <= size
        /\ \A p, q \in DOMAIN heap : p < q => End(p) <= Base(q)
        /\ \A p \in DOMAIN heap : End(p) = size \/ \E q \in DOMAIN heap : Base(q) = End(p)
        /\ 0 = size \/ \E p \in DOMAIN heap : Base(p) = 0
    BY <1>1 DEF Tiles
  <2>1. ASSUME NEW p \in DOMAIN heap' PROVE 0 <= Base(p)' /\ End(p)' <= size'
    <3>1. CASE p = o
      BY <3>1, <1>2, <1>3, <1>8
    <3>2. CASE p \in DOMAIN heap
      BY <3>2, <2>0, <1>2, <1>3, <1>5, <1>8
    <3>3. QED BY <3>1, <3>2, <1>7
  <2>2. ASSUME NEW p \in DOMAIN heap', NEW q \in DOMAIN heap', p < q PROVE End(p)' <= Base(q)'
    <3>1. CASE p \in DOMAIN heap /\ q \in DOMAIN heap
      BY <3>1, <2>2, <2>0, <1>8
    <3>2. CASE p \in DOMAIN heap /\ q = o
      BY <3>2, <2>0, <1>8
    <3>3. CASE p = o /\ q \in DOMAIN heap
      BY <3>3, <2>2, <2>0, <1>0, <1>5, <1>2
    <3>4. QED BY <3>1, <3>2, <3>3, <2>2, <1>0, <1>7
  <2>3. ASSUME NEW p \in DOMAIN heap'
        PROVE  End(p)' = size' \/ \E q \in DOMAIN heap' : Base(q)' = End(p)'
    <3>1. CASE p = o
      BY <3>1, <1>8
    <3>2. CASE p \in DOMAIN heap /\ End(p) = size
      BY <3>2, <1>7, <1>8
    <3>3. CASE p \in DOMAIN heap /\ End(p) # size
      BY <3>3, <2>0, <1>7, <1>8
    <3>4. QED BY <3>1, <3>2, <3>3, <1>7
  <2>4. 0 = size' \/ \E p \in DOMAIN heap' : Base(p)' = 0
    <3>1. CASE size = 0
      BY <3>1, <1>7, <1>8
    <3>2. CASE size # 0
      BY <3>2, <2>0, <1>7, <1>8
    <3>3. QED BY <3>1, <3>2
  <2>5. QED BY <2>1, <2>2, <2>3, <2>4 DEF Tiles
<1>10. TypeOK'
  <2>1. capacity' \in 0..MaxCapacity
    <3>1. (size + n + 2 + PageSize - 1) \div PageSize >= 0
      BY <1>2, GCAssumption
    <3>2. RoundToPage(size + n + 2) \in Nat
      <4> DEFINE q == (size + n + 2 + PageSize - 1) \div PageSize
      <4>1. q \in Nat
        BY <3>1, <1>2, GCAssumption
      <4> HIDE DEF q
      <4>2. q * PageSize \in Nat
        BY <4>1, GCAssumption
      <4>3. QED BY <4>2 DEF q, RoundToPage
    <3>3. capacity' \in {capacity, RoundToPage(size + n + 2)} /\ capacity' <= MaxCapacity
      BY <1>2 DEF Allocate
    <3>4. QED BY <3>2, <3>3, <1>1, GCAssumption DEF TypeOK, HeapType
  <2>2. HeapType'
    BY <2>1, <1>0, <1>1, <1>2, <1>3, <1>4, <1>7 DEF TypeOK, HeapType
  <2>3. ProgramType'
    BY <1>0, <1>1, <1>2, <1>3 DEF TypeOK, ProgramType, Oop
  <2>4. CollectorType'
    BY <1>1, <1>3 DEF TypeOK, CollectorType, collector, Allocate, hasCapacityThresholdBeenReached
  <2>5. QED BY <2>2, <2>3, <2>4 DEF TypeOK
<1>11. (\A t \in DOMAIN root : Valid(root[t]))'
  BY <1>1, <1>3, <1>7 DEF Valid, TypeOK, ProgramType
<1>12. (\A p \in DOMAIN heap : \A j \in DOMAIN heap[p].slots : Valid(heap[p].slots[j]))'
  <2>1. ASSUME NEW p \in DOMAIN heap', NEW j \in DOMAIN heap'[p].slots
        PROVE  heap'[p].slots[j] \in DOMAIN heap' \cup {Nil, Immediate}
    <3>1. CASE p = o
      BY <3>1, <1>4, <1>7
    <3>2. CASE p \in DOMAIN heap
      BY <3>2, <1>1, <1>7 DEF Valid
    <3>3. QED BY <3>1, <3>2, <1>7
  <2>2. QED BY <2>1 DEF Valid
<1>13. (\A p \in DOMAIN heap : ~Marked(p))' /\ nativeColor' = White
  <2>1. nativeColor' = White
    BY <1>1, <1>3
  <2>2. \A p \in DOMAIN heap : heap[p].color = White
    BY <1>1 DEF Marked
  <2>3. \A p \in DOMAIN heap' : heap'[p].color = White
    BY <2>2, <1>4, <1>7
  <2>4. QED BY <2>1, <2>3 DEF Marked
<1>14. QED
  BY <1>1, <1>9, <1>10, <1>11, <1>12, <1>13, IdleInvNext

----------------------------------------------------------------------------
(***************************************************************************)
(* The collector's steps.                                                  *)
(***************************************************************************)
LEMMA StartStep ==
  ASSUME IInv, NEW safe \in BOOLEAN, StartCollection(safe)
  PROVE  IInv'
<1>1. /\ phase = "idle" /\ phase' = "mark" /\ TypeOK /\ Tiles(DOMAIN heap, 0, size)
      /\ \A t \in DOMAIN root : Valid(root[t])
      /\ \A p \in DOMAIN heap : \A j \in DOMAIN heap[p].slots : Valid(heap[p].slots[j])
      /\ \A p \in DOMAIN heap : ~Marked(p)
  BY IdleInv DEF StartCollection
<1>2. /\ UNCHANGED <<heap, size, capacity, nativeColor, queued, mutator, live, freeAddress, freeCount>>
      /\ atSafePoint' = safe /\ pending' = {root[s] : s \in DOMAIN root}
  BY DEF StartCollection, Roots
<1>3. TypeOK'
  <2>1. pending' \subseteq Oop
    BY <1>1, <1>2 DEF TypeOK, ProgramType
  <2>2. HeapType' /\ ProgramType'
    BY <1>1, <1>2 DEF TypeOK, HeapType, ProgramType, mutator
  <2>3. CollectorType'
    BY <1>1, <1>2, <2>1 DEF TypeOK, CollectorType, Phases
  <2>4. QED BY <2>2, <2>3 DEF TypeOK
<1>4. HeapInv'
  BY <1>1, <1>2 DEF HeapInv, Tiles, Base, End, Extent
<1>5. PlaceInv'
  BY <1>1 DEF PlaceInv, Compacting
<1>6. PointerInv'
  BY <1>1, <1>2 DEF PointerInv, Valid, mutator
<1>7. ColorInv'
  BY <1>1 DEF ColorInv
<1>8. MarkInv'
  BY <1>1, <1>2 DEF MarkInv, Marked, mutator
<1>9. QED
  BY <1>3, <1>4, <1>5, <1>6, <1>7, <1>8 DEF IInv

\* Marking an object preserves the invariant.
LEMMA MarkStep ==
  ASSUME IInv, markObject
  PROVE  IInv'
<1>0. TypeOK /\ HeapInv /\ PointerInv /\ MarkInv
  BY DEF IInv
<1>1. PICK v \in pending :
        IF v \in DOMAIN heap /\ ~Marked(v)
        THEN /\ heap' = [heap EXCEPT ![v].color = Black]
             /\ pending' = (pending \ {v}) \cup Children(v)
             /\ UNCHANGED nativeColor
        ELSE /\ pending' = pending \ {v}
             /\ nativeColor' = IF v = Nil THEN Black ELSE nativeColor
             /\ UNCHANGED heap
  BY DEF markObject
<1>2. /\ phase = "mark" /\ phase' = "mark"
      /\ UNCHANGED <<size, capacity, queued, mutator, atSafePoint, live, freeAddress, freeCount>>
  BY DEF markObject
<1>3. /\ DOMAIN heap' = DOMAIN heap
      /\ heap' = [p \in DOMAIN heap |-> heap'[p]]
      /\ \A p \in DOMAIN heap :
           /\ heap'[p] \in Object(heap[p].slotCount) /\ heap'[p].slotCount = heap[p].slotCount
           /\ heap'[p].slots = heap[p].slots /\ heap'[p].weak = heap[p].weak
           /\ heap'[p].color = IF p = v THEN Black ELSE heap[p].color
  <2>1. \A p \in DOMAIN heap : heap[p] \in Object(heap[p].slotCount)
    BY <1>0 DEF TypeOK, HeapType
  <2>2. CASE v \in DOMAIN heap /\ ~Marked(v)
    <3>1. heap' = [p \in DOMAIN heap |-> IF p = v THEN [heap[v] EXCEPT !.color = Black] ELSE heap[p]]
      BY <2>2, <1>0, <1>1 DEF TypeOK, HeapType
    <3>2. QED BY <2>1, <3>1 DEF Object
  <2>3. CASE ~(v \in DOMAIN heap /\ ~Marked(v))
    <3>1. heap' = heap
      BY <2>3, <1>1
    <3>2. v \in DOMAIN heap => heap[v].color = Black
      BY <2>1, <2>3 DEF Marked, Object
    <3>3. QED BY <2>1, <3>1, <3>2, <1>0 DEF TypeOK, HeapType
  <2>4. QED BY <2>2, <2>3
<1>4. pending' \subseteq Oop /\ nativeColor' \in {White, Black}
  <2>1. ASSUME v \in DOMAIN heap PROVE Children(v) \subseteq Oop
    <3>1. heap[v].slots \in [1..heap[v].slotCount -> Oop]
      BY <1>0, <2>1 DEF TypeOK, HeapType, Object
    <3>2. QED BY <3>1 DEF Children
  <2>2. QED BY <1>0, <1>1, <2>1 DEF TypeOK, CollectorType
<1>5. TypeOK'
  <2>1. HeapType'
    BY <1>0, <1>2, <1>3 DEF TypeOK, HeapType
  <2>2. ProgramType' /\ CollectorType'
    BY <1>0, <1>2, <1>4 DEF TypeOK, ProgramType, CollectorType, mutator
  <2>3. QED BY <2>1, <2>2 DEF TypeOK
<1>6. HeapInv'
  BY <1>0, <1>2, <1>3, SameLayout DEF HeapInv, Tiles
<1>7. PlaceInv' /\ ColorInv'
  BY <1>2 DEF PlaceInv, Compacting, ColorInv
<1>8. PointerInv'
  BY <1>0, <1>2, <1>3 DEF PointerInv, Valid, mutator
<1>9. MarkInv'
  <2>1. \A p \in DOMAIN heap : Children(p)' = Children(p)
    BY <1>3 DEF Children
  <2>2. \A p \in DOMAIN heap : Marked(p)' <=> (Marked(p) \/ p = v)
    BY <1>3 DEF Marked, White, Black
  <2>3. \A w \in pending : w \in pending' \/ w = v
    BY <1>1
  <2>4. v \in DOMAIN heap => Children(v) \subseteq pending' \/ Marked(v)
    BY <1>1
  <2>5. /\ \A s \in DOMAIN root : root[s] \in DOMAIN heap => Marked(root[s]) \/ root[s] \in pending
        /\ \A o \in DOMAIN heap : Marked(o) =>
             \A w \in Children(o) : w \in DOMAIN heap => Marked(w) \/ w \in pending
    BY <1>0, <1>2 DEF MarkInv
  <2>6. \A w \in DOMAIN heap : (\E s \in DOMAIN root : root[s] = w) => Marked(w)' \/ w \in pending'
    BY <2>2, <2>3, <2>5
  <2>7. \A o \in DOMAIN heap : Marked(o)' =>
             \A w \in Children(o) : w \in DOMAIN heap => Marked(w)' \/ w \in pending'
    BY <2>2, <2>3, <2>4, <2>5
  <2>8. DOMAIN heap' = DOMAIN heap /\ root' = root /\ phase' = "mark"
    BY <1>2, <1>3 DEF mutator
  <2>9. QED BY <2>1, <2>6, <2>7, <2>8 DEF MarkInv
<1>10. QED
  BY <1>5, <1>6, <1>7, <1>8, <1>9 DEF IInv

\* The start of the compaction preserves the invariant.
LEMMA StartCompactionStep ==
  ASSUME SmallObjects, IInv, StartCompaction
  PROVE  IInv'
<1>1. /\ phase = "mark" /\ phase' = "forward" /\ pending = {} /\ pending' = {}
      /\ live' = 0 /\ freeAddress' = 0 /\ freeCount' = 0
      /\ UNCHANGED <<heap, size, capacity, nativeColor, queued, mutator, atSafePoint>>
  BY DEF StartCompaction
<1>2. TypeOK /\ HeapInv /\ PointerInv /\ MarkInv
  BY DEF IInv
<1>3. TypeOK'
  BY <1>1, <1>2 DEF TypeOK, HeapType, ProgramType, CollectorType, Phases, mutator
<1>4. HeapInv'
  BY <1>1, <1>2 DEF HeapInv, Tiles, Base, End, Extent
<1>5. \A o \in DOMAIN heap : Base(o)' = Base(o) /\ Base(o) >= 0
  BY <1>1, <1>2 DEF HeapInv, Tiles, Base
<1>6. PlaceInv'
  <2>1. Settled' = {}
    BY <1>1, <1>5, Layout, <1>2 DEF Settled
  <2>2. 0 = size \/ \E o \in DOMAIN heap : Base(o) = 0
    BY <1>1, <1>2 DEF HeapInv, Tiles
  <2>3. QED BY <2>1, <2>2, <1>1, <1>2, <1>5 DEF PlaceInv, Compacting, TypeOK, HeapType
<1>7. PointerInv'
  BY <1>1, <1>2 DEF PointerInv, Valid, mutator
<1>8. ColorInv'
  BY <1>1 DEF ColorInv
<1>9. MarkInv'
  BY <1>1, <1>2 DEF MarkInv, Marked, Children, mutator
<1>10. QED
  BY <1>3, <1>4, <1>6, <1>7, <1>8, <1>9 DEF IInv

\* The walk of a compaction is at an object until it is at the end of the heap.
LEMMA AtLive ==
  ASSUME SmallObjects, IInv, Compacting, live < size
  PROVE  live + 1 \in DOMAIN heap /\ ObjectAt(live) = live + 1
<1>1. TypeOK /\ live \in Nat /\ size \in Nat
  BY DEF IInv, TypeOK, HeapType, CollectorType
<1>2. PICK o \in DOMAIN heap : Base(o) = live
  BY <1>1 DEF IInv, PlaceInv
<1>3. \A p \in DOMAIN heap : Base(p) = p - 1 /\ p \in Nat
  BY <1>1, Layout
<1>4. o = live + 1
  BY <1>1, <1>2, <1>3
<1>5. ObjectsAt(live) = {live + 1}
  BY <1>1, <1>2, <1>3, <1>4 DEF ObjectsAt
<1>6. QED BY <1>2, <1>4, <1>5 DEF ObjectAt

\* Computing the place of an object preserves the invariant.
LEMMA ForwardStep ==
  ASSUME SmallObjects, IInv, ComputeForwarding
  PROVE  IInv'
<1>0. TypeOK /\ HeapInv /\ PlaceInv /\ PointerInv /\ MarkInv /\ live \in Nat /\ freeAddress \in Nat
  BY DEF IInv, TypeOK, CollectorType
<1>1. /\ phase = "forward" /\ phase' = "forward" /\ live < size /\ Compacting
      /\ UNCHANGED <<size, capacity, nativeColor, queued, mutator, atSafePoint, pending>>
  BY DEF ComputeForwarding, Compacting
<1>2. PICK o : o = live + 1
  OBVIOUS
<1>3. o \in DOMAIN heap /\ ObjectAt(live) = o
  BY <1>1, <1>2, AtLive
<1>4. /\ live' = live + Extent(o)
      /\ freeAddress' = IF Marked(o) THEN freeAddress + Extent(o) ELSE freeAddress
      /\ freeCount' = IF Marked(o) THEN freeCount ELSE freeCount + 1
      /\ heap' = [heap EXCEPT ![o].fwd = IF Marked(o) THEN freeAddress + 1 ELSE 0]
  BY <1>3 DEF ComputeForwarding
<1>5. \A p \in DOMAIN heap :
        /\ p \in Nat /\ Base(p) = p - 1 /\ Extent(p) \in Nat \ {0}
        /\ Extent(p) = heap[p].slotCount + 2 /\ End(p) = Base(p) + Extent(p)
  BY <1>0, Layout DEF End
<1>6. /\ DOMAIN heap' = DOMAIN heap
      /\ heap' = [p \in DOMAIN heap |-> heap'[p]]
      /\ \A p \in DOMAIN heap :
           /\ heap'[p] \in Object(heap[p].slotCount) /\ heap'[p].slotCount = heap[p].slotCount
           /\ heap'[p].slots = heap[p].slots /\ heap'[p].weak = heap[p].weak
           /\ heap'[p].color = heap[p].color
           /\ p # o => heap'[p] = heap[p]
      /\ Marked(o) => heap'[o].fwd = freeAddress + 1
  <2>1. \A p \in DOMAIN heap : heap[p] \in Object(heap[p].slotCount)
    BY <1>0 DEF TypeOK, HeapType
  <2>2. PICK f \in Nat : f = IF Marked(o) THEN freeAddress + 1 ELSE 0
    BY <1>0
  <2>3. heap' = [p \in DOMAIN heap |-> IF p = o THEN [heap[o] EXCEPT !.fwd = f] ELSE heap[p]]
    BY <2>2, <1>0, <1>4 DEF TypeOK, HeapType
  <2>4. QED BY <1>3, <2>1, <2>2, <2>3 DEF Object
<1>7. \A p \in DOMAIN heap : /\ Base(p)' = Base(p) /\ Extent(p)' = Extent(p) /\ End(p)' = End(p)
                             /\ Marked(p)' <=> Marked(p)
  BY <1>6, SameLayout DEF Marked
<1>8. TypeOK'
  <2>1. HeapType'
    BY <1>0, <1>1, <1>6 DEF TypeOK, HeapType
  <2>2. live' \in Nat /\ freeAddress' \in Nat /\ freeCount' \in Nat
    BY <1>0, <1>3, <1>4, <1>5 DEF TypeOK, CollectorType
  <2>3. ProgramType' /\ CollectorType'
    BY <1>0, <1>1, <2>2 DEF TypeOK, ProgramType, CollectorType, mutator
  <2>4. QED BY <2>1, <2>3 DEF TypeOK
<1>9. Tiles(DOMAIN heap, 0, size)
  BY <1>0, <1>1 DEF HeapInv
<1>10. HeapInv'
  BY <1>1, <1>6, <1>7, <1>9 DEF HeapInv, Tiles
<1>11. live' = End(o)
  BY <1>0, <1>2, <1>3, <1>4, <1>5
<1>12. \A p \in DOMAIN heap : Base(p) < live' <=> Base(p) < live \/ p = o
  <2>1. ASSUME NEW p \in DOMAIN heap, p > o PROVE ~(Base(p) < live')
    BY <2>1, <1>3, <1>5, <1>9, <1>11 DEF Tiles
  <2>2. QED BY <2>1, <1>0, <1>2, <1>3, <1>5, <1>11
<1>13. Settled' = IF Marked(o) THEN Settled \cup {o} ELSE Settled
  <2>1. \A p : p \in Settled <=> p \in DOMAIN heap /\ Base(p) < live /\ Marked(p)
    BY <1>1 DEF Settled
  <2>2. \A p : p \in Settled' <=> p \in DOMAIN heap /\ (Base(p) < live \/ p = o) /\ Marked(p)
    BY <1>1, <1>6, <1>7, <1>12 DEF Settled
  <2>3. QED BY <2>1, <2>2, <1>3
<1>14. /\ \A p \in Settled : p \in DOMAIN heap /\ p < o /\ Place(p)' = Place(p)
       /\ Marked(o) => Place(o)' = freeAddress + 1
  <2>1. \A p \in Settled : p \in DOMAIN heap /\ p < o
    BY <1>0, <1>1, <1>2, <1>5 DEF Settled
  <2>2. QED BY <2>1, <1>1, <1>3, <1>5, <1>6 DEF Place
<1>15. PlaceInv'
  <2>0. /\ live <= size /\ freeAddress <= live
        /\ \A p \in Settled : Place(p) \in 1..p /\ Place(p) - 1 + Extent(p) <= freeAddress
        /\ \A p, q \in Settled : p < q => Place(p) + Extent(p) <= Place(q)
        /\ \A p \in Settled : \/ Place(p) - 1 + Extent(p) = freeAddress
                              \/ \E q \in Settled : Place(q) = Place(p) + Extent(p)
        /\ freeAddress = 0 \/ \E p \in Settled : Place(p) = 1
    BY <1>0, <1>1 DEF PlaceInv
  <2>1. live' <= size' /\ (live' = size' \/ \E p \in DOMAIN heap' : Base(p)' = live')
    BY <1>1, <1>3, <1>6, <1>7, <1>9, <1>11 DEF Tiles
  <2>2. freeAddress' <= live' /\ freeAddress' <= size'
    BY <2>0, <2>1, <1>0, <1>1, <1>3, <1>4, <1>5 DEF TypeOK, HeapType
  <2>3. CASE ~Marked(o)
    <3>1. Settled' = Settled /\ freeAddress' = freeAddress
      BY <2>3, <1>4, <1>13
    <3>2. \A p \in Settled : Place(p)' = Place(p) /\ Extent(p)' = Extent(p)
      BY <1>7, <1>14
    <3>3. QED BY <3>1, <3>2, <2>0, <2>1, <2>2 DEF PlaceInv
  <2>4. CASE Marked(o)
    <3>1. Settled' = Settled \cup {o} /\ freeAddress' = freeAddress + Extent(o)
      BY <2>4, <1>4, <1>13
    <3>2. /\ \A p \in Settled : p < o /\ p \in Nat /\ Place(p)' = Place(p) /\ Extent(p)' = Extent(p)
          /\ Place(o)' = freeAddress + 1 /\ Extent(o)' = Extent(o)
          /\ Extent(o) \in Nat \ {0} /\ \A p \in Settled : Extent(p) \in Nat
      BY <2>4, <1>3, <1>5, <1>7, <1>14
    <3>3. \A p \in Settled' : Place(p)' \in 1..p /\ Place(p)' - 1 + Extent(p)' <= freeAddress'
      BY <3>1, <3>2, <2>0, <1>0, <1>2
    <3>4. \A p, q \in Settled' : p < q => Place(p)' + Extent(p)' <= Place(q)'
      <4>1. ASSUME NEW p \in Settled, NEW q \in Settled, p < q
            PROVE  Place(p)' + Extent(p)' <= Place(q)'
        BY <4>1, <3>2, <2>0
      <4>2. ASSUME NEW p \in Settled PROVE Place(p)' + Extent(p)' <= Place(o)' /\ ~(o < p)
        BY <3>2, <2>0, <1>0, <1>2
      <4>3. ~(o < o)
        BY <1>0, <1>2
      <4>4. QED BY <3>1, <4>1, <4>2, <4>3
    <3>5. \A p \in Settled' : \/ Place(p)' - 1 + Extent(p)' = freeAddress'
                              \/ \E q \in Settled' : Place(q)' = Place(p)' + Extent(p)'
      <4>1. Place(o)' - 1 + Extent(o)' = freeAddress'
        BY <3>1, <3>2, <1>0
      <4>2. ASSUME NEW p \in Settled
            PROVE  \E q \in Settled' : Place(q)' = Place(p)' + Extent(p)'
        <5>1. CASE Place(p) - 1 + Extent(p) = freeAddress
          BY <5>1, <3>1, <3>2, <2>0, <1>0, <1>5
        <5>2. CASE \E q \in Settled : Place(q) = Place(p) + Extent(p)
          BY <5>2, <3>1, <3>2
        <5>3. QED BY <5>1, <5>2, <2>0
      <4>3. QED BY <3>1, <4>1, <4>2
    <3>6. \E p \in Settled' : Place(p)' = 1
      BY <3>1, <3>2, <2>0
    <3>7. QED BY <2>1, <2>2, <3>3, <3>4, <3>5, <3>6 DEF PlaceInv
  <2>5. QED BY <2>3, <2>4
<1>16. PointerInv'
  BY <1>0, <1>1, <1>6 DEF PointerInv, Valid, mutator
<1>17. ColorInv'
  BY <1>1 DEF ColorInv
<1>18. MarkInv'
  <2>1. \A p \in DOMAIN heap : Children(p)' = Children(p)
    BY <1>6 DEF Children
  <2>2. root' = root /\ pending' = pending
    BY <1>1 DEF mutator
  <2>3. QED BY <2>1, <2>2, <1>0, <1>1, <1>6 DEF MarkInv, Marked
<1>19. QED
  BY <1>8, <1>10, <1>15, <1>16, <1>17, <1>18 DEF IInv

\* The end of a compaction that has nothing to do preserves the invariant.
LEMMA AbortStep ==
  ASSUME SmallObjects, IInv, abortCompaction
  PROVE  IInv'
<1>0. TypeOK /\ HeapInv /\ PointerInv
  BY DEF IInv
<1>1. /\ phase = "forward" /\ phase' = "idle" /\ nativeColor' = White /\ queued' \in BOOLEAN
      /\ atSafePoint' = FALSE /\ live' = 0 /\ freeAddress' = 0 /\ freeCount' = 0
      /\ UNCHANGED <<size, capacity, mutator, pending>>
      /\ heap' = [o \in DOMAIN heap |-> [heap[o] EXCEPT !.color = White]]
  BY DEF abortCompaction, EndCollection
<1>2. /\ DOMAIN heap' = DOMAIN heap
      /\ \A p \in DOMAIN heap :
           /\ heap'[p] \in Object(heap[p].slotCount) /\ heap'[p].slotCount = heap[p].slotCount
           /\ heap'[p].slots = heap[p].slots /\ heap'[p].color = White
  <2>1. \A p \in DOMAIN heap : heap[p] \in Object(heap[p].slotCount)
    BY <1>0 DEF TypeOK, HeapType
  <2>2. QED BY <1>1, <2>1 DEF Object
<1>3. TypeOK'
  <2>1. HeapType'
    BY <1>0, <1>1, <1>2 DEF TypeOK, HeapType
  <2>2. ProgramType' /\ CollectorType'
    BY <1>0, <1>1 DEF TypeOK, ProgramType, CollectorType, Phases, mutator
  <2>3. QED BY <2>1, <2>2 DEF TypeOK
<1>4. Tiles(DOMAIN heap, 0, size)'
  BY <1>0, <1>1, <1>2, SameLayout DEF HeapInv, Tiles
<1>5. (\A s \in DOMAIN root : Valid(root[s]))'
  BY <1>0, <1>1, <1>2 DEF PointerInv, Valid, mutator
<1>6. (\A o \in DOMAIN heap : \A i \in DOMAIN heap[o].slots : Valid(heap[o].slots[i]))'
  BY <1>0, <1>1, <1>2 DEF PointerInv, Valid
<1>7. (\A o \in DOMAIN heap : ~Marked(o))'
  BY <1>2 DEF Marked
<1>8. QED
  BY <1>1, <1>3, <1>4, <1>5, <1>6, <1>7, IdleInvNext

\* The second pass turns every pointer into the place its object gets, or nil.
LEMMA UpdateFacts ==
  ASSUME SmallObjects, IInv, UpdatePointers
  PROVE  /\ \A p \in DOMAIN heap :
              /\ p \in Nat \ {0} /\ Base(p) = p - 1 /\ Extent(p) \in Nat \ {0}
              /\ End(p) = Base(p) + Extent(p)
              /\ heap[p].fwd \in Nat /\ heap[p] \in Object(heap[p].slotCount)
         /\ live = size /\ Tiles(DOMAIN heap, 0, size)
         /\ \A p : p \in Settled <=> p \in DOMAIN heap /\ Marked(p)
         /\ \A p \in Settled : Place(p) = heap[p].fwd
         /\ \A v : Valid(v) =>
              updatePointer(v) = IF v \in DOMAIN heap THEN IF Marked(v) THEN Place(v) ELSE Nil ELSE v
         /\ DOMAIN heap' = DOMAIN heap /\ heap' = [p \in DOMAIN heap |-> heap'[p]]
         /\ \A p \in DOMAIN heap :
              /\ heap'[p] \in Object(heap[p].slotCount) /\ heap'[p].slotCount = heap[p].slotCount
              /\ heap'[p].color = heap[p].color /\ heap'[p].fwd = heap[p].fwd
              /\ heap'[p].id = heap[p].id /\ heap'[p].weak = heap[p].weak
              /\ DOMAIN heap'[p].slots = DOMAIN heap[p].slots
              /\ Marked(p) => \A i \in DOMAIN heap[p].slots :
                                 heap'[p].slots[i] = updatePointer(heap[p].slots[i])
         /\ \A p \in DOMAIN heap : /\ Base(p)' = Base(p) /\ Extent(p)' = Extent(p) /\ End(p)' = End(p)
                                   /\ Marked(p)' <=> Marked(p)
         /\ Settled' = Settled /\ \A p \in Settled : Place(p)' = Place(p)
<1>0. TypeOK /\ HeapInv /\ PlaceInv /\ PointerInv /\ live \in Nat /\ size \in Nat
  BY DEF IInv, TypeOK, HeapType, CollectorType
<1>1. /\ phase = "forward" /\ phase' = "move" /\ live >= size /\ live' = 0
      /\ heap' = [o \in DOMAIN heap |-> IF Marked(o) THEN updatePointersOf(o) ELSE heap[o]]
      /\ root' = [s \in DOMAIN root |-> updatePointer(root[s])]
      /\ UNCHANGED <<size, capacity, nativeColor, queued, disableCount, raw, rawId, atSafePoint,
                     pending, freeAddress, freeCount>>
  BY DEF UpdatePointers
<1>2. \A p \in DOMAIN heap :
        /\ p \in Nat \ {0} /\ Base(p) = p - 1 /\ Extent(p) \in Nat \ {0}
        /\ End(p) = Base(p) + Extent(p) /\ WordBefore(p) = heap[p].fwd
        /\ heap[p].fwd \in Nat /\ heap[p] \in Object(heap[p].slotCount)
  <2>1. \A p \in DOMAIN heap : heap[p].slotCount \in SlotCounts /\ heap[p] \in Object(heap[p].slotCount)
    BY <1>0 DEF TypeOK, HeapType
  <2>2. QED BY <1>0, <2>1, Layout, Sizes DEF WordBefore, End
<1>3. live = size /\ Tiles(DOMAIN heap, 0, size)
  BY <1>0, <1>1 DEF PlaceInv, Compacting, HeapInv
<1>4. \A p : p \in Settled <=> p \in DOMAIN heap /\ Marked(p)
  <2>1. \A p \in DOMAIN heap : End(p) <= size
    BY <1>3 DEF Tiles
  <2>2. \A p \in DOMAIN heap : Base(p) < live
    BY <2>1, <1>0, <1>2, <1>3
  <2>3. \A p : p \in Settled <=> p \in DOMAIN heap /\ Base(p) < live /\ Marked(p)
    BY <1>1 DEF Settled
  <2>4. QED BY <2>2, <2>3
<1>5. \A p \in Settled : Place(p) = heap[p].fwd
  BY <1>1 DEF Place
<1>6. ASSUME NEW v, Valid(v)
      PROVE  updatePointer(v) = IF v \in DOMAIN heap THEN IF Marked(v) THEN Place(v) ELSE Nil ELSE v
  <2>1. CASE v \in DOMAIN heap /\ Marked(v)
    BY <2>1, <1>2, <1>4, <1>5 DEF updatePointer, isPointer
  <2>2. CASE v \in DOMAIN heap /\ ~Marked(v)
    BY <2>2, <1>2 DEF updatePointer, isPointer
  <2>3. CASE v = Nil
    BY <2>3, <1>2 DEF updatePointer, isPointer, Nil
  <2>4. CASE v = Immediate
    BY <2>4, <1>2 DEF updatePointer, isPointer, Immediate
  <2>5. QED BY <1>6, <2>1, <2>2, <2>3, <2>4 DEF Valid
<1>7. ASSUME NEW v, Valid(v) PROVE updatePointer(v) \in Oop
  BY <1>6, <1>7, <1>2, <1>4, <1>5 DEF Oop, Nil, Immediate, Valid
<1>8. /\ DOMAIN heap' = DOMAIN heap
      /\ \A p \in DOMAIN heap :
           /\ heap'[p] \in Object(heap[p].slotCount) /\ heap'[p].slotCount = heap[p].slotCount
           /\ heap'[p].color = heap[p].color /\ heap'[p].fwd = heap[p].fwd
           /\ heap'[p].id = heap[p].id /\ heap'[p].weak = heap[p].weak
           /\ DOMAIN heap'[p].slots = DOMAIN heap[p].slots
           /\ Marked(p) => \A i \in DOMAIN heap[p].slots :
                              heap'[p].slots[i] = updatePointer(heap[p].slots[i])
  <2>1. ASSUME NEW p \in DOMAIN heap, Marked(p)
        PROVE  /\ heap'[p] \in Object(heap[p].slotCount) /\ heap'[p].slotCount = heap[p].slotCount
               /\ heap'[p].color = heap[p].color /\ heap'[p].fwd = heap[p].fwd
               /\ heap'[p].id = heap[p].id /\ heap'[p].weak = heap[p].weak
               /\ DOMAIN heap'[p].slots = DOMAIN heap[p].slots
               /\ \A i \in DOMAIN heap[p].slots :
                     heap'[p].slots[i] = updatePointer(heap[p].slots[i])
    <3>1. PICK t : t = [i \in DOMAIN heap[p].slots |-> updatePointer(heap[p].slots[i])]
      OBVIOUS
    <3>2. heap[p].slots \in [1..heap[p].slotCount -> Oop]
      BY <1>2 DEF Object
    <3>3. \A i \in DOMAIN heap[p].slots : Valid(heap[p].slots[i])
      BY <1>0, <1>1 DEF PointerInv
    <3>4. t \in [1..heap[p].slotCount -> Oop]
      BY <1>7, <3>1, <3>2, <3>3
    <3>5. heap'[p] = [heap[p] EXCEPT !.slots = t]
      BY <1>1, <2>1, <3>1 DEF updatePointersOf
    <3>6. heap'[p].slots = t /\ DOMAIN t = DOMAIN heap[p].slots
      BY <1>2, <3>1, <3>5 DEF Object
    <3>7. /\ heap'[p] \in Object(heap[p].slotCount) /\ heap'[p].slotCount = heap[p].slotCount
          /\ heap'[p].color = heap[p].color /\ heap'[p].fwd = heap[p].fwd
          /\ heap'[p].id = heap[p].id /\ heap'[p].weak = heap[p].weak
      BY <1>2, <3>4, <3>5 DEF Object
    <3>8. QED BY <3>1, <3>6, <3>7
  <2>2. \A p \in DOMAIN heap : ~Marked(p) => heap'[p] = heap[p]
    BY <1>1
  <2>3. QED BY <1>1, <1>2, <2>1, <2>2
<1>9. \A p \in DOMAIN heap : /\ Base(p)' = Base(p) /\ Extent(p)' = Extent(p) /\ End(p)' = End(p)
                             /\ Marked(p)' <=> Marked(p)
  BY <1>8, SameLayout DEF Marked
<1>10. Settled' = Settled /\ \A p \in Settled : Place(p)' = Place(p)
  <2>1. \A p : p \in Settled' <=> p \in DOMAIN heap /\ Marked(p)
    BY <1>1, <1>2, <1>8, <1>9 DEF Settled
  <2>2. \A p \in Settled : Place(p)' = heap[p].fwd
    BY <1>1, <1>2, <1>4, <1>8 DEF Place
  <2>3. QED BY <2>1, <2>2, <1>4, <1>5
<1>11. heap' = [p \in DOMAIN heap |-> heap'[p]]
  BY <1>1, <1>8
<1>12. QED BY <1>2, <1>3, <1>4, <1>5, <1>6, <1>8, <1>9, <1>10, <1>11

\* The update of the pointers preserves the invariant.
LEMMA UpdateStep ==
  ASSUME SmallObjects, IInv, UpdatePointers
  PROVE  IInv'
<1>0. TypeOK /\ HeapInv /\ PlaceInv /\ PointerInv /\ live \in Nat /\ size \in Nat
  BY DEF IInv, TypeOK, HeapType, CollectorType
<1>1. /\ phase = "forward" /\ phase' = "move" /\ live >= size /\ live' = 0
      /\ root' = [s \in DOMAIN root |-> updatePointer(root[s])]
      /\ UNCHANGED <<size, capacity, nativeColor, queued, disableCount, raw, rawId, atSafePoint,
                     pending, freeAddress, freeCount>>
  BY DEF UpdatePointers
<1>2. \A p \in DOMAIN heap :
        /\ p \in Nat \ {0} /\ Base(p) = p - 1 /\ Extent(p) \in Nat \ {0}
        /\ End(p) = Base(p) + Extent(p) /\ heap[p].fwd \in Nat
  BY UpdateFacts
<1>3. live = size /\ Tiles(DOMAIN heap, 0, size)
  BY UpdateFacts
<1>4. \A p : p \in Settled <=> p \in DOMAIN heap /\ Marked(p)
  BY UpdateFacts
<1>5. \A p \in Settled : Place(p) = heap[p].fwd
  BY UpdateFacts
<1>6. ASSUME NEW v, Valid(v)
      PROVE  updatePointer(v) \in {Place(p) : p \in Settled} \cup {Nil, Immediate}
  BY <1>4, <1>6, UpdateFacts DEF Valid
<1>7. ASSUME NEW v, Valid(v) PROVE updatePointer(v) \in Oop
  BY <1>6, <1>7, <1>2, <1>4, <1>5 DEF Oop, Nil, Immediate
<1>8. /\ DOMAIN heap' = DOMAIN heap /\ heap' = [p \in DOMAIN heap |-> heap'[p]]
      /\ \A p \in DOMAIN heap :
           /\ heap'[p] \in Object(heap[p].slotCount) /\ heap'[p].slotCount = heap[p].slotCount
           /\ heap'[p].color = heap[p].color /\ heap'[p].fwd = heap[p].fwd
           /\ DOMAIN heap'[p].slots = DOMAIN heap[p].slots
           /\ Marked(p) => \A i \in DOMAIN heap[p].slots :
                              heap'[p].slots[i] = updatePointer(heap[p].slots[i])
  BY UpdateFacts
<1>9. \A p \in DOMAIN heap : /\ Base(p)' = Base(p) /\ Extent(p)' = Extent(p) /\ End(p)' = End(p)
                             /\ Marked(p)' <=> Marked(p)
  BY UpdateFacts
<1>10. Settled' = Settled /\ \A p \in Settled : Place(p)' = Place(p)
  BY UpdateFacts
<1>11. TypeOK'
  <2>1. HeapType'
    BY <1>0, <1>1, <1>8 DEF TypeOK, HeapType
  <2>2. \A s \in DOMAIN root : root'[s] \in Oop
    BY <1>0, <1>1, <1>7 DEF PointerInv
  <2>3. ProgramType'
    BY <2>2, <1>0, <1>1 DEF TypeOK, ProgramType
  <2>4. CollectorType'
    BY <1>0, <1>1 DEF TypeOK, CollectorType, Phases
  <2>5. QED BY <2>1, <2>3, <2>4 DEF TypeOK
<1>12. HeapInv'
  <2>1. \A p \in DOMAIN heap : Base(p) >= 0
    BY <1>3 DEF Tiles
  <2>2. {o \in DOMAIN heap' : Base(o)' >= live'} = DOMAIN heap
    BY <2>1, <1>1, <1>8, <1>9
  <2>3. QED BY <2>2, <1>1, <1>3, <1>9 DEF HeapInv, Tiles
<1>13. PlaceInv'
  <2>1. /\ freeAddress <= size
        /\ \A p \in Settled : Place(p) \in 1..p /\ Place(p) - 1 + Extent(p) <= freeAddress
        /\ \A p, q \in Settled : p < q => Place(p) + Extent(p) <= Place(q)
        /\ \A p \in Settled : \/ Place(p) - 1 + Extent(p) = freeAddress
                              \/ \E q \in Settled : Place(q) = Place(p) + Extent(p)
        /\ freeAddress = 0 \/ \E p \in Settled : Place(p) = 1
    BY <1>0, <1>1 DEF PlaceInv, Compacting
  <2>2. 0 = size \/ \E p \in DOMAIN heap : Base(p) = 0
    BY <1>3 DEF Tiles
  <2>3. \A p \in Settled : Place(p)' = Place(p) /\ Extent(p)' = Extent(p)
    BY <1>4, <1>9, <1>10
  <2>4. 0 <= size
    BY <1>0
  <2>5. QED BY <2>1, <2>2, <2>3, <2>4, <1>1, <1>8, <1>9, <1>10 DEF PlaceInv, Compacting
<1>14. PointerInv'
  <2>1. {Place(p) : p \in Settled}' = {Place(p) : p \in Settled}
    BY <1>10
  <2>2. \A s \in DOMAIN root : root'[s] \in {Place(p) : p \in Settled} \cup {Nil, Immediate}
    BY <1>0, <1>1, <1>6 DEF PointerInv
  <2>3. \A p \in Settled : \A i \in DOMAIN heap[p].slots :
           heap'[p].slots[i] \in {Place(q) : q \in Settled} \cup {Nil, Immediate}
    BY <1>0, <1>1, <1>4, <1>6, <1>8 DEF PointerInv
  <2>4. QED BY <2>1, <2>2, <2>3, <1>1, <1>4, <1>8, <1>10 DEF PointerInv, ValidPlace
<1>15. ColorInv' /\ MarkInv'
  <2>1. \A p \in DOMAIN heap' : ~(Base(p)' < live')
    BY <1>1, <1>2, <1>8, <1>9
  <2>2. QED BY <2>1, <1>1 DEF ColorInv, MarkInv
<1>16. QED
  BY <1>11, <1>12, <1>13, <1>14, <1>15 DEF IInv

\* At the end of the compaction every object is at its place, and the invariant holds.
LEMMA EndStep ==
  ASSUME SmallObjects, IInv, EndCompaction
  PROVE  IInv' /\ Settled = DOMAIN heap /\ \A p \in DOMAIN heap : Place(p) = p
<1>0. TypeOK /\ HeapInv /\ PlaceInv /\ PointerInv /\ ColorInv /\ live \in Nat /\ size \in Nat
  BY DEF IInv, TypeOK, HeapType, CollectorType
<1>1. /\ phase = "move" /\ phase' = "idle" /\ live >= size /\ size' = freeAddress
      /\ nativeColor' = White /\ queued' \in BOOLEAN
      /\ atSafePoint' = FALSE /\ live' = 0 /\ freeAddress' = 0 /\ freeCount' = 0
      /\ UNCHANGED <<heap, capacity, mutator, pending>>
  BY <1>0 DEF EndCompaction, EndCollection
<1>2. \A p \in DOMAIN heap :
        /\ p \in Nat \ {0} /\ Base(p) = p - 1 /\ Extent(p) \in Nat \ {0}
        /\ End(p) = Base(p) + Extent(p)
  BY <1>0, Layout DEF End
<1>3. live = size
  BY <1>0, <1>1 DEF PlaceInv, Compacting
<1>4. \A p \in DOMAIN heap : Base(p) < live
  BY <1>0, <1>1, <1>2, <1>3 DEF HeapInv, Tiles
<1>5. Settled = DOMAIN heap /\ \A p \in DOMAIN heap : Place(p) = p
  <2>1. \A p : p \in Settled <=> p \in DOMAIN heap /\ (Base(p) < live \/ Marked(p))
    BY <1>1 DEF Settled
  <2>2. \A p \in DOMAIN heap : p <= live
    BY <1>0, <1>2, <1>4
  <2>3. QED BY <2>1, <2>2, <1>1, <1>4 DEF Place
<1>6. TypeOK'
  BY <1>0, <1>1 DEF TypeOK, HeapType, ProgramType, CollectorType, Phases, mutator
<1>7. Tiles(DOMAIN heap, 0, size)'
  <2>1. /\ \A p \in DOMAIN heap : p - 1 + Extent(p) <= freeAddress
        /\ \A p, q \in DOMAIN heap : p < q => p + Extent(p) <= q
        /\ \A p \in DOMAIN heap : \/ p - 1 + Extent(p) = freeAddress
                                  \/ \E q \in DOMAIN heap : q = p + Extent(p)
        /\ freeAddress = 0 \/ \E p \in DOMAIN heap : p = 1
    BY <1>0, <1>1, <1>5 DEF PlaceInv, Compacting
  <2>2. Tiles(DOMAIN heap, 0, freeAddress)
    BY <2>1, <1>2 DEF Tiles
  <2>3. QED BY <2>2, <1>1 DEF Tiles, Base, End, Extent
<1>8. \A v : ValidPlace(v) => v \in DOMAIN heap \cup {Nil, Immediate}
  BY <1>5 DEF ValidPlace
<1>9. (\A s \in DOMAIN root : Valid(root[s]))'
  BY <1>0, <1>1, <1>8 DEF PointerInv, Valid, mutator
<1>10. (\A o \in DOMAIN heap : \A i \in DOMAIN heap[o].slots : Valid(heap[o].slots[i]))'
  BY <1>0, <1>1, <1>5, <1>8 DEF PointerInv, Valid
<1>11. (\A o \in DOMAIN heap : ~Marked(o))'
  BY <1>0, <1>1, <1>4 DEF ColorInv, Marked
<1>12. QED
  BY <1>1, <1>5, <1>6, <1>7, <1>9, <1>10, <1>11, IdleInvNext

\* What the third pass has behind it and before it, at the object o.
LEMMA MoveWalk ==
  ASSUME SmallObjects, IInv, phase = "move", live < size, NEW o, o = live + 1
  PROVE  /\ o \in DOMAIN heap /\ ObjectAt(live) = o /\ live + Extent(o) <= size
         /\ \A p \in DOMAIN heap :
              /\ p \in Nat \ {0} /\ Base(p) = p - 1 /\ Extent(p) \in Nat \ {0}
              /\ End(p) = Base(p) + Extent(p)
              /\ p < o => p \in Settled /\ Place(p) = p /\ ~Marked(p)
              /\ p >= o => Place(p) = heap[p].fwd /\ (p \in Settled <=> Marked(p))
              /\ p > o => p > live + Extent(o)
         /\ Tiles({p \in DOMAIN heap : p > o}, live + Extent(o), size)
<1>0. TypeOK /\ HeapInv /\ PlaceInv /\ ColorInv /\ live \in Nat /\ size \in Nat
  BY DEF IInv, TypeOK, HeapType, CollectorType
<1>1. o \in DOMAIN heap /\ ObjectAt(live) = o
  BY AtLive DEF Compacting
<1>2. \A p \in DOMAIN heap :
        /\ p \in Nat \ {0} /\ Base(p) = p - 1 /\ Extent(p) \in Nat \ {0}
        /\ End(p) = Base(p) + Extent(p)
  BY <1>0, Layout DEF End
<1>3. \A p : p \in Settled <=> p \in DOMAIN heap /\ (Base(p) < live \/ Marked(p))
  BY DEF Settled
<1>4. \A p \in DOMAIN heap : p < o => p \in Settled /\ Place(p) = p /\ ~Marked(p)
  <2>1. \A p \in DOMAIN heap : p < o => Base(p) < live /\ p <= live
    BY <1>0, <1>2
  <2>2. QED BY <2>1, <1>0, <1>3 DEF Place, ColorInv
<1>5. \A p \in DOMAIN heap : p >= o => Place(p) = heap[p].fwd /\ (p \in Settled <=> Marked(p))
  <2>1. \A p \in DOMAIN heap : p >= o => ~(Base(p) < live) /\ ~(p <= live)
    BY <1>0, <1>2
  <2>2. QED BY <2>1, <1>3 DEF Place
<1>6. /\ \A p \in DOMAIN heap : p >= o => End(p) <= size
      /\ \A p, q \in DOMAIN heap : p >= o /\ p < q => End(p) <= Base(q)
      /\ \A p \in DOMAIN heap : p >= o => End(p) = size \/ \E q \in DOMAIN heap : q >= o /\ Base(q) = End(p)
  <2>1. Tiles({p \in DOMAIN heap : Base(p) >= live}, live, size)
    BY <1>0 DEF HeapInv
  <2>2. {p \in DOMAIN heap : Base(p) >= live} = {p \in DOMAIN heap : p >= o}
    BY <1>0, <1>2
  <2>3. \A p, q \in DOMAIN heap : p >= o /\ p < q => q >= o
    BY <1>0, <1>2
  <2>4. Tiles({p \in DOMAIN heap : p >= o}, live, size)
    BY <2>1, <2>2
  <2>5. QED BY <2>3, <2>4 DEF Tiles
<1>7. End(o) = live + Extent(o) /\ End(o) > live
  BY <1>0, <1>1, <1>2
<1>8. \A p \in DOMAIN heap : p > o => p > live + Extent(o)
  BY <1>0, <1>1, <1>2, <1>6, <1>7
<1>9. Tiles({p \in DOMAIN heap : p > o}, End(o), size)
  <2> DEFINE D == {p \in DOMAIN heap : p > o}
  <2>1. \A p \in D : End(o) <= Base(p) /\ End(p) <= size
    BY <1>0, <1>1, <1>2, <1>6
  <2>2. \A p, q \in D : p < q => End(p) <= Base(q)
    BY <1>0, <1>2, <1>6
  <2>3. \A p \in D \cup {o} : End(p) = size \/ \E q \in D : Base(q) = End(p)
    <3>1. \A p \in D \cup {o} : p \in DOMAIN heap /\ p >= o
      BY <1>0, <1>1, <1>2
    <3>2. \A p \in D \cup {o}, q \in DOMAIN heap : q >= o /\ Base(q) = End(p) => q > o
      BY <3>1, <1>0, <1>2
    <3>3. QED BY <3>1, <3>2, <1>6
  <2>4. QED BY <2>1, <2>2, <2>3 DEF Tiles
<1>10. QED
  BY <1>1, <1>2, <1>4, <1>5, <1>6, <1>7, <1>8, <1>9, <1>0

\* A condemned object is left behind.
LEMMA SkipStep ==
  ASSUME SmallObjects, IInv, MoveObject, ~Marked(live + 1)
  PROVE  IInv' /\ \A k : Compacted(k) => Compacted(k)'
<1>0. TypeOK /\ HeapInv /\ PlaceInv /\ PointerInv /\ ColorInv /\ live \in Nat /\ size \in Nat
  BY DEF IInv, TypeOK, HeapType, CollectorType
<1>1. /\ phase = "move" /\ phase' = "move" /\ live < size
      /\ UNCHANGED <<size, capacity, nativeColor, queued, mutator, atSafePoint, pending,
                     freeAddress, freeCount>>
  BY DEF MoveObject
<1>2. PICK o : o = live + 1
  OBVIOUS
<1>3. /\ o \in DOMAIN heap /\ ObjectAt(live) = o /\ live + Extent(o) <= size
      /\ Tiles({p \in DOMAIN heap : p > o}, live + Extent(o), size)
  BY <1>1, <1>2, MoveWalk
<1>4. \A p \in DOMAIN heap :
        /\ p \in Nat \ {0} /\ Base(p) = p - 1 /\ Extent(p) \in Nat \ {0}
        /\ End(p) = Base(p) + Extent(p)
        /\ p < o => p \in Settled /\ Place(p) = p /\ ~Marked(p)
        /\ p >= o => Place(p) = heap[p].fwd /\ (p \in Settled <=> Marked(p))
        /\ p > o => p > live + Extent(o)
  BY <1>1, <1>2, MoveWalk
<1>5. live' = live + Extent(o) /\ live' \in Nat /\ heap' = [p \in DOMAIN heap \ {o} |-> heap[p]]
  BY <1>0, <1>2, <1>3, <1>4 DEF MoveObject
<1>6. /\ DOMAIN heap' = DOMAIN heap \ {o}
      /\ \A p \in DOMAIN heap \ {o} : heap'[p] = heap[p]
  BY <1>5
<1>7. \A p \in DOMAIN heap \ {o} : /\ Base(p)' = Base(p) /\ Extent(p)' = Extent(p)
                                   /\ End(p)' = End(p) /\ (Marked(p)' <=> Marked(p))
  BY <1>6 DEF Base, Extent, End, Marked
<1>8. \A p \in DOMAIN heap \ {o} : (Base(p) < live' <=> p < o) /\ (p <= live' <=> p < o)
  BY <1>0, <1>2, <1>3, <1>4, <1>5
<1>9. Settled' = Settled /\ o \notin Settled
  <2>1. o \notin Settled
    BY <1>0, <1>1, <1>2, <1>3, <1>4
  <2>2. \A p : p \in Settled <=> p \in DOMAIN heap \ {o} /\ (p < o \/ Marked(p))
    BY <2>1, <1>0, <1>2, <1>4 DEF Settled
  <2>3. \A p : p \in Settled' <=> p \in DOMAIN heap \ {o} /\ (p < o \/ Marked(p))
    BY <1>1, <1>6, <1>7, <1>8 DEF Settled
  <2>4. QED BY <2>1, <2>2, <2>3
<1>10. \A p \in Settled : /\ p \in DOMAIN heap \ {o} /\ Place(p)' = Place(p)
                          /\ Extent(p)' = Extent(p) /\ heap'[p] = heap[p]
  <2>1. \A p \in Settled : p \in DOMAIN heap \ {o}
    BY <1>9 DEF Settled
  <2>2. \A p \in DOMAIN heap \ {o} : Place(p)' = IF p < o THEN p ELSE heap[p].fwd
    BY <1>1, <1>6, <1>8 DEF Place
  <2>3. QED BY <2>1, <2>2, <1>0, <1>2, <1>4, <1>6, <1>7
<1>11. TypeOK'
  BY <1>0, <1>1, <1>5, <1>6 DEF TypeOK, HeapType, ProgramType, CollectorType, mutator
<1>12. HeapInv'
  <2>1. {p \in DOMAIN heap' : Base(p)' >= live'} = {p \in DOMAIN heap : p > o}
    BY <1>0, <1>2, <1>4, <1>5, <1>6, <1>7, <1>8
  <2>2. QED BY <2>1, <1>0, <1>1, <1>2, <1>3, <1>4, <1>5, <1>7 DEF HeapInv, Tiles
<1>13. PlaceInv'
  <2>1. /\ freeAddress <= size
        /\ \A p \in Settled : Place(p) \in 1..p /\ Place(p) - 1 + Extent(p) <= freeAddress
        /\ \A p, q \in Settled : p < q => Place(p) + Extent(p) <= Place(q)
        /\ \A p \in Settled : \/ Place(p) - 1 + Extent(p) = freeAddress
                              \/ \E q \in Settled : Place(q) = Place(p) + Extent(p)
        /\ freeAddress = 0 \/ \E p \in Settled : Place(p) = 1
    BY <1>0, <1>1 DEF PlaceInv, Compacting
  <2>2. live' = size \/ \E p \in DOMAIN heap' : Base(p)' = live'
    BY <1>0, <1>2, <1>3, <1>4, <1>5, <1>6, <1>7 DEF Tiles
  <2>3. (\A p \in Settled : Place(p) \in 1..p /\ Place(p) - 1 + Extent(p) <= freeAddress)'
    BY <2>1, <1>1, <1>9, <1>10
  <2>4. (\A p, q \in Settled : p < q => Place(p) + Extent(p) <= Place(q))'
    BY <2>1, <1>9, <1>10
  <2>5. (\A p \in Settled : \/ Place(p) - 1 + Extent(p) = freeAddress
                            \/ \E q \in Settled : Place(q) = Place(p) + Extent(p))'
    BY <2>1, <1>1, <1>9, <1>10
  <2>6. (freeAddress = 0 \/ \E p \in Settled : Place(p) = 1)' BY <2>1, <1>1, <1>9, <1>10
  <2>7. live' <= size' /\ freeAddress' <= size' BY <2>1, <1>0, <1>1, <1>3, <1>5
  <2>8. QED BY <2>2, <2>3, <2>4, <2>5, <2>6, <2>7, <1>1 DEF PlaceInv
<1>14. PointerInv'
  <2>1. {Place(p) : p \in Settled}' = {Place(p) : p \in Settled}
    BY <1>9, <1>10
  <2>2. \A s \in DOMAIN root : root[s] \in {Place(p) : p \in Settled} \cup {Nil, Immediate}
    BY <1>0, <1>1 DEF PointerInv, ValidPlace
  <2>3. \A p \in Settled : \A i \in DOMAIN heap[p].slots :
           heap[p].slots[i] \in {Place(q) : q \in Settled} \cup {Nil, Immediate}
    BY <1>0, <1>1 DEF PointerInv, ValidPlace
  <2>4. QED BY <2>1, <2>2, <2>3, <1>1, <1>9, <1>10 DEF PointerInv, ValidPlace, mutator
<1>15. ColorInv' /\ MarkInv'
  BY <1>1, <1>4, <1>6, <1>7, <1>8 DEF ColorInv, MarkInv
<1>16. ASSUME NEW k, Compacted(k) PROVE Compacted(k)'
  <2>1. /\ DOMAIN k = {Place(p) : p \in Settled}
        /\ \A p \in Settled : /\ k[Place(p)].id = heap[p].id /\ k[Place(p)].weak = heap[p].weak
                              /\ k[Place(p)].slots = heap[p].slots
    BY <1>16 DEF Compacted
  <2>2. {Place(p) : p \in Settled}' = {Place(p) : p \in Settled}
    BY <1>9, <1>10
  <2>3. \A p \in Settled' : k[Place(p)'].id = heap'[p].id
    BY <2>1, <1>9, <1>10
  <2>4. \A p \in Settled' : k[Place(p)'].weak = heap'[p].weak
    BY <2>1, <1>9, <1>10
  <2>5. \A p \in Settled' : k[Place(p)'].slots = heap'[p].slots
    BY <2>1, <1>9, <1>10
  <2>6. QED BY <2>1, <2>2, <2>3, <2>4, <2>5 DEF Compacted
<1>17. QED
  BY <1>11, <1>12, <1>13, <1>14, <1>15, <1>16 DEF IInv

\* A live object is moved: nothing but itself is at its destination.
LEMMA MoveStep ==
  ASSUME SmallObjects, IInv, MoveObject, Marked(live + 1)
  PROVE  IInv' /\ \A k : Compacted(k) => Compacted(k)'
<1>0. TypeOK /\ HeapInv /\ PlaceInv /\ PointerInv /\ ColorInv
      /\ live \in Nat /\ size \in Nat /\ freeAddress \in Nat
  BY DEF IInv, TypeOK, HeapType, CollectorType
<1>1. /\ phase = "move" /\ phase' = "move" /\ live < size
      /\ UNCHANGED <<size, capacity, nativeColor, queued, mutator, atSafePoint, pending,
                     freeAddress, freeCount>>
  BY DEF MoveObject
<1>2. PICK o : o = live + 1
  OBVIOUS
<1>3. /\ o \in DOMAIN heap /\ ObjectAt(live) = o /\ live + Extent(o) <= size /\ Marked(o)
      /\ Tiles({p \in DOMAIN heap : p > o}, live + Extent(o), size)
  BY <1>1, <1>2, MoveWalk
<1>4. \A p \in DOMAIN heap :
        /\ p \in Nat \ {0} /\ Base(p) = p - 1 /\ Extent(p) \in Nat \ {0}
        /\ End(p) = Base(p) + Extent(p)
        /\ p < o => p \in Settled /\ Place(p) = p /\ ~Marked(p)
        /\ p >= o => Place(p) = heap[p].fwd /\ (p \in Settled <=> Marked(p))
        /\ p > o => p > live + Extent(o)
  BY <1>1, <1>2, MoveWalk
<1>5. PICK f : f = heap[o].fwd
  OBVIOUS
<1>6. o \in Settled /\ Place(o) = f /\ o \in Nat
  BY <1>0, <1>2, <1>3, <1>4, <1>5
<1>7. /\ freeAddress <= size
      /\ \A p \in Settled : Place(p) \in 1..p /\ Place(p) - 1 + Extent(p) <= freeAddress
      /\ \A p, q \in Settled : p < q => Place(p) + Extent(p) <= Place(q)
      /\ \A p \in Settled : \/ Place(p) - 1 + Extent(p) = freeAddress
                            \/ \E q \in Settled : Place(q) = Place(p) + Extent(p)
      /\ freeAddress = 0 \/ \E p \in Settled : Place(p) = 1
  BY <1>0, <1>1 DEF PlaceInv, Compacting
<1>8. f \in 1..o
  BY <1>6, <1>7
<1>9. \A p \in DOMAIN heap \ {o} : /\ p < o => p + Extent(p) <= f
                                   /\ ~Overlaps(p, f - 1, Extent(o))
  <2>1. ASSUME NEW p \in DOMAIN heap, p < o
        PROVE  p + Extent(p) <= f /\ ~Overlaps(p, f - 1, Extent(o))
    <3>1. p + Extent(p) <= f
      BY <2>1, <1>4, <1>6, <1>7
    <3>2. End(p) <= f - 1 /\ End(p) \in Nat
      BY <3>1, <1>4, <1>8
    <3>3. QED BY <3>1, <3>2, <1>8 DEF Overlaps
  <2>2. ASSUME NEW p \in DOMAIN heap, p > o PROVE ~Overlaps(p, f - 1, Extent(o))
    BY <2>2, <1>0, <1>2, <1>3, <1>4, <1>8 DEF Overlaps
  <2>3. QED BY <2>1, <2>2, <1>4, <1>6
<1>10. f \notin DOMAIN heap \ {o}
  <2>1. SUFFICES ASSUME f \in DOMAIN heap \ {o} PROVE FALSE
    OBVIOUS
  <2>2. f < o
    BY <2>1, <1>6, <1>8
  <2>3. QED BY <2>1, <2>2, <1>4, <1>9
<1>11. /\ live' = live + Extent(o) /\ live' \in Nat
       /\ heap' = [p \in (DOMAIN heap \ {o}) \cup {f} |->
                     IF p = f THEN [heap[o] EXCEPT !.color = White] ELSE heap[p]]
  <2>1. extraHeaderSize(heap[o].slotCount) = 1
    BY <1>0, <1>3, Sizes DEF TypeOK, HeapType
  <2>2. getForwardingDestination(o) = f - 1
    BY <2>1, <1>5 DEF getForwardingDestination
  <2>3. {p \in DOMAIN heap \ {o} : ~Overlaps(p, f - 1, Extent(o))} = DOMAIN heap \ {o}
    BY <1>9
  <2>4. f - 1 + 1 = f
    BY <1>8
  <2>5. QED BY <2>1, <2>2, <2>3, <2>4, <1>0, <1>3, <1>4 DEF MoveObject
<1>12. /\ DOMAIN heap' = (DOMAIN heap \ {o}) \cup {f}
       /\ \A p \in DOMAIN heap \ {o} : heap'[p] = heap[p]
       /\ heap'[f] \in Object(heap[o].slotCount) /\ heap'[f].slotCount = heap[o].slotCount
       /\ heap'[f].slots = heap[o].slots /\ heap'[f].color = White
       /\ heap'[f].id = heap[o].id /\ heap'[f].weak = heap[o].weak
  <2>1. heap[o] \in Object(heap[o].slotCount)
    BY <1>0, <1>3 DEF TypeOK, HeapType
  <2>2. heap'[f] = [heap[o] EXCEPT !.color = White]
    BY <1>11
  <2>3. QED BY <2>1, <2>2, <1>10, <1>11 DEF Object
<1>13. /\ \A p \in DOMAIN heap \ {o} : /\ Base(p)' = Base(p) /\ Extent(p)' = Extent(p)
                                       /\ End(p)' = End(p) /\ (Marked(p)' <=> Marked(p))
       /\ Base(f)' = f - 1 /\ Extent(f)' = Extent(o) /\ ~Marked(f)'
  <2>1. \A p \in DOMAIN heap \ {o} : /\ Base(p)' = Base(p) /\ Extent(p)' = Extent(p)
                                     /\ End(p)' = End(p) /\ (Marked(p)' <=> Marked(p))
    BY <1>12 DEF Base, Extent, End, Marked
  <2>2. extraHeaderSize(heap[o].slotCount) = 1
    BY <1>0, <1>3, Sizes DEF TypeOK, HeapType
  <2>3. QED BY <2>1, <2>2, <1>12 DEF Base, Extent, Marked
<1>14. /\ \A p \in DOMAIN heap \ {o} : (Base(p) < live' <=> p < o) /\ (p <= live' <=> p < o)
       /\ f - 1 < live' /\ f <= live'
  BY <1>0, <1>2, <1>3, <1>4, <1>8, <1>11
<1>15. /\ \A p : p \in Settled <=> p \in DOMAIN heap /\ (p < o \/ p = o \/ Marked(p))
       /\ \A p : p \in Settled' <=> p = f \/ (p \in DOMAIN heap \ {o} /\ (p < o \/ Marked(p)))
  <2>1. Settled \subseteq DOMAIN heap
    BY DEF Settled
  <2>2. \A p : p \in Settled <=> p \in DOMAIN heap /\ (p < o \/ p = o \/ Marked(p))
    BY <2>1, <1>0, <1>2, <1>4, <1>6
  <2>3. \A p : p \in Settled' <=> p \in DOMAIN heap' /\ (Base(p)' < live' \/ Marked(p)')
    BY <1>1 DEF Settled
  <2>4. QED BY <2>2, <2>3, <1>12, <1>13, <1>14
<1>16. /\ \A p \in Settled : p # o => /\ p \in Settled' /\ p \in DOMAIN heap \ {o}
                                      /\ Place(p)' = Place(p) /\ Extent(p)' = Extent(p)
                                      /\ heap'[p] = heap[p]
       /\ f \in Settled' /\ Place(f)' = f
       /\ \A p \in Settled' : p = f \/ (p \in Settled /\ p # o)
  <2>1. \A p \in DOMAIN heap \ {o} : Place(p)' = IF p < o THEN p ELSE heap[p].fwd
    BY <1>1, <1>12, <1>14 DEF Place
  <2>2. Place(f)' = f
    BY <1>1, <1>14 DEF Place
  <2>3. \A p \in DOMAIN heap \ {o} : Place(p)' = Place(p)
    BY <2>1, <1>0, <1>2, <1>4
  <2>4. QED BY <2>2, <2>3, <1>12, <1>13, <1>15
<1>17. TypeOK'
  <2>1. HeapType'
    <3>1. DOMAIN heap' \subseteq Nat \ {0}
      BY <1>4, <1>8, <1>12
    <3>2. \A p \in DOMAIN heap' : heap'[p].slotCount \in SlotCounts /\ heap'[p] \in Object(heap'[p].slotCount)
      BY <1>0, <1>3, <1>12 DEF TypeOK, HeapType
    <3>3. heap' = [p \in DOMAIN heap' |-> heap'[p]]
      BY <1>11
    <3>4. QED BY <3>1, <3>2, <3>3, <1>0, <1>1 DEF TypeOK, HeapType
  <2>2. ProgramType' /\ CollectorType'
    BY <1>0, <1>1, <1>11 DEF TypeOK, ProgramType, CollectorType, mutator
  <2>3. QED BY <2>1, <2>2 DEF TypeOK
<1>18. HeapInv'
  <2>1. {p \in DOMAIN heap' : Base(p)' >= live'} = {p \in DOMAIN heap : p > o}
    BY <1>0, <1>2, <1>4, <1>8, <1>11, <1>12, <1>13, <1>14
  <2>2. \A p \in DOMAIN heap : p > o => p \in DOMAIN heap \ {o}
    BY <1>6
  <2>3. QED BY <2>1, <2>2, <1>1, <1>3, <1>11, <1>13 DEF HeapInv, Tiles
<1>19. PlaceInv'
  <2>1. live' = size \/ \E p \in DOMAIN heap' : Base(p)' = live'
    <3>1. live' = size \/ \E p \in DOMAIN heap : p > o /\ Base(p) = live'
      BY <1>3, <1>11 DEF Tiles
    <3>2. QED BY <3>1, <1>6, <1>12, <1>13
  <2>2. \A p \in Settled' : Place(p)' \in 1..p /\ Place(p)' - 1 + Extent(p)' <= freeAddress
    BY <1>6, <1>7, <1>8, <1>13, <1>16
  <2>3. \A p, q \in Settled' : p < q => Place(p)' + Extent(p)' <= Place(q)'
    <3>1. ASSUME NEW p \in Settled, p # o, NEW q \in Settled, q # o, p < q
          PROVE  Place(p)' + Extent(p)' <= Place(q)'
      BY <3>1, <1>7, <1>16
    <3>2. ASSUME NEW p \in Settled, p # o, p < f PROVE Place(p)' + Extent(p)' <= Place(f)'
      BY <3>2, <1>4, <1>6, <1>7, <1>8, <1>16
    <3>3. ASSUME NEW q \in Settled, q # o, f < q PROVE Place(f)' + Extent(f)' <= Place(q)'
      <4>1. q \in DOMAIN heap /\ q > o
        BY <3>3, <1>4, <1>6, <1>8, <1>9, <1>16
      <4>2. QED BY <3>3, <4>1, <1>6, <1>7, <1>13, <1>16
    <3>4. QED BY <3>1, <3>2, <3>3, <1>8, <1>16
  <2>4. \A p \in Settled' : \/ Place(p)' - 1 + Extent(p)' = freeAddress
                            \/ \E q \in Settled' : Place(q)' = Place(p)' + Extent(p)'
    <3>1. \A q \in Settled : \E r \in Settled' : Place(r)' = Place(q) /\ Extent(r)' = Extent(q)
      BY <1>6, <1>13, <1>16
    <3>2. \A r \in Settled' : \E q \in Settled : Place(r)' = Place(q) /\ Extent(r)' = Extent(q)
      BY <1>6, <1>13, <1>16
    <3>3. QED BY <3>1, <3>2, <1>7
  <2>5. freeAddress = 0 \/ \E p \in Settled' : Place(p)' = 1
    BY <1>6, <1>7, <1>16
  <2>6. QED BY <2>1, <2>2, <2>3, <2>4, <2>5, <1>1, <1>3, <1>7, <1>11 DEF PlaceInv, Compacting
<1>20. PointerInv'
  <2>1. {Place(p) : p \in Settled}' = {Place(p) : p \in Settled}
    <3>1. \A q \in Settled : \E r \in Settled' : Place(r)' = Place(q)
      BY <1>6, <1>16
    <3>2. \A r \in Settled' : \E q \in Settled : Place(r)' = Place(q)
      BY <1>6, <1>16
    <3>3. QED BY <3>1, <3>2
  <2>2. \A s \in DOMAIN root : root[s] \in {Place(p) : p \in Settled} \cup {Nil, Immediate}
    BY <1>0, <1>1 DEF PointerInv, ValidPlace
  <2>3. \A p \in Settled : \A i \in DOMAIN heap[p].slots :
           heap[p].slots[i] \in {Place(q) : q \in Settled} \cup {Nil, Immediate}
    BY <1>0, <1>1 DEF PointerInv, ValidPlace
  <2>4. \A p \in Settled' : \E q \in Settled : heap'[p].slots = heap[q].slots
    BY <1>6, <1>12, <1>16
  <2>5. QED BY <2>1, <2>2, <2>3, <2>4, <1>1 DEF PointerInv, ValidPlace, mutator
<1>21. ColorInv' /\ MarkInv'
  BY <1>1, <1>4, <1>12, <1>13, <1>14 DEF ColorInv, MarkInv
<1>22. ASSUME NEW k, Compacted(k) PROVE Compacted(k)'
  <2>1. /\ DOMAIN k = {Place(p) : p \in Settled}
        /\ \A p \in Settled : /\ k[Place(p)].id = heap[p].id /\ k[Place(p)].weak = heap[p].weak
                              /\ k[Place(p)].slots = heap[p].slots
    BY <1>22 DEF Compacted
  <2>2. {Place(p) : p \in Settled}' = {Place(p) : p \in Settled}
    <3>1. \A q \in Settled : \E r \in Settled' : Place(r)' = Place(q)
      BY <1>6, <1>16
    <3>2. \A r \in Settled' : \E q \in Settled : Place(r)' = Place(q)
      BY <1>6, <1>16
    <3>3. QED BY <3>1, <3>2
  <2>3. \A p \in Settled' : /\ k[Place(p)'].id = heap'[p].id /\ k[Place(p)'].weak = heap'[p].weak
                            /\ k[Place(p)'].slots = heap'[p].slots
    <3>1. /\ k[f].id = heap[o].id /\ k[f].weak = heap[o].weak /\ k[f].slots = heap[o].slots
      BY <2>1, <1>6
    <3>2. ASSUME NEW p \in Settled, p # o
          PROVE  /\ k[Place(p)'].id = heap'[p].id /\ k[Place(p)'].weak = heap'[p].weak
                 /\ k[Place(p)'].slots = heap'[p].slots
      BY <3>2, <2>1, <1>16
    <3>3. /\ k[Place(f)'].id = heap'[f].id /\ k[Place(f)'].weak = heap'[f].weak
          /\ k[Place(f)'].slots = heap'[f].slots
      BY <3>1, <1>12, <1>16
    <3>4. QED BY <3>2, <3>3, <1>16
  <2>4. QED BY <2>1, <2>2, <2>3 DEF Compacted
<1>23. QED
  BY <1>17, <1>18, <1>19, <1>20, <1>21, <1>22 DEF IInv

----------------------------------------------------------------------------
\* Every step of the collector preserves the invariant.
LEMMA CollectorStepInv ==
  ASSUME SmallObjects, IInv, CollectorStep
  PROVE  IInv'
BY MarkStep, StartCompactionStep, ForwardStep, AbortStep, UpdateStep, SkipStep, MoveStep, EndStep
   DEF CollectorStep

\* Every step of the program preserves the invariant.
LEMMA MutatorStepInv ==
  ASSUME SmallObjects, IInv, MutatorStep
  PROVE  IInv'
<1>1. \A n \in SlotCounts : 1..n \subseteq Int
  OBVIOUS
<1>2. ASSUME NEW s \in DOMAIN root, NEW v \in Held, SetRoot(s, v)
      PROVE  IInv'
  BY <1>2, HeldValid, SetRootStep DEF SetRoot
<1>3. QED
  BY <1>1, <1>2, AllocateStep, StoreStep, LoadStep, RegisterStep, UnregisterStep, WithoutGCStep
     DEF MutatorStep

\* A stuttering step preserves the invariant.
LEMMA StutterInv ==
  ASSUME IInv, UNCHANGED vars
  PROVE  IInv'
BY DEF vars, mutator, collector, IInv, TypeOK, HeapType, ProgramType, CollectorType, HeapInv, Tiles,
       Base, End, Extent, PlaceInv, Compacting, Settled, Place, Marked, PointerInv, Valid, ValidPlace,
       ColorInv, MarkInv, Children

\* Every step preserves the invariant.
LEMMA NextInv ==
  ASSUME SmallObjects, IInv, [Next]_vars
  PROVE  IInv'
<1>1. CASE collectionSafePoint \/ performCollection
  BY <1>1, StartStep DEF collectionSafePoint, performCollection
<1>2. QED
  BY <1>1, CollectorStepInv, MutatorStepInv, StutterInv DEF Next

\* The invariant holds in all states.
LEMMA InvariantHolds == ASSUME SmallObjects PROVE Spec => []IInv
<1>1. Init => IInv
  BY InitInv
<1>2. IInv /\ [Next]_vars => IInv'
  BY NextInv
<1>3. QED
  BY <1>1, <1>2, PTL DEF Spec

----------------------------------------------------------------------------
(***************************************************************************)
(* The theorems.                                                           *)
(***************************************************************************)

\* The variables of the allocator and of the collector keep their types: in
\* particular the heap stays within the reserved address space.
THEOREM TypeCorrect == ASSUME SmallObjects PROVE Spec => []TypeOK
<1>1. IInv => TypeOK
  BY DEF IInv
<1>2. QED BY <1>1, InvariantHolds, PTL

\* The assertions of compact() about the ends of its walks hold: every step of
\* a walk is at an object, and the walk ends exactly at the end of the heap.
THEOREM WalksStayOnObjects == ASSUME SmallObjects PROVE Spec => []WalkOnObjects
<1>1. ASSUME IInv, Compacting PROVE live = size \/ (live < size /\ ObjectsAt(live) # {})
  <2>1. live \in Nat /\ size \in Nat /\ live <= size
    BY <1>1 DEF IInv, PlaceInv, TypeOK, HeapType, CollectorType
  <2>2. live = size \/ \E o \in DOMAIN heap : Base(o) = live
    BY <1>1 DEF IInv, PlaceInv
  <2>3. QED BY <2>1, <2>2 DEF ObjectsAt
<1>2. IInv => WalkOnObjects
  BY <1>1 DEF WalkOnObjects, Compacting
<1>3. QED BY <1>2, InvariantHolds, PTL

\* The marking is complete: an object that a root, or a slot of a live strong
\* object, points to is never condemned.
THEOREM MarkingIsComplete == ASSUME SmallObjects PROVE Spec => []NothingReachableCondemned
<1>1. IInv => NothingReachableCondemned
  BY DEF IInv, MarkInv, NothingReachableCondemned
<1>2. QED BY <1>1, InvariantHolds, PTL

\* A collection leaves no root and no slot that points to memory which is not
\* an object.
THEOREM NothingDangles == ASSUME SmallObjects PROVE Spec => []NoDangling
<1>1. IInv => NoDangling
  BY DEF IInv, PointerInv, NoDangling, Valid, InHeap, Nil, Immediate
<1>2. QED BY <1>1, InvariantHolds, PTL

\* A collection leaves no color behind, whether it compacted or aborted.
THEOREM CollectionsLeaveAllWhite == ASSUME SmallObjects PROVE Spec => []AllWhiteBetweenCollections
<1>1. IInv => AllWhiteBetweenCollections
  BY DEF IInv, ColorInv, AllWhiteBetweenCollections
<1>2. QED BY <1>1, InvariantHolds, PTL

\* While a WithoutGC scope is open no collection runs and nothing moves.
RawInv ==
  raw # NoOop => /\ phase = "idle" /\ disableCount > 0
                 /\ raw \in DOMAIN heap /\ heap[raw].id = rawId

\* There is no object yet where the next one is allocated.
LEMMA NewIsNew ==
  ASSUME SmallObjects, IInv, phase = "idle", NEW n \in SlotCounts
  PROVE  size + extraHeaderSize(n) \notin DOMAIN heap
<1>1. TypeOK /\ Tiles(DOMAIN heap, 0, size) /\ size \in Nat
  BY IdleInv DEF TypeOK, HeapType
<1>2. \A p \in DOMAIN heap : p \in Nat /\ End(p) \in Nat /\ End(p) > p /\ End(p) <= size
  BY <1>1, Layout DEF Tiles
<1>3. extraHeaderSize(n) = 1
  BY Sizes
<1>4. QED BY <1>1, <1>2, <1>3

\* Every step preserves what holds of a raw pointer.
LEMMA RawNext ==
  ASSUME SmallObjects, IInv, RawInv, [Next]_vars
  PROVE  RawInv'
<1>0. TypeOK
  BY DEF IInv
<1>1. ASSUME NEW s \in DOMAIN root, NEW n \in SlotCounts, NEW weak \in BOOLEAN, Allocate(s, n, weak)
      PROVE  RawInv'
  <2>1. \A p \in DOMAIN heap : p \in DOMAIN heap' /\ heap'[p] = heap[p]
    BY <1>1, NewIsNew DEF Allocate
  <2>2. QED BY <1>1, <2>1 DEF Allocate, RawInv, collector
<1>2. ASSUME NEW s \in DOMAIN root, NEW i, NEW v, Store(s, i, v)
      PROVE  RawInv'
  <2>1. \A p \in DOMAIN heap : heap[p] \in Object(heap[p].slotCount)
    BY <1>0 DEF TypeOK, HeapType
  <2>2. heap' = [heap EXCEPT ![root[s]].slots[i] = v]
    BY <1>2 DEF Store
  <2>3. DOMAIN heap' = DOMAIN heap /\ \A p \in DOMAIN heap : heap'[p].id = heap[p].id
    BY <2>1, <2>2, <1>0 DEF TypeOK, HeapType, Object
  <2>4. QED BY <1>2, <2>3 DEF Store, RawInv, mutator, collector
<1>3. ASSUME NEW s \in DOMAIN root, NEW v, SetRoot(s, v) PROVE RawInv'
  BY <1>3 DEF SetRoot, RawInv, collector
<1>4. ASSUME NEW s, NEW v, registerOopReference(s, v) \/ unregisterOopReference(s) PROVE RawInv'
  BY <1>4 DEF registerOopReference, unregisterOopReference, RawInv, collector
<1>5. CASE disable \/ enable \/ \E s \in DOMAIN root : HoldRaw(s)
  BY <1>5, <1>0 DEF disable, enable, HoldRaw, RawInv, collector, TypeOK, ProgramType
<1>6. CASE MutatorStep
  BY <1>1, <1>2, <1>3, <1>4, <1>5, <1>6 DEF MutatorStep, Load
<1>7. CASE collectionSafePoint \/ performCollection
  BY <1>0, <1>7 DEF collectionSafePoint, performCollection, StartCollection, collectionAllowed,
                    RawInv, mutator
<1>8. CASE CollectorStep
  <2>1. phase # "idle" /\ UNCHANGED raw
    BY <1>8 DEF CollectorStep, markObject, StartCompaction, ComputeForwarding, abortCompaction,
                UpdatePointers, MoveObject, EndCompaction, mutator
  <2>2. QED BY <2>1 DEF RawInv
<1>9. CASE UNCHANGED vars
  BY <1>9 DEF vars, mutator, collector, RawInv
<1>10. QED BY <1>6, <1>7, <1>8, <1>9 DEF Next

\* A plain Oop that native code keeps during a WithoutGC scope stays the
\* address of its object.
THEOREM RawOopsAreStable == ASSUME SmallObjects PROVE Spec => []RawOopsStable
<1>1. Init => IInv /\ RawInv
  BY InitInv DEF Init, RawInv
<1>2. IInv /\ RawInv /\ [Next]_vars => IInv' /\ RawInv'
  BY NextInv, RawNext
<1>3. RawInv => RawOopsStable
  BY DEF RawInv, RawOopsStable
<1>4. QED BY <1>1, <1>2, <1>3, PTL DEF Spec

----------------------------------------------------------------------------
(***************************************************************************)
(* The heap implements the object graph.  The pictures below are relations *)
(* between constants, so that they can be read in a state, in the next one *)
(* and in the heap that a compaction is going to leave.                    *)
(***************************************************************************)
NamedIn(h, v) == IF v \in DOMAIN h THEN h[v].id ELSE v
Identities(h) == {h[o].id : o \in DOMAIN h}
Distinct(h)   == \A o, p \in DOMAIN h : h[o].id = h[p].id => o = p

ContentsIn(h, o) ==
  [weak |-> h[o].weak, slots |-> [i \in DOMAIN h[o].slots |-> NamedIn(h, h[o].slots[i])]]

\* g is the graph of the objects h and the roots r.
Depicts(h, r, g) ==
  /\ g = [objects |-> g.objects, roots |-> [s \in DOMAIN r |-> NamedIn(h, r[s])]]
  /\ g.objects = [x \in Identities(h) |-> g.objects[x]]
  /\ \A o \in DOMAIN h : g.objects[h[o].id] = ContentsIn(h, o)

Survivors == Abstract!Kept(before, Abstract!Reachable(before))

\* What has been marked, and what is going to be, is in every closed set.
OnlyReachable ==
  \A L \in SUBSET DOMAIN before.objects : Abstract!Closed(before, L) =>
     \A o \in DOMAIN heap : Marked(o) \/ o \in pending => heap[o].id \in L

\* No identity is used twice; the graph to collect is the one of the heap until
\* the pointers are updated, and from then on the compacted part of the heap is
\* a picture of what the collection has to leave.
GraphInv ==
  /\ phase # "move" => Distinct(heap)
  /\ phase \in {"mark", "forward"} => Depicts(heap, root, before) /\ OnlyReachable
  /\ phase = "move" => \E k : Compacted(k) /\ Distinct(k) /\ Depicts(k, root, Survivors)

\* The graph the abstract specification is about.
Picture == IF phase = "idle" THEN GraphOf ELSE before

\* Objects and roots have one graph.
LEMMA OnePicture ==
  ASSUME NEW h, NEW r, NEW f, NEW g, Depicts(h, r, f), Depicts(h, r, g)
  PROVE  f = g
<1>1. \A x \in Identities(h) : f.objects[x] = g.objects[x]
  BY DEF Depicts, Identities
<1>2. f.objects = [x \in Identities(h) |-> f.objects[x]] /\ g.objects = [x \in Identities(h) |-> g.objects[x]]
  BY DEF Depicts
<1>3. f.objects = g.objects
  BY <1>1, <1>2
<1>4. QED BY <1>3 DEF Depicts

\* Colors and forwarding addresses are not part of the picture.
LEMMA SamePicture ==
  ASSUME NEW h, NEW k, NEW r, NEW g, DOMAIN k = DOMAIN h,
         \A o \in DOMAIN h : k[o].id = h[o].id /\ k[o].weak = h[o].weak /\ k[o].slots = h[o].slots,
         Depicts(h, r, g)
  PROVE  Depicts(k, r, g)
<1>1. \A v : NamedIn(k, v) = NamedIn(h, v)
  BY DEF NamedIn
<1>2. Identities(k) = Identities(h)
  BY DEF Identities
<1>3. \A o \in DOMAIN h : ContentsIn(k, o) = ContentsIn(h, o)
  BY <1>1 DEF ContentsIn
<1>4. [s \in DOMAIN r |-> NamedIn(k, r[s])] = [s \in DOMAIN r |-> NamedIn(h, r[s])]
  BY <1>1
<1>5. QED BY <1>2, <1>3, <1>4 DEF Depicts

\* Identities stay distinct when no object gets another one.
LEMMA SameDistinct ==
  ASSUME NEW h, NEW k, DOMAIN k = DOMAIN h, \A o \in DOMAIN h : k[o].id = h[o].id, Distinct(h)
  PROVE  Distinct(k)
BY DEF Distinct

\* GraphOf is a picture of the heap.
GraphIn(h, r) ==
  [objects |-> [x \in {h[o].id : o \in DOMAIN h} |->
      LET o == CHOOSE p \in DOMAIN h : h[p].id = x
      IN [weak  |-> h[o].weak,
          slots |-> [i \in DOMAIN h[o].slots |-> NamedIn(h, h[o].slots[i])]]],
   roots   |-> [s \in DOMAIN r |-> NamedIn(h, r[s])]]

\* GraphIn is the graph of objects of distinct identities.
LEMMA GraphDepicts ==
  ASSUME NEW h, NEW r, Distinct(h)
  PROVE  Depicts(h, r, GraphIn(h, r))
<1>1. PICK g : g = GraphIn(h, r)
  OBVIOUS
<1> DEFINE At(x) == CHOOSE p \in DOMAIN h : h[p].id = x
<1>2. \A o \in DOMAIN h : At(h[o].id) = o
  <2>1. ASSUME NEW o \in DOMAIN h PROVE At(h[o].id) = o
    <3>1. At(h[o].id) \in DOMAIN h /\ h[At(h[o].id)].id = h[o].id
      OBVIOUS
    <3> HIDE DEF At
    <3>2. QED BY <3>1 DEF Distinct
  <2>2. QED BY <2>1
<1>3. /\ g.objects = [x \in Identities(h) |-> ContentsIn(h, At(x))]
      /\ g.roots = [s \in DOMAIN r |-> NamedIn(h, r[s])]
      /\ g = [objects |-> g.objects, roots |-> g.roots]
  BY <1>1 DEF GraphIn, Identities, ContentsIn
<1> HIDE DEF At
<1>4. g.objects = [x \in Identities(h) |-> g.objects[x]]
  BY <1>3
<1>5. \A o \in DOMAIN h : h[o].id \in Identities(h)
  BY DEF Identities
<1>6. \A o \in DOMAIN h : g.objects[h[o].id] = ContentsIn(h, o)
  BY <1>2, <1>3, <1>5
<1>7. Depicts(h, r, g)
  BY <1>3, <1>4, <1>6 DEF Depicts
<1>8. QED BY <1>1, <1>7

\* Between two collections the picture is the graph of the whole heap.
LEMMA IdlePicture ==
  ASSUME phase = "idle", GraphInv
  PROVE  Depicts(heap, root, Picture) /\ Distinct(heap)
<1>1. Distinct(heap)
  BY DEF GraphInv
<1>2. GraphOf = GraphIn(heap, root)
  BY DEF GraphOf, GraphIn, Named, NamedIn
<1>3. QED BY <1>1, <1>2, GraphDepicts DEF Picture

\* The picture after a step that ends between two collections.
LEMMA IdlePictureNext ==
  ASSUME phase' = "idle", Distinct(heap'), NEW g, Depicts(heap', root', g)
  PROVE  Picture' = g
<1>1. GraphOf' = GraphIn(heap', root')
  BY DEF GraphOf, GraphIn, Named, NamedIn
<1>2. Picture' = GraphIn(heap', root')
  BY <1>1 DEF Picture
<1>3. Depicts(heap', root', GraphIn(heap', root'))
  BY GraphDepicts
<1>4. QED BY <1>2, <1>3, OnePicture

\* Identities are positive, so that no other value is taken for one.
LEMMA NoIdentity ==
  ASSUME IInv
  PROVE  /\ \A o \in DOMAIN heap : heap[o].id \in Ids /\ o \notin {Nil, Immediate}
         /\ Nil \notin Identities(heap) /\ Immediate \notin Identities(heap)
<1>1. \A o \in DOMAIN heap : o \in Nat \ {0} /\ heap[o].id \in Ids
  BY DEF IInv, TypeOK, HeapType, Object
<1>2. Nil \notin Ids /\ Immediate \notin Ids
  BY GCAssumption DEF Nil, Immediate
<1>3. QED BY <1>1, <1>2, GCAssumption DEF Identities, Nil, Immediate

\* The picture between two collections, read as a graph of ObjectGraph.
LEMMA IdleRead ==
  ASSUME IInv, GraphInv, phase = "idle"
  PROVE  /\ Picture = [objects |-> Picture.objects, roots |-> Picture.roots]
         /\ Picture.roots = [t \in DOMAIN root |-> NamedIn(heap, root[t])]
         /\ Picture.objects = [x \in Identities(heap) |-> Picture.objects[x]]
         /\ \A o \in DOMAIN heap : Picture.objects[heap[o].id] = ContentsIn(heap, o)
<1>1. PICK g : g = Picture
  OBVIOUS
<1>2. Depicts(heap, root, g)
  BY <1>1, IdlePicture
<1>3. g = [objects |-> g.objects, roots |-> [t \in DOMAIN root |-> NamedIn(heap, root[t])]]
  BY <1>2 DEF Depicts
<1>4. g.roots = [t \in DOMAIN root |-> NamedIn(heap, root[t])]
  BY <1>3
<1>5. g = [objects |-> g.objects, roots |-> g.roots]
  BY <1>3, <1>4
<1>6. QED BY <1>1, <1>2, <1>4, <1>5 DEF Depicts

\* A step that leaves the heap alone changes the roots of the picture only.
LEMMA RootsPicture ==
  ASSUME IInv, GraphInv, phase = "idle", phase' = "idle", heap' = heap
  PROVE  /\ GraphInv'
         /\ Picture' = [objects |-> Picture.objects,
                        roots   |-> [t \in DOMAIN root' |-> NamedIn(heap, root'[t])]]
<1>1. PICK g : g = Picture
  OBVIOUS
<1>2. Depicts(heap, root, g) /\ Distinct(heap)
  BY <1>1, IdlePicture
<1>3. PICK f : f = [objects |-> g.objects, roots |-> [t \in DOMAIN root' |-> NamedIn(heap, root'[t])]]
  OBVIOUS
<1>4. f.objects = g.objects
  BY <1>3
<1>5. Depicts(heap', root', f)
  BY <1>2, <1>3, <1>4 DEF Depicts
<1>6. Picture' = f
  BY <1>2, <1>5, IdlePictureNext
<1>7. GraphInv'
  BY <1>2 DEF GraphInv
<1>8. QED BY <1>1, <1>3, <1>6, <1>7

\* What the program holds has a name in the graph.
LEMMA HeldNamed ==
  ASSUME IInv, GraphInv, phase = "idle", NEW v \in Held
  PROVE  NamedIn(heap, v) \in Abstract!Held
<1>1. CASE \E s \in DOMAIN root : v = root[s]
  <2>1. PICK s \in DOMAIN root : v = root[s]
    BY <1>1
  <2>2. s \in DOMAIN Picture.roots /\ Picture.roots[s] = NamedIn(heap, v)
    BY <2>1, IdleRead
  <2>3. QED BY <2>2 DEF Abstract!Held, Picture
<1>2. CASE v \in Literals
  <2>1. v \notin DOMAIN heap
    BY <1>2, NoIdentity, GCAssumption DEF Nil, Immediate
  <2>2. QED BY <1>2, <2>1 DEF NamedIn, Abstract!Held
<1>3. QED BY <1>1, <1>2 DEF Held

\* Setting a root sets it in the graph.
LEMMA SetRootPicture ==
  ASSUME IInv, GraphInv, NEW s \in DOMAIN root, NEW v, SetRoot(s, v)
  PROVE  GraphInv' /\ Abstract!SetRoot(s, NamedIn(heap, v))
<1>1. phase = "idle" /\ phase' = "idle" /\ heap' = heap /\ root' = [root EXCEPT ![s] = v]
  BY DEF SetRoot, collector
<1>2. PICK g : g = Picture
  OBVIOUS
<1>3. /\ g = [objects |-> g.objects, roots |-> g.roots]
      /\ g.roots = [t \in DOMAIN root |-> NamedIn(heap, root[t])]
  BY <1>1, <1>2, IdleRead
<1>4. /\ GraphInv'
      /\ Picture' = [objects |-> g.objects, roots |-> [t \in DOMAIN root' |-> NamedIn(heap, root'[t])]]
  BY <1>1, <1>2, RootsPicture
<1>5. [t \in DOMAIN root' |-> NamedIn(heap, root'[t])] = [g.roots EXCEPT ![s] = NamedIn(heap, v)]
  BY <1>1, <1>3
<1>6. Picture' = [g EXCEPT !.roots[s] = NamedIn(heap, v)]
  BY <1>3, <1>4, <1>5
<1>7. QED BY <1>2, <1>4, <1>6 DEF Abstract!SetRoot, Picture

\* Loading a slot into a root loads it in the graph.
LEMMA LoadPicture ==
  ASSUME IInv, GraphInv, NEW s \in DOMAIN root, NEW t \in DOMAIN root, NEW i, Load(s, t, i)
  PROVE  GraphInv' /\ Abstract!Load(s, t, i)
<1>1. /\ phase = "idle" /\ root[t] \in DOMAIN heap /\ i \in DOMAIN heap[root[t]].slots
      /\ SetRoot(s, heap[root[t]].slots[i])
  BY DEF Load, SetRoot
<1>2. PICK g : g = Picture
  OBVIOUS
<1>3. /\ g.roots[t] = heap[root[t]].id
      /\ g.objects[heap[root[t]].id] = ContentsIn(heap, root[t])
      /\ heap[root[t]].id \in DOMAIN g.objects
  BY <1>1, <1>2, IdleRead DEF NamedIn, Identities
<1>4. /\ i \in DOMAIN g.objects[g.roots[t]].slots
      /\ g.objects[g.roots[t]].slots[i] = NamedIn(heap, heap[root[t]].slots[i])
  BY <1>1, <1>3 DEF ContentsIn
<1>5. GraphInv' /\ Abstract!SetRoot(s, NamedIn(heap, heap[root[t]].slots[i]))
  BY <1>1, SetRootPicture
<1>6. QED BY <1>2, <1>3, <1>4, <1>5 DEF Abstract!Load, Picture

\* Registering a root registers it in the graph.
LEMMA RegisterPicture ==
  ASSUME IInv, GraphInv, NEW s \in Refs \ DOMAIN root, NEW v, registerOopReference(s, v)
  PROVE  GraphInv' /\ Abstract!Register(s, NamedIn(heap, v))
<1>1. /\ phase = "idle" /\ phase' = "idle" /\ heap' = heap
      /\ root' = [t \in DOMAIN root \cup {s} |-> IF t = s THEN v ELSE root[t]]
  BY DEF registerOopReference, collector
<1>2. PICK g : g = Picture
  OBVIOUS
<1>3. /\ g = [objects |-> g.objects, roots |-> g.roots]
      /\ g.roots = [t \in DOMAIN root |-> NamedIn(heap, root[t])]
  BY <1>1, <1>2, IdleRead
<1>4. /\ GraphInv'
      /\ Picture' = [objects |-> g.objects, roots |-> [t \in DOMAIN root' |-> NamedIn(heap, root'[t])]]
  BY <1>1, <1>2, RootsPicture
<1>5. [t \in DOMAIN root' |-> NamedIn(heap, root'[t])]
        = [t \in DOMAIN g.roots \cup {s} |-> IF t = s THEN NamedIn(heap, v) ELSE g.roots[t]]
  BY <1>1, <1>3
<1>6. Picture' = [g EXCEPT !.roots =
                   [t \in DOMAIN g.roots \cup {s} |-> IF t = s THEN NamedIn(heap, v) ELSE g.roots[t]]]
  BY <1>3, <1>4, <1>5
<1>7. QED BY <1>2, <1>4, <1>6 DEF Abstract!Register, Picture

\* Unregistering a root unregisters it in the graph.
LEMMA UnregisterPicture ==
  ASSUME IInv, GraphInv, NEW s, unregisterOopReference(s)
  PROVE  GraphInv' /\ Abstract!Unregister(s)
<1>1. /\ phase = "idle" /\ phase' = "idle" /\ heap' = heap
      /\ root' = [t \in DOMAIN root \ {s} |-> root[t]]
  BY DEF unregisterOopReference, collector
<1>2. PICK g : g = Picture
  OBVIOUS
<1>3. /\ g = [objects |-> g.objects, roots |-> g.roots]
      /\ g.roots = [t \in DOMAIN root |-> NamedIn(heap, root[t])]
  BY <1>1, <1>2, IdleRead
<1>4. /\ GraphInv'
      /\ Picture' = [objects |-> g.objects, roots |-> [t \in DOMAIN root' |-> NamedIn(heap, root'[t])]]
  BY <1>1, <1>2, RootsPicture
<1>5. [t \in DOMAIN root' |-> NamedIn(heap, root'[t])] = [t \in DOMAIN g.roots \ {s} |-> g.roots[t]]
  BY <1>1, <1>3
<1>6. Picture' = [g EXCEPT !.roots = [t \in DOMAIN g.roots \ {s} |-> g.roots[t]]]
  BY <1>3, <1>4, <1>5
<1>7. QED BY <1>2, <1>4, <1>6 DEF Abstract!Unregister, Picture

\* A WithoutGC scope leaves the graph alone.
LEMMA WithoutGCPicture ==
  ASSUME IInv, GraphInv, disable \/ enable \/ \E s \in DOMAIN root : HoldRaw(s)
  PROVE  GraphInv' /\ Picture' = Picture
<1>1. phase = "idle" /\ phase' = "idle" /\ heap' = heap /\ root' = root
  BY DEF disable, enable, HoldRaw, collector
<1>2. PICK g : g = Picture
  OBVIOUS
<1>3. /\ g = [objects |-> g.objects, roots |-> g.roots]
      /\ g.roots = [t \in DOMAIN root |-> NamedIn(heap, root[t])]
  BY <1>1, <1>2, IdleRead
<1>4. /\ GraphInv'
      /\ Picture' = [objects |-> g.objects, roots |-> [t \in DOMAIN root' |-> NamedIn(heap, root'[t])]]
  BY <1>1, <1>2, RootsPicture
<1>5. QED BY <1>1, <1>2, <1>3, <1>4

\* Storing into a slot stores in the graph.
LEMMA StorePicture ==
  ASSUME IInv, GraphInv, NEW s \in DOMAIN root, NEW i, NEW v, Store(s, i, v)
  PROVE  GraphInv' /\ Abstract!Store(s, i, NamedIn(heap, v))
<1>0. PICK o : o = root[s]
  OBVIOUS
<1>1. /\ phase = "idle" /\ phase' = "idle" /\ root' = root
      /\ o \in DOMAIN heap /\ i \in DOMAIN heap[o].slots
      /\ heap' = [heap EXCEPT ![o].slots[i] = v]
  BY <1>0 DEF Store, collector, mutator
<1>2. PICK g : g = Picture
  OBVIOUS
<1>3. PICK x : x = heap[o].id
  OBVIOUS
<1>4. PICK w : w = NamedIn(heap, v)
  OBVIOUS
<1>5. /\ g = [objects |-> g.objects, roots |-> g.roots]
      /\ g.roots = [t \in DOMAIN root |-> NamedIn(heap, root[t])]
      /\ g.objects = [y \in Identities(heap) |-> g.objects[y]]
      /\ \A p \in DOMAIN heap : g.objects[heap[p].id] = ContentsIn(heap, p)
      /\ Distinct(heap)
  BY <1>1, <1>2, IdleRead, IdlePicture
<1>6. PICK c : c = [weak |-> heap[o].weak, slots |-> [g.objects[x].slots EXCEPT ![i] = w]]
  OBVIOUS
<1>7. x \in Identities(heap) /\ g.roots[s] = x /\ g.objects[x] = ContentsIn(heap, o)
  BY <1>0, <1>1, <1>3, <1>5 DEF Identities, NamedIn
<1>8. /\ DOMAIN heap' = DOMAIN heap
      /\ \A p \in DOMAIN heap : p # o => heap'[p] = heap[p]
      /\ heap'[o].id = x /\ heap'[o].weak = heap[o].weak
      /\ heap'[o].slots = [heap[o].slots EXCEPT ![i] = v]
  <2>1. /\ heap = [p \in DOMAIN heap |-> heap[p]]
        /\ heap[o] \in Object(heap[o].slotCount)
    BY <1>1 DEF IInv, TypeOK, HeapType
  <2>2. PICK t : t = [heap[o].slots EXCEPT ![i] = v]
    OBVIOUS
  <2>3. heap' = [heap EXCEPT ![o] = [heap[o] EXCEPT !.slots = t]]
    BY <1>1, <2>2
  <2>4. heap'[o] = [heap[o] EXCEPT !.slots = t] /\ DOMAIN heap' = DOMAIN heap
        /\ \A p \in DOMAIN heap : p # o => heap'[p] = heap[p]
    BY <1>1, <2>1, <2>3
  <2>5. /\ heap'[o].id = heap[o].id /\ heap'[o].weak = heap[o].weak /\ heap'[o].slots = t
    BY <2>1, <2>4 DEF Object
  <2>6. QED BY <1>3, <2>2, <2>4, <2>5
<1>9. \A p \in DOMAIN heap : heap'[p].id = heap[p].id
  BY <1>3, <1>8
<1>10. /\ \A u : NamedIn(heap', u) = NamedIn(heap, u)
       /\ Identities(heap') = Identities(heap) /\ Distinct(heap')
  BY <1>5, <1>8, <1>9 DEF NamedIn, Identities, Distinct
<1>11. PICK f : f = [objects |-> [g.objects EXCEPT ![x] = c], roots |-> g.roots]
  OBVIOUS
<1>12. /\ f.objects = [y \in Identities(heap) |-> f.objects[y]]
       /\ f.roots = g.roots /\ f = [objects |-> f.objects, roots |-> f.roots]
       /\ f.objects[x] = c /\ \A y \in Identities(heap) : y # x => f.objects[y] = g.objects[y]
  BY <1>5, <1>7, <1>11
<1>13. ContentsIn(heap', o) = c
  <2>1. /\ g.objects[x].slots = [j \in DOMAIN heap[o].slots |-> NamedIn(heap, heap[o].slots[j])]
    BY <1>7 DEF ContentsIn
  <2>2. [j \in DOMAIN heap'[o].slots |-> NamedIn(heap', heap'[o].slots[j])]
          = [g.objects[x].slots EXCEPT ![i] = w]
    <3>1. DOMAIN heap'[o].slots = DOMAIN heap[o].slots
      BY <1>8
    <3>2. \A j \in DOMAIN heap[o].slots :
             NamedIn(heap', heap'[o].slots[j]) = IF j = i THEN w ELSE NamedIn(heap, heap[o].slots[j])
      <4>1. \A j \in DOMAIN heap[o].slots : heap'[o].slots[j] = IF j = i THEN v ELSE heap[o].slots[j]
        BY <1>8
      <4>2. \A u : NamedIn(heap', u) = NamedIn(heap, u)
        BY <1>10
      <4>3. QED BY <4>1, <4>2, <1>4
    <3>3. [g.objects[x].slots EXCEPT ![i] = w]
            = [j \in DOMAIN heap[o].slots |-> IF j = i THEN w ELSE NamedIn(heap, heap[o].slots[j])]
      BY <2>1
    <3>4. QED BY <3>1, <3>2, <3>3
  <2>3. QED BY <1>6, <1>8, <2>2 DEF ContentsIn
<1>14. \A p \in DOMAIN heap' : f.objects[heap'[p].id] = ContentsIn(heap', p)
  <2>1. ASSUME NEW p \in DOMAIN heap, p # o
        PROVE  f.objects[heap'[p].id] = ContentsIn(heap', p)
    <3>1. heap[p].id # x /\ heap[p].id \in Identities(heap)
      BY <1>1, <1>3, <1>5, <2>1 DEF Distinct, Identities
    <3>2. ContentsIn(heap', p) = ContentsIn(heap, p)
      BY <1>8, <1>10, <2>1 DEF ContentsIn
    <3>3. QED BY <1>5, <1>9, <1>12, <2>1, <3>1, <3>2
  <2>2. QED BY <1>8, <1>12, <1>13, <2>1
<1>15. Depicts(heap', root', f)
  <2>1. f.roots = [t \in DOMAIN root' |-> NamedIn(heap', root'[t])]
    BY <1>1, <1>5, <1>10, <1>12
  <2>2. QED BY <1>10, <1>12, <1>14, <2>1 DEF Depicts
<1>16. Picture' = f
  BY <1>1, <1>10, <1>15, IdlePictureNext
<1>17. GraphInv'
  BY <1>1, <1>10 DEF GraphInv
<1>18. i \in DOMAIN g.objects[x].slots /\ x \in DOMAIN g.objects
  BY <1>1, <1>5, <1>7 DEF ContentsIn
<1>19. f = [g EXCEPT !.objects[x].slots[i] = w]
  <2>1. g.objects[x] = [weak |-> heap[o].weak, slots |-> g.objects[x].slots]
    BY <1>7 DEF ContentsIn
  <2>2. [g.objects[x] EXCEPT !.slots = [g.objects[x].slots EXCEPT ![i] = w]] = c
    BY <1>6, <2>1
  <2>3. [g EXCEPT !.objects = [g.objects EXCEPT ![x] = c]] = f
    BY <1>5, <1>11
  <2>4. QED BY <2>2, <2>3
<1>20. QED BY <1>2, <1>4, <1>7, <1>16, <1>17, <1>18, <1>19 DEF Abstract!Store, Picture

\* An allocation adds an object to the graph.
LEMMA AllocatePicture ==
  ASSUME SmallObjects, IInv, GraphInv, NEW s \in DOMAIN root, NEW n \in SlotCounts,
         NEW weak \in BOOLEAN, Allocate(s, n, weak)
  PROVE  GraphInv' /\ Abstract!New(s, n, weak)
<1>0. PICK o : o = size + extraHeaderSize(n)
  OBVIOUS
<1>1. /\ phase = "idle" /\ phase' = "idle" /\ root' = [root EXCEPT ![s] = o]
      /\ heap' = [p \in DOMAIN heap \cup {o} |-> IF p = o THEN NewObject(n, weak) ELSE heap[p]]
  BY <1>0 DEF Allocate, collector
<1>2. o \notin DOMAIN heap /\ o \notin {Nil, Immediate}
  <2>1. size \in Nat /\ extraHeaderSize(n) = 1
    BY Sizes DEF IInv, TypeOK, HeapType
  <2>2. QED BY <1>0, <1>1, <2>1, NewIsNew DEF Nil, Immediate
<1>3. PICK x : x = CHOOSE y \in Ids : \A p \in DOMAIN heap : heap[p].id # y
  OBVIOUS
<1>4. x \in Ids /\ \A p \in DOMAIN heap : heap[p].id # x
  <2>1. \E y \in Ids : \A p \in DOMAIN heap : heap[p].id # y
    BY DEF Allocate
  <2>2. QED BY <1>3, <2>1
<1>5. PICK g : g = Picture
  OBVIOUS
<1>6. /\ g = [objects |-> g.objects, roots |-> g.roots]
      /\ g.roots = [t \in DOMAIN root |-> NamedIn(heap, root[t])]
      /\ g.objects = [y \in Identities(heap) |-> g.objects[y]]
      /\ \A p \in DOMAIN heap : g.objects[heap[p].id] = ContentsIn(heap, p)
      /\ Distinct(heap)
  BY <1>1, <1>5, IdleRead, IdlePicture
<1>7. PICK c : c = Abstract!Contents(n, weak)
  OBVIOUS
<1>8. /\ DOMAIN heap' = DOMAIN heap \cup {o}
      /\ \A p \in DOMAIN heap : heap'[p] = heap[p]
      /\ heap'[o].id = x /\ heap'[o].weak = weak
      /\ heap'[o].slots = [j \in 1..n |-> Nil]
  <2>1. heap'[o] = NewObject(n, weak)
    BY <1>1
  <2>2. QED BY <1>1, <1>2, <1>3, <2>1 DEF NewObject
<1>9. x \notin Identities(heap) /\ Identities(heap') = Identities(heap) \cup {x}
  BY <1>4, <1>8 DEF Identities
<1>10. Distinct(heap')
  BY <1>4, <1>6, <1>8 DEF Distinct
<1>11. /\ \A v : Valid(v) => NamedIn(heap', v) = NamedIn(heap, v)
       /\ NamedIn(heap', o) = x /\ NamedIn(heap', Nil) = Nil
  BY <1>2, <1>8, NoIdentity DEF Valid, NamedIn
<1>12. /\ \A t \in DOMAIN root : Valid(root[t])
       /\ \A p \in DOMAIN heap : \A j \in DOMAIN heap[p].slots : Valid(heap[p].slots[j])
  BY <1>1, IdleInv
<1>13. PICK f : f = [objects |-> [y \in DOMAIN g.objects \cup {x} |-> IF y = x THEN c ELSE g.objects[y]],
                     roots   |-> [g.roots EXCEPT ![s] = x]]
  OBVIOUS
<1>14. /\ f = [objects |-> f.objects, roots |-> f.roots] /\ f.roots = [g.roots EXCEPT ![s] = x]
       /\ DOMAIN f.objects = Identities(heap') /\ f.objects = [y \in Identities(heap') |-> f.objects[y]]
       /\ f.objects[x] = c /\ \A y \in Identities(heap) : f.objects[y] = g.objects[y]
  BY <1>6, <1>9, <1>13
<1>15. f.roots = [t \in DOMAIN root' |-> NamedIn(heap', root'[t])]
  <2>1. DOMAIN root' = DOMAIN root
    BY <1>1
  <2>2. \A t \in DOMAIN root : NamedIn(heap', root'[t]) = IF t = s THEN x ELSE NamedIn(heap, root[t])
    BY <1>1, <1>11, <1>12
  <2>3. f.roots = [t \in DOMAIN root |-> IF t = s THEN x ELSE NamedIn(heap, root[t])]
    BY <1>6, <1>14
  <2>4. QED BY <2>1, <2>2, <2>3
<1>16. ContentsIn(heap', o) = c
  <2>1. [j \in DOMAIN heap'[o].slots |-> NamedIn(heap', heap'[o].slots[j])] = [j \in 1..n |-> Nil]
    BY <1>8, <1>11
  <2>2. QED BY <1>7, <1>8, <2>1 DEF ContentsIn, Abstract!Contents, Abstract!Nil, Nil
<1>17. \A p \in DOMAIN heap' : f.objects[heap'[p].id] = ContentsIn(heap', p)
  <2>1. ASSUME NEW p \in DOMAIN heap PROVE f.objects[heap'[p].id] = ContentsIn(heap', p)
    <3>1. heap[p].id \in Identities(heap)
      BY DEF Identities
    <3>2. [j \in DOMAIN heap[p].slots |-> NamedIn(heap', heap[p].slots[j])]
            = [j \in DOMAIN heap[p].slots |-> NamedIn(heap, heap[p].slots[j])]
      BY <1>11, <1>12
    <3>3. ContentsIn(heap', p) = ContentsIn(heap, p)
      BY <1>8, <3>2 DEF ContentsIn
    <3>4. QED BY <1>6, <1>8, <1>14, <3>1, <3>3
  <2>2. QED BY <1>8, <1>14, <1>16, <2>1
<1>18. Depicts(heap', root', f)
  BY <1>14, <1>15, <1>17 DEF Depicts
<1>19. Picture' = f
  BY <1>1, <1>10, <1>18, IdlePictureNext
<1>20. GraphInv'
  BY <1>1, <1>10 DEF GraphInv
<1>21. x \in Ids \ DOMAIN g.objects
  BY <1>4, <1>6, <1>9
<1>22. QED BY <1>5, <1>7, <1>13, <1>19, <1>20, <1>21 DEF Abstract!New, Picture

\* Every step of the program is one of the graph, or leaves it alone.
LEMMA MutatorPicture ==
  ASSUME SmallObjects, IInv, GraphInv, MutatorStep
  PROVE  GraphInv' /\ (Abstract!Next \/ UNCHANGED Picture)
<1>0. phase = "idle"
  BY DEF MutatorStep, Allocate, Store, SetRoot, Load, registerOopReference, unregisterOopReference,
         disable, enable, HoldRaw
<1>1. DOMAIN (IF phase = "idle" THEN GraphOf ELSE before).roots = DOMAIN root
  BY <1>0, IdleRead DEF Picture
<1>2. ASSUME NEW s \in DOMAIN root, NEW n \in SlotCounts, NEW weak \in BOOLEAN, Allocate(s, n, weak)
      PROVE  GraphInv' /\ Abstract!Next
  BY <1>1, <1>2, AllocatePicture DEF Abstract!Next
<1>3. ASSUME NEW s \in DOMAIN root, NEW v \in Held, SetRoot(s, v)
      PROVE  GraphInv' /\ Abstract!Next
  BY <1>0, <1>1, <1>3, HeldNamed, SetRootPicture DEF Abstract!Next
<1>4. ASSUME NEW s \in DOMAIN root, NEW v \in Held, NEW n \in SlotCounts, NEW i \in 1..n, Store(s, i, v)
      PROVE  GraphInv' /\ Abstract!Next
  BY <1>0, <1>1, <1>4, HeldNamed, StorePicture DEF Abstract!Next
<1>5. ASSUME NEW s \in DOMAIN root, NEW t \in DOMAIN root, NEW n \in SlotCounts, NEW i \in 1..n,
             Load(s, t, i)
      PROVE  GraphInv' /\ Abstract!Next
  BY <1>1, <1>5, LoadPicture DEF Abstract!Next
<1>6. ASSUME NEW s \in Refs \ DOMAIN root, NEW v \in Held, registerOopReference(s, v)
      PROVE  GraphInv' /\ Abstract!Next
  BY <1>0, <1>1, <1>6, HeldNamed, RegisterPicture DEF Abstract!Next
<1>7. ASSUME NEW s \in Refs \cap DOMAIN root, unregisterOopReference(s)
      PROVE  GraphInv' /\ Abstract!Next
  BY <1>1, <1>7, UnregisterPicture DEF Abstract!Next
<1>8. CASE disable \/ enable \/ \E s \in DOMAIN root : HoldRaw(s)
  BY <1>8, WithoutGCPicture
<1>9. QED BY <1>2, <1>3, <1>4, <1>5, <1>6, <1>7, <1>8 DEF MutatorStep

----------------------------------------------------------------------------
(***************************************************************************)
(* The collector's steps: only the last one changes the picture.           *)
(***************************************************************************)
LEMMA StartPicture ==
  ASSUME IInv, GraphInv, NEW safe \in BOOLEAN, StartCollection(safe)
  PROVE  GraphInv' /\ Picture' = Picture
<1>1. /\ phase = "idle" /\ phase' = "mark" /\ heap' = heap /\ root' = root
      /\ pending' = {root[s] : s \in DOMAIN root} /\ before' = GraphOf
  BY DEF StartCollection, Roots, mutator
<1>2. before' = Picture /\ Picture' = Picture
  BY <1>1 DEF Picture
<1>3. Depicts(heap, root, Picture) /\ Distinct(heap)
  BY <1>1, IdlePicture
<1>4. ASSUME NEW L \in SUBSET DOMAIN before'.objects, Abstract!Closed(before', L),
             NEW o \in DOMAIN heap, o \in pending'
      PROVE  heap[o].id \in L
  <2>1. PICK s \in DOMAIN root : o = root[s]
    BY <1>1, <1>4
  <2>2. /\ s \in DOMAIN before'.roots /\ before'.roots[s] = heap[o].id
        /\ heap[o].id \in DOMAIN before'.objects
    BY <1>1, <1>2, <2>1, IdleRead DEF NamedIn, Identities
  <2>3. QED BY <1>4, <2>2 DEF Abstract!Closed
<1>5. \A o \in DOMAIN heap : ~Marked(o)'
  BY <1>1, IdleInv DEF Marked
<1>6. OnlyReachable'
  BY <1>1, <1>4, <1>5 DEF OnlyReachable
<1>7. QED BY <1>1, <1>2, <1>3, <1>6 DEF GraphInv

\* The steps that change colors and forwarding addresses only.
LEMMA ColorsAndForwards ==
  ASSUME IInv,
         \/ heap' = heap
         \/ heap' = [o \in DOMAIN heap |-> [heap[o] EXCEPT !.color = White]]
         \/ \E p \in DOMAIN heap : \E c : heap' = [heap EXCEPT ![p].color = c]
         \/ \E p \in DOMAIN heap : \E f : heap' = [heap EXCEPT ![p].fwd = f]
  PROVE  /\ DOMAIN heap' = DOMAIN heap
         /\ \A o \in DOMAIN heap : /\ heap'[o].id = heap[o].id /\ heap'[o].weak = heap[o].weak
                                   /\ heap'[o].slots = heap[o].slots
<1>1. /\ heap = [o \in DOMAIN heap |-> heap[o]]
      /\ \A o \in DOMAIN heap : heap[o] \in Object(heap[o].slotCount)
  BY DEF IInv, TypeOK, HeapType
<1>2. CASE heap' = [o \in DOMAIN heap |-> [heap[o] EXCEPT !.color = White]]
  BY <1>1, <1>2 DEF Object
<1>3. CASE \E p \in DOMAIN heap : \E c : heap' = [heap EXCEPT ![p].color = c]
  <2>0. PICK p \in DOMAIN heap : \E c : heap' = [heap EXCEPT ![p].color = c]
    BY <1>3
  <2>1. PICK c : heap' = [heap EXCEPT ![p].color = c]
    BY <2>0
  <2>2. heap' = [o \in DOMAIN heap |-> IF o = p THEN [heap[p] EXCEPT !.color = c] ELSE heap[o]]
    BY <1>1, <2>1
  <2>3. QED BY <1>1, <2>2 DEF Object
<1>4. CASE \E p \in DOMAIN heap : \E f : heap' = [heap EXCEPT ![p].fwd = f]
  <2>0. PICK p \in DOMAIN heap : \E f : heap' = [heap EXCEPT ![p].fwd = f]
    BY <1>4
  <2>1. PICK f : heap' = [heap EXCEPT ![p].fwd = f]
    BY <2>0
  <2>2. heap' = [o \in DOMAIN heap |-> IF o = p THEN [heap[p] EXCEPT !.fwd = f] ELSE heap[o]]
    BY <1>1, <2>1
  <2>3. QED BY <1>1, <2>2 DEF Object
<1>5. QED BY <1>2, <1>3, <1>4

\* ... keep the picture, if what they mark is in every closed set.
LEMMA SameGraph ==
  ASSUME GraphInv, phase \in {"mark", "forward"}, phase' \in {"mark", "forward"},
         DOMAIN heap' = DOMAIN heap, root' = root, before' = before,
         \A o \in DOMAIN heap : /\ heap'[o].id = heap[o].id /\ heap'[o].weak = heap[o].weak
                                /\ heap'[o].slots = heap[o].slots,
         OnlyReachable'
  PROVE  GraphInv' /\ Picture' = Picture
<1>1. Distinct(heap) /\ Depicts(heap, root, before)
  BY DEF GraphInv
<1>2. Distinct(heap') /\ Depicts(heap', root', before')
  BY <1>1, SameDistinct, SamePicture
<1>3. QED BY <1>2 DEF GraphInv, Picture

\* Marking leaves the graph alone.
LEMMA MarkPicture ==
  ASSUME IInv, GraphInv, markObject
  PROVE  GraphInv' /\ Picture' = Picture
<1>1. PICK v \in pending :
        IF v \in DOMAIN heap /\ ~Marked(v)
        THEN /\ heap' = [heap EXCEPT ![v].color = Black]
             /\ pending' = (pending \ {v}) \cup Children(v)
        ELSE /\ pending' = pending \ {v}
             /\ UNCHANGED heap
  BY DEF markObject
<1>2. phase = "mark" /\ phase' = "mark" /\ root' = root /\ before' = before
  BY DEF markObject, mutator
<1>3. /\ DOMAIN heap' = DOMAIN heap
      /\ \A o \in DOMAIN heap : /\ heap'[o].id = heap[o].id /\ heap'[o].weak = heap[o].weak
                                /\ heap'[o].slots = heap[o].slots
  BY <1>1, ColorsAndForwards
<1>4. \A o \in DOMAIN heap : Marked(o)' => Marked(o) \/ o = v
  <2>1. heap = [o \in DOMAIN heap |-> heap[o]]
    BY DEF IInv, TypeOK, HeapType
  <2>2. \A o \in DOMAIN heap : o # v => heap'[o] = heap[o]
    BY <1>1, <2>1
  <2>3. QED BY <2>2 DEF Marked
<1>5. ASSUME NEW L \in SUBSET DOMAIN before.objects, Abstract!Closed(before, L),
             NEW o \in DOMAIN heap, Marked(o)' \/ o \in pending'
      PROVE  heap[o].id \in L
  <2>1. \A p \in DOMAIN heap : Marked(p) \/ p \in pending => heap[p].id \in L
    BY <1>2, <1>5 DEF GraphInv, OnlyReachable
  <2>2. CASE Marked(o) \/ o \in pending
    BY <2>1, <2>2
  <2>3. CASE v \in DOMAIN heap /\ o \in Children(v)
    <3>1. ~heap[v].weak
      BY <2>3 DEF Children
    <3>2. PICK i \in DOMAIN heap[v].slots : o = heap[v].slots[i]
      BY <2>3, <3>1 DEF Children
    <3>3. heap[v].id \in L
      BY <2>1, <2>3
    <3>4. before.objects[heap[v].id] = ContentsIn(heap, v)
      BY <1>2, <2>3 DEF GraphInv, Depicts
    <3>5. /\ ~before.objects[heap[v].id].weak /\ i \in DOMAIN before.objects[heap[v].id].slots
          /\ before.objects[heap[v].id].slots[i] = heap[o].id
      BY <3>1, <3>2, <3>4 DEF ContentsIn, NamedIn
    <3>6. heap[o].id \in DOMAIN before.objects
      <4>1. before.objects = [x \in Identities(heap) |-> before.objects[x]]
        BY <1>2 DEF GraphInv, Depicts
      <4>2. DOMAIN before.objects = Identities(heap)
        BY <4>1
      <4>3. QED BY <4>2 DEF Identities
    <3>7. QED BY <1>5, <3>3, <3>5, <3>6 DEF Abstract!Closed
  <2>4. QED BY <1>1, <1>4, <1>5, <2>2, <2>3
<1>6. OnlyReachable'
  BY <1>2, <1>3, <1>5 DEF OnlyReachable
<1>7. QED BY <1>2, <1>3, <1>6, SameGraph

\* Computing places leaves the graph alone.
LEMMA ForwardPicture ==
  ASSUME SmallObjects, IInv, GraphInv, StartCompaction \/ ComputeForwarding
  PROVE  GraphInv' /\ Picture' = Picture
<1>1. /\ phase \in {"mark", "forward"} /\ phase' \in {"mark", "forward"}
      /\ root' = root /\ before' = before /\ pending' = pending
  BY DEF StartCompaction, ComputeForwarding, mutator
<1>2. \/ heap' = heap
      \/ \E p \in DOMAIN heap : \E f : heap' = [heap EXCEPT ![p].fwd = f]
  <2>1. CASE ComputeForwarding
    <3>1. ObjectAt(live) \in DOMAIN heap
      BY <2>1, AtLive DEF ComputeForwarding, Compacting
    <3>2. QED BY <2>1, <3>1 DEF ComputeForwarding
  <2>2. QED BY <2>1 DEF StartCompaction
<1>3. /\ DOMAIN heap' = DOMAIN heap
      /\ \A o \in DOMAIN heap : /\ heap'[o].id = heap[o].id /\ heap'[o].weak = heap[o].weak
                                /\ heap'[o].slots = heap[o].slots
  BY <1>2, ColorsAndForwards
<1>4. \A o \in DOMAIN heap : heap'[o].color = heap[o].color
  <2>1. /\ heap = [o \in DOMAIN heap |-> heap[o]]
        /\ \A o \in DOMAIN heap : heap[o] \in Object(heap[o].slotCount)
    BY DEF IInv, TypeOK, HeapType
  <2>2. CASE \E p \in DOMAIN heap : \E f : heap' = [heap EXCEPT ![p].fwd = f]
    <3>0. PICK p \in DOMAIN heap : \E f : heap' = [heap EXCEPT ![p].fwd = f]
      BY <2>2
    <3>1. PICK f : heap' = [heap EXCEPT ![p].fwd = f]
      BY <3>0
    <3>2. heap' = [o \in DOMAIN heap |-> IF o = p THEN [heap[p] EXCEPT !.fwd = f] ELSE heap[o]]
      BY <2>1, <3>1
    <3>3. QED BY <2>1, <3>2 DEF Object
  <2>3. QED BY <1>2, <2>2
<1>5. OnlyReachable'
  BY <1>1, <1>3, <1>4 DEF OnlyReachable, GraphInv, Marked
<1>6. QED BY <1>1, <1>3, <1>5, SameGraph

\* When nothing is condemned, the picture at the end is the one at the start...
LEMMA AbortPicture ==
  ASSUME IInv, GraphInv, abortCompaction
  PROVE  GraphInv' /\ Picture' = Picture
<1>1. /\ phase = "forward" /\ phase' = "idle" /\ root' = root
      /\ heap' = [o \in DOMAIN heap |-> [heap[o] EXCEPT !.color = White]]
  BY DEF abortCompaction, EndCollection, mutator
<1>2. /\ DOMAIN heap' = DOMAIN heap
      /\ \A o \in DOMAIN heap : /\ heap'[o].id = heap[o].id /\ heap'[o].weak = heap[o].weak
                                /\ heap'[o].slots = heap[o].slots
  BY <1>1, ColorsAndForwards
<1>3. PICK g : g = before
  OBVIOUS
<1>4. Distinct(heap) /\ Depicts(heap, root, g)
  BY <1>1, <1>3 DEF GraphInv
<1>5. Distinct(heap') /\ Depicts(heap', root', g)
  BY <1>1, <1>2, <1>4, SameDistinct, SamePicture
<1>6. Picture' = g /\ Picture = g
  BY <1>1, <1>3, <1>5, IdlePictureNext DEF Picture
<1>7. QED BY <1>1, <1>5, <1>6 DEF GraphInv

\* The set the abstract collection keeps, and what is left when K is kept.
LEMMA ReachableIs ==
  ASSUME NEW g, NEW K \in SUBSET DOMAIN g.objects, Abstract!Closed(g, K),
         \A L \in SUBSET DOMAIN g.objects : Abstract!Closed(g, L) => K \subseteq L
  PROVE  Abstract!Reachable(g) = K
<1> DEFINE Least(R) == /\ Abstract!Closed(g, R)
                       /\ \A L \in SUBSET DOMAIN g.objects : Abstract!Closed(g, L) => R \subseteq L
<1>1. Abstract!Reachable(g) = CHOOSE R \in SUBSET DOMAIN g.objects : Least(R)
  BY DEF Abstract!Reachable
<1>2. Least(K)
  OBVIOUS
<1> HIDE DEF Least
<1>3. Abstract!Reachable(g) \in SUBSET DOMAIN g.objects /\ Least(Abstract!Reachable(g))
  BY <1>1, <1>2
<1>4. PICK R : R = Abstract!Reachable(g)
  OBVIOUS
<1>5. R \in SUBSET DOMAIN g.objects /\ Least(R)
  BY <1>3, <1>4
<1>6. R \subseteq K /\ K \subseteq R
  BY <1>2, <1>5 DEF Least
<1>7. QED BY <1>4, <1>6

\* The fields of the graph that a collection keeps.
LEMMA KeptIs ==
  ASSUME NEW g, NEW K, K \subseteq DOMAIN g.objects, g = [objects |-> g.objects, roots |-> g.roots],
         \A x \in K : g.objects[x] = [weak |-> g.objects[x].weak, slots |-> g.objects[x].slots]
  PROVE  /\ Abstract!Kept(g, K) = [objects |-> Abstract!Kept(g, K).objects, roots |-> g.roots]
         /\ Abstract!Kept(g, K).objects = [x \in K |-> Abstract!Kept(g, K).objects[x]]
         /\ \A x \in K : Abstract!Kept(g, K).objects[x] =
              [weak  |-> g.objects[x].weak,
               slots |-> [i \in DOMAIN g.objects[x].slots |->
                            IF g.objects[x].slots[i] \in DOMAIN g.objects \ K
                            THEN Nil ELSE g.objects[x].slots[i]]]
<1> DEFINE Slots(x) == [i \in DOMAIN g.objects[x].slots |->
                          IF g.objects[x].slots[i] \in DOMAIN g.objects \ K
                          THEN Nil ELSE g.objects[x].slots[i]]
           Left(x)  == [g.objects[x] EXCEPT !.slots = Slots(x)]
<1>1. Abstract!Kept(g, K) = [g EXCEPT !.objects = [x \in K |-> Left(x)]]
  BY DEF Abstract!Kept, Abstract!Nil, Nil
<1> HIDE DEF Slots
<1>2. \A x \in K : Left(x) = [weak |-> g.objects[x].weak, slots |-> Slots(x)]
  <2>1. ASSUME NEW x \in K PROVE Left(x) = [weak |-> g.objects[x].weak, slots |-> Slots(x)]
    <3>1. PICK w, l : g.objects[x] = [weak |-> w, slots |-> l]
      OBVIOUS
    <3>2. QED BY <3>1
  <2>2. QED BY <2>1
<1> HIDE DEF Left
<1>3. PICK m : m = [x \in K |-> Left(x)]
  OBVIOUS
<1>4. Abstract!Kept(g, K) = [objects |-> m, roots |-> g.roots]
  BY <1>1, <1>3
<1>5. m = [x \in K |-> m[x]] /\ \A x \in K : m[x] = [weak |-> g.objects[x].weak, slots |-> Slots(x)]
  BY <1>2, <1>3
<1>6. QED BY <1>4, <1>5 DEF Slots

\* When the pointers are about to be updated, what is marked is what can be
\* reached.
LEMMA MarkedIsReachable ==
  ASSUME IInv, GraphInv, phase = "forward",
         NEW K, K = {heap[o].id : o \in {p \in DOMAIN heap : Marked(p)}}
  PROVE  K \subseteq DOMAIN before.objects /\ Abstract!Reachable(before) = K
<1>1. /\ Distinct(heap) /\ Depicts(heap, root, before) /\ OnlyReachable
      /\ pending = {}
      /\ \A s \in DOMAIN root : Valid(root[s])
      /\ \A o \in DOMAIN heap : \A i \in DOMAIN heap[o].slots : Valid(heap[o].slots[i])
      /\ \A s \in DOMAIN root : root[s] \in DOMAIN heap => Marked(root[s])
      /\ \A o \in DOMAIN heap : Marked(o) => \A v \in Children(o) : v \in DOMAIN heap => Marked(v)
  BY DEF GraphInv, IInv, PointerInv, MarkInv
<1>2. PICK g : g = before
  OBVIOUS
<1>3. /\ DOMAIN g.objects = Identities(heap)
      /\ g.roots = [s \in DOMAIN root |-> NamedIn(heap, root[s])]
      /\ \A o \in DOMAIN heap : g.objects[heap[o].id] = ContentsIn(heap, o)
  <2>1. /\ g = [objects |-> g.objects, roots |-> [s \in DOMAIN root |-> NamedIn(heap, root[s])]]
        /\ g.objects = [x \in Identities(heap) |-> g.objects[x]]
        /\ \A o \in DOMAIN heap : g.objects[heap[o].id] = ContentsIn(heap, o)
    BY <1>1, <1>2 DEF Depicts
  <2>2. g.roots = [s \in DOMAIN root |-> NamedIn(heap, root[s])]
    BY <2>1
  <2>3. DOMAIN g.objects = Identities(heap)
    BY <2>1
  <2>4. QED BY <2>1, <2>2, <2>3
<1>4. K \subseteq DOMAIN g.objects
  BY <1>3 DEF Identities
<1>5. ASSUME NEW v, Valid(v), v \in DOMAIN heap => Marked(v), NamedIn(heap, v) \in Identities(heap)
      PROVE  NamedIn(heap, v) \in K
  BY <1>5, NoIdentity DEF Valid, NamedIn
<1>6. Abstract!Closed(g, K)
  <2>1. \A s \in DOMAIN g.roots : g.roots[s] \in DOMAIN g.objects => g.roots[s] \in K
    BY <1>1, <1>3, <1>5
  <2>2. ASSUME NEW x \in K, ~g.objects[x].weak, NEW i \in DOMAIN g.objects[x].slots,
               g.objects[x].slots[i] \in DOMAIN g.objects
        PROVE  g.objects[x].slots[i] \in K
    <3>1. PICK o \in DOMAIN heap : Marked(o) /\ x = heap[o].id
      OBVIOUS
    <3>2. g.objects[x] = ContentsIn(heap, o)
      BY <1>3, <3>1
    <3>3. ~heap[o].weak /\ i \in DOMAIN heap[o].slots
          /\ g.objects[x].slots[i] = NamedIn(heap, heap[o].slots[i])
      BY <2>2, <3>2 DEF ContentsIn
    <3>4. heap[o].slots[i] \in Children(o)
      BY <3>3 DEF Children
    <3>5. QED BY <1>1, <1>3, <1>5, <2>2, <3>1, <3>3, <3>4
  <2>3. QED BY <1>4, <2>1, <2>2 DEF Abstract!Closed
<1>7. ASSUME NEW L \in SUBSET DOMAIN g.objects, Abstract!Closed(g, L) PROVE K \subseteq L
  BY <1>1, <1>2, <1>7 DEF OnlyReachable
<1>8. QED BY <1>2, <1>4, <1>6, <1>7, ReachableIs

\* The second pass draws the picture of what is going to be left: references to
\* what is kept name it at its new place, those to condemned objects are nil.
LEMMA UpdatePicture ==
  ASSUME SmallObjects, IInv, GraphInv, UpdatePointers
  PROVE  GraphInv' /\ Picture' = Picture
<1>0. PICK K : K = {heap[o].id : o \in {p \in DOMAIN heap : Marked(p)}}
  OBVIOUS
<1>1. /\ phase = "forward" /\ phase' = "move" /\ before' = before
      /\ root' = [s \in DOMAIN root |-> updatePointer(root[s])]
  BY DEF UpdatePointers
<1>2. PICK g : g = before
  OBVIOUS
<1>3. K \subseteq DOMAIN g.objects /\ Abstract!Reachable(g) = K
  BY <1>0, <1>1, <1>2, MarkedIsReachable
<1>4. /\ Distinct(heap) /\ Depicts(heap, root, g)
      /\ \A s \in DOMAIN root : Valid(root[s])
      /\ \A o \in DOMAIN heap : \A i \in DOMAIN heap[o].slots : Valid(heap[o].slots[i])
      /\ \A s \in DOMAIN root : root[s] \in DOMAIN heap => Marked(root[s])
  BY <1>1, <1>2 DEF GraphInv, IInv, PointerInv, MarkInv
<1>5. /\ g = [objects |-> g.objects, roots |-> g.roots]
      /\ g.roots = [s \in DOMAIN root |-> NamedIn(heap, root[s])]
      /\ DOMAIN g.objects = Identities(heap)
      /\ \A o \in DOMAIN heap : g.objects[heap[o].id] = ContentsIn(heap, o)
  <2>1. /\ g = [objects |-> g.objects, roots |-> [s \in DOMAIN root |-> NamedIn(heap, root[s])]]
        /\ g.objects = [x \in Identities(heap) |-> g.objects[x]]
        /\ \A o \in DOMAIN heap : g.objects[heap[o].id] = ContentsIn(heap, o)
    BY <1>4 DEF Depicts
  <2>2. g.roots = [s \in DOMAIN root |-> NamedIn(heap, root[s])]
    BY <2>1
  <2>3. DOMAIN g.objects = Identities(heap)
    BY <2>1
  <2>4. QED BY <2>1, <2>2, <2>3
<1>6. PICK j : j = Abstract!Kept(g, K)
  OBVIOUS
<1>7. /\ j = [objects |-> j.objects, roots |-> g.roots]
      /\ j.objects = [x \in K |-> j.objects[x]]
      /\ \A o \in DOMAIN heap : Marked(o) =>
           j.objects[heap[o].id] =
             [weak  |-> heap[o].weak,
              slots |-> [i \in DOMAIN heap[o].slots |->
                           IF NamedIn(heap, heap[o].slots[i]) \in Identities(heap) \ K
                           THEN Nil ELSE NamedIn(heap, heap[o].slots[i])]]
  <2>1. \A x \in K : g.objects[x] = [weak |-> g.objects[x].weak, slots |-> g.objects[x].slots]
    <3>1. ASSUME NEW x \in K
          PROVE  g.objects[x] = [weak |-> g.objects[x].weak, slots |-> g.objects[x].slots]
      <4>1. PICK o \in DOMAIN heap : g.objects[x] = ContentsIn(heap, o)
        BY <1>0, <1>5
      <4>2. PICK w, l : g.objects[x] = [weak |-> w, slots |-> l]
        BY <4>1 DEF ContentsIn
      <4>3. QED BY <4>2
    <3>2. QED BY <3>1
  <2>2. /\ j = [objects |-> j.objects, roots |-> g.roots]
        /\ j.objects = [x \in K |-> j.objects[x]]
        /\ \A x \in K : j.objects[x] =
             [weak  |-> g.objects[x].weak,
              slots |-> [i \in DOMAIN g.objects[x].slots |->
                           IF g.objects[x].slots[i] \in DOMAIN g.objects \ K
                           THEN Nil ELSE g.objects[x].slots[i]]]
    BY <1>3, <1>5, <1>6, <2>1, KeptIs
  <2>3. ASSUME NEW o \in DOMAIN heap, Marked(o)
        PROVE  j.objects[heap[o].id] =
                 [weak  |-> heap[o].weak,
                  slots |-> [i \in DOMAIN heap[o].slots |->
                               IF NamedIn(heap, heap[o].slots[i]) \in Identities(heap) \ K
                               THEN Nil ELSE NamedIn(heap, heap[o].slots[i])]]
    <3>1. PICK x : x = heap[o].id
      OBVIOUS
    <3>2. x \in K /\ g.objects[x] = ContentsIn(heap, o)
      BY <1>0, <1>5, <2>3, <3>1
    <3>3. /\ g.objects[x].weak = heap[o].weak
          /\ g.objects[x].slots = [i \in DOMAIN heap[o].slots |-> NamedIn(heap, heap[o].slots[i])]
      BY <3>2 DEF ContentsIn
    <3>4. [i \in DOMAIN g.objects[x].slots |->
             IF g.objects[x].slots[i] \in DOMAIN g.objects \ K THEN Nil ELSE g.objects[x].slots[i]]
          = [i \in DOMAIN heap[o].slots |->
               IF NamedIn(heap, heap[o].slots[i]) \in Identities(heap) \ K
               THEN Nil ELSE NamedIn(heap, heap[o].slots[i])]
      BY <3>3, <1>5
    <3>5. QED BY <2>2, <3>1, <3>2, <3>3, <3>4
  <2>4. QED BY <2>2, <2>3
<1>8. /\ \A p : p \in Settled <=> p \in DOMAIN heap /\ Marked(p)
      /\ \A v : Valid(v) =>
           updatePointer(v) = IF v \in DOMAIN heap THEN IF Marked(v) THEN Place(v) ELSE Nil ELSE v
      /\ DOMAIN heap' = DOMAIN heap
      /\ \A p \in DOMAIN heap :
           /\ heap'[p].id = heap[p].id /\ heap'[p].weak = heap[p].weak
           /\ DOMAIN heap'[p].slots = DOMAIN heap[p].slots
           /\ Marked(p) => \A i \in DOMAIN heap[p].slots :
                              heap'[p].slots[i] = updatePointer(heap[p].slots[i])
      /\ Settled' = Settled /\ \A p \in Settled : Place(p)' = Place(p)
  BY UpdateFacts
\* No two objects get the same place.
<1>9. \A p, q \in Settled : Place(p) \in Nat \ {0} /\ (Place(p) = Place(q) => p = q)
  <2>1. /\ \A p \in Settled : Place(p) \in 1..p /\ p \in Nat /\ Extent(p) \in Nat \ {0}
        /\ \A p, q \in Settled : p < q => Place(p) + Extent(p) <= Place(q)
    BY <1>1, <1>8, UpdateFacts DEF IInv, PlaceInv, Compacting
  <2>2. \A p \in Settled : Place(p) \in Nat \ {0}
    BY <2>1
  <2>3. ASSUME NEW p \in Settled, NEW q \in Settled, p < q PROVE Place(p) # Place(q)
    BY <2>1, <2>2, <2>3
  <2>4. \A p, q \in Settled : p < q \/ q < p \/ p = q
    BY <2>1
  <2>5. QED BY <2>2, <2>3, <2>4
<1>10. PICK k : /\ DOMAIN k = {Place(o) : o \in Settled}
                /\ \A o \in Settled : k[Place(o)] =
                     [id |-> heap'[o].id, weak |-> heap'[o].weak, slots |-> heap'[o].slots]
  <2> DEFINE At(a) == CHOOSE p \in Settled : Place(p) = a
             q == [a \in {Place(o) : o \in Settled} |->
                     [id |-> heap'[At(a)].id, weak |-> heap'[At(a)].weak, slots |-> heap'[At(a)].slots]]
  <2>1. ASSUME NEW o \in Settled PROVE At(Place(o)) = o
    <3>1. At(Place(o)) \in Settled /\ Place(At(Place(o))) = Place(o)
      OBVIOUS
    <3> HIDE DEF At
    <3>2. QED BY <3>1, <1>9
  <2> HIDE DEF At
  <2>2. DOMAIN q = {Place(o) : o \in Settled}
    OBVIOUS
  <2>3. \A o \in Settled : q[Place(o)] =
           [id |-> heap'[o].id, weak |-> heap'[o].weak, slots |-> heap'[o].slots]
    BY <2>1
  <2> HIDE DEF q
  <2>4. QED BY <2>2, <2>3
<1>11. \A o \in Settled : /\ k[Place(o)].id = heap[o].id /\ k[Place(o)].weak = heap[o].weak
                          /\ k[Place(o)].slots = heap'[o].slots
  <2>1. ASSUME NEW o \in Settled
        PROVE  /\ k[Place(o)].id = heap'[o].id /\ k[Place(o)].weak = heap'[o].weak
               /\ k[Place(o)].slots = heap'[o].slots
    <3>1. PICK x, w, l : x = heap'[o].id /\ w = heap'[o].weak /\ l = heap'[o].slots
      OBVIOUS
    <3>2. k[Place(o)] = [id |-> x, weak |-> w, slots |-> l]
      BY <1>10, <3>1
    <3>3. QED BY <3>1, <3>2
  <2>2. \A o \in Settled : heap'[o].id = heap[o].id /\ heap'[o].weak = heap[o].weak
    BY <1>8
  <2>3. QED BY <2>1, <2>2
<1>12. Compacted(k)'
  <2>1. {Place(o) : o \in Settled}' = {Place(o) : o \in Settled}
    BY <1>8
  <2>2. \A o \in Settled' : /\ k[Place(o)'].id = heap'[o].id /\ k[Place(o)'].weak = heap'[o].weak
                            /\ k[Place(o)'].slots = heap'[o].slots
    BY <1>8, <1>11
  <2>3. QED BY <1>10, <2>1, <2>2 DEF Compacted
<1>13. Distinct(k)
  BY <1>4, <1>8, <1>10, <1>11 DEF Distinct
<1>14. Identities(k) = K
  <2>1. \A x : x \in Identities(k) <=> \E o \in Settled : x = heap[o].id
    BY <1>10, <1>11 DEF Identities
  <2>2. \A x : x \in K <=> \E o \in Settled : x = heap[o].id
    BY <1>0, <1>8
  <2>3. QED BY <2>1, <2>2
<1>15. ASSUME NEW v, Valid(v)
       PROVE  NamedIn(k, updatePointer(v)) =
                IF NamedIn(heap, v) \in Identities(heap) \ K THEN Nil ELSE NamedIn(heap, v)
  <2>1. Nil \notin DOMAIN k /\ Immediate \notin DOMAIN k
    BY <1>9, <1>10 DEF Nil, Immediate
  <2>2. CASE v \in DOMAIN heap /\ Marked(v)
    <3>1. v \in Settled /\ updatePointer(v) = Place(v)
      BY <1>8, <1>15, <2>2
    <3>2. NamedIn(k, updatePointer(v)) = heap[v].id
      BY <1>10, <1>11, <3>1 DEF NamedIn
    <3>3. NamedIn(heap, v) = heap[v].id /\ heap[v].id \in K
      BY <1>0, <2>2 DEF NamedIn
    <3>4. QED BY <3>2, <3>3
  <2>3. CASE v \in DOMAIN heap /\ ~Marked(v)
    <3>1. updatePointer(v) = Nil
      BY <1>8, <1>15, <2>3
    <3>2. NamedIn(k, updatePointer(v)) = Nil
      BY <2>1, <3>1 DEF NamedIn
    <3>3. NamedIn(heap, v) = heap[v].id /\ heap[v].id \in Identities(heap)
      BY <2>3 DEF NamedIn, Identities
    <3>4. heap[v].id \notin K
      BY <1>0, <1>4, <2>3 DEF Distinct
    <3>5. QED BY <3>2, <3>3, <3>4
  <2>4. CASE v \in {Nil, Immediate} /\ v \notin DOMAIN heap
    <3>1. updatePointer(v) = v /\ NamedIn(k, v) = v /\ NamedIn(heap, v) = v
      BY <1>8, <1>15, <2>1, <2>4 DEF NamedIn
    <3>2. v \notin Identities(heap)
      BY <2>4, NoIdentity
    <3>3. QED BY <3>1, <3>2
  <2>5. QED BY <1>15, <2>2, <2>3, <2>4 DEF Valid
<1>16. j.roots = [s \in DOMAIN root' |-> NamedIn(k, root'[s])]
  <2>1. \A s \in DOMAIN root : NamedIn(heap, root[s]) \notin Identities(heap) \ K
    <3>1. ASSUME NEW s \in DOMAIN root, root[s] \in DOMAIN heap PROVE NamedIn(heap, root[s]) \in K
      BY <1>0, <1>4, <3>1 DEF NamedIn
    <3>2. ASSUME NEW s \in DOMAIN root, root[s] \notin DOMAIN heap
          PROVE  NamedIn(heap, root[s]) \notin Identities(heap)
      BY <1>4, <3>2, NoIdentity DEF NamedIn, Valid
    <3>3. QED BY <3>1, <3>2
  <2>2. \A s \in DOMAIN root : NamedIn(k, root'[s]) = NamedIn(heap, root[s])
    BY <1>1, <1>4, <1>15, <2>1
  <2>3. DOMAIN root' = DOMAIN root
    BY <1>1
  <2>4. j.roots = g.roots
    BY <1>7
  <2>5. QED BY <1>5, <2>2, <2>3, <2>4
<1>17. ASSUME NEW a \in DOMAIN k PROVE j.objects[k[a].id] = ContentsIn(k, a)
  <2>1. PICK o \in Settled : a = Place(o)
    BY <1>10
  <2>2. /\ o \in DOMAIN heap /\ Marked(o)
        /\ k[a].id = heap[o].id /\ k[a].weak = heap[o].weak /\ k[a].slots = heap'[o].slots
    BY <1>8, <1>11, <2>1
  <2>3. \A i \in DOMAIN heap[o].slots :
           NamedIn(k, heap'[o].slots[i]) = IF NamedIn(heap, heap[o].slots[i]) \in Identities(heap) \ K
                                           THEN Nil ELSE NamedIn(heap, heap[o].slots[i])
    BY <1>4, <1>8, <1>15, <2>2
  <2>4. [i \in DOMAIN k[a].slots |-> NamedIn(k, k[a].slots[i])]
          = [i \in DOMAIN heap[o].slots |->
               IF NamedIn(heap, heap[o].slots[i]) \in Identities(heap) \ K
               THEN Nil ELSE NamedIn(heap, heap[o].slots[i])]
    BY <1>8, <2>2, <2>3
  <2>5. QED BY <1>7, <2>2, <2>4 DEF ContentsIn
<1>18. Depicts(k, root', j)
  <2>1. j = [objects |-> j.objects, roots |-> [s \in DOMAIN root' |-> NamedIn(k, root'[s])]]
    <3>1. j.roots = g.roots
      BY <1>7
    <3>2. QED BY <1>7, <1>16, <3>1
  <2>2. QED BY <1>7, <1>14, <1>17, <2>1 DEF Depicts
<1>19. Survivors' = j
  BY <1>1, <1>2, <1>3, <1>6 DEF Survivors
<1>20. QED BY <1>1, <1>12, <1>13, <1>18, <1>19 DEF GraphInv, Picture

\* The third pass moves the objects to where the picture has them.
LEMMA MovePicture ==
  ASSUME SmallObjects, IInv, GraphInv, MoveObject
  PROVE  GraphInv' /\ Picture' = Picture
<1>1. phase = "move" /\ phase' = "move" /\ root' = root /\ before' = before
  BY DEF MoveObject, mutator
<1>2. PICK k : Compacted(k) /\ Distinct(k) /\ Depicts(k, root, Survivors)
  BY <1>1 DEF GraphInv
<1>3. Compacted(k)'
  BY <1>2, SkipStep, MoveStep
<1>4. Depicts(k, root', Survivors')
  <2>1. Survivors' = Survivors
    BY <1>1 DEF Survivors
  <2>2. QED BY <1>1, <1>2, <2>1
<1>5. QED BY <1>1, <1>2, <1>3, <1>4 DEF GraphInv, Picture

\* ... and at its end the heap is that picture.
LEMMA EndPicture ==
  ASSUME SmallObjects, IInv, GraphInv, EndCompaction
  PROVE  GraphInv' /\ Abstract!Collect
<1>1. phase = "move" /\ phase' = "idle" /\ root' = root /\ heap' = heap
  BY DEF EndCompaction, EndCollection, mutator
<1>2. PICK k : Compacted(k) /\ Distinct(k) /\ Depicts(k, root, Survivors)
  BY <1>1 DEF GraphInv
<1>3. Settled = DOMAIN heap /\ \A p \in DOMAIN heap : Place(p) = p
  BY EndStep
<1>4. /\ DOMAIN heap = DOMAIN k
      /\ \A o \in DOMAIN k : /\ heap[o].id = k[o].id /\ heap[o].weak = k[o].weak
                             /\ heap[o].slots = k[o].slots
  <2>1. {Place(o) : o \in Settled} = DOMAIN heap
    BY <1>3
  <2>2. QED BY <1>2, <1>3, <2>1 DEF Compacted
<1>5. PICK j : j = Survivors
  OBVIOUS
<1>6. Distinct(heap') /\ Depicts(heap', root', j)
  BY <1>1, <1>2, <1>4, <1>5, SameDistinct, SamePicture
<1>7. Picture' = j
  BY <1>1, <1>6, IdlePictureNext
<1>8. GraphInv'
  BY <1>1, <1>6 DEF GraphInv
<1>9. QED BY <1>1, <1>5, <1>7, <1>8 DEF Survivors, Abstract!Collect, Picture

\* At first the picture is the initial graph.
LEMMA InitPicture == ASSUME Init PROVE GraphInv /\ Abstract!Init
<1>1. phase = "idle" /\ DOMAIN heap = {} /\ root = [s \in StaticRoots |-> Nil]
  BY DEF Init
<1>2. GraphInv
  BY <1>1 DEF GraphInv, Distinct
<1>3. PICK f : f = [objects |-> << >>, roots |-> [s \in StaticRoots |-> Nil]]
  OBVIOUS
<1>4. Depicts(heap, root, f)
  <2>1. f.objects = << >> /\ f.roots = root /\ f = [objects |-> f.objects, roots |-> f.roots]
    BY <1>1, <1>3
  <2>2. Identities(heap) = {}
    BY <1>1 DEF Identities
  <2>3. f.objects = [x \in Identities(heap) |-> f.objects[x]]
    BY <2>1, <2>2
  <2>4. f.roots = [s \in DOMAIN root |-> NamedIn(heap, root[s])]
    BY <1>1, <2>1 DEF NamedIn
  <2>5. QED BY <1>1, <2>1, <2>3, <2>4 DEF Depicts
<1>5. Picture = f
  BY <1>1, <1>2, <1>4, IdlePicture, OnePicture
<1>6. QED BY <1>2, <1>3, <1>5 DEF Abstract!Init, Abstract!Nil, Nil, Picture

\* Every step is one of the graph, or leaves it alone.
LEMMA NextPicture ==
  ASSUME SmallObjects, IInv, GraphInv, [Next]_vars
  PROVE  GraphInv' /\ (Abstract!Next \/ UNCHANGED Picture)
<1>1. CASE collectionSafePoint \/ performCollection
  BY <1>1, StartPicture DEF collectionSafePoint, performCollection
<1>2. CASE EndCompaction
  BY <1>2, EndPicture DEF Abstract!Next
<1>3. CASE CollectorStep
  BY <1>2, <1>3, MarkPicture, ForwardPicture, AbortPicture, UpdatePicture, MovePicture DEF CollectorStep
<1>4. CASE UNCHANGED vars
  <2>1. UNCHANGED <<heap, root, phase, before, pending, live>>
    BY <1>4 DEF vars, mutator, collector
  <2>2. /\ Settled' = Settled /\ \A o \in Settled : Place(o)' = Place(o)
        /\ Survivors' = Survivors
    BY <2>1 DEF Settled, Place, Base, Marked, Survivors
  <2>3. \A k : Compacted(k) => Compacted(k)'
    <3>1. {Place(o) : o \in Settled}' = {Place(o) : o \in Settled}
      BY <2>2
    <3>2. QED BY <2>1, <2>2, <3>1 DEF Compacted
  <2>4. OnlyReachable => OnlyReachable'
    BY <2>1 DEF OnlyReachable, Marked
  <2>5. GraphInv'
    BY <2>1, <2>2, <2>3, <2>4 DEF GraphInv
  <2>6. Picture' = Picture
    BY <2>1 DEF Picture, GraphOf, Named
  <2>7. QED BY <2>5, <2>6
<1>5. QED BY <1>1, <1>3, <1>4, MutatorPicture DEF Next

\* The heap implements the object graph: whatever the collector moves, the
\* program sees objects with an identity and contents that only itself changes,
\* a collection leaves exactly what could be reached, and weak references to
\* what it frees become nil.
THEOREM HeapImplementsGraph == ASSUME SmallObjects PROVE Spec => GraphSpec
<1>1. Init => IInv /\ GraphInv /\ Abstract!Init
  BY InitInv, InitPicture
<1>2. IInv /\ GraphInv /\ [Next]_vars => IInv' /\ GraphInv'
  BY NextInv, NextPicture
<1>3. IInv /\ GraphInv /\ [Next]_vars
        => [Abstract!Next]_(IF phase = "idle" THEN GraphOf ELSE before)
  BY NextPicture DEF Picture
<1>4. QED BY <1>1, <1>2, <1>3, PTL DEF Spec, GraphSpec, Abstract!Spec
=============================================================================
