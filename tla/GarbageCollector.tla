-------------------------- MODULE GarbageCollector --------------------------
(***************************************************************************)
(* The heap of vm/MemoryManager.cpp: the bump allocator VMHeap, and the    *)
(* mark and compact collector that slides the live objects to the bottom   *)
(* of the heap.  The unit of size is the 8 byte word.  In memory an object *)
(* is                                                                      *)
(*    forwarding word, [slot count word, only if big], header, slots...    *)
(* and an Oop that points to it holds the address of its header.           *)
(*                                                                         *)
(* The collector stops the only thread there is, so the program's actions  *)
(* are enabled between collections only; a collection is a run of steps,   *)
(* one per object where the order of the objects matters (marking, the     *)
(* pass that computes the forwarding addresses, the pass that moves).      *)
(***************************************************************************)
EXTENDS Integers

CONSTANTS
  MaxCapacity,    \* words of reserved address space
  PageSize,       \* words by which the heap grows
  BigSlotCount,   \* slots from which an object has a slot count word (255)
  SlotCounts,     \* sizes of the objects the program creates
  Ids,            \* identities: bounds the objects allocated at one time
  StaticRoots,    \* root slots registered once: special objects, classes, frames
  Refs,           \* OopRef objects, registered and unregistered by the program
  Literals,       \* values the program stores that name no object in the heap
  MaxDisable,     \* bound on the nesting of WithoutGC scopes
  NoOop           \* no raw pointer is held, no graph is remembered

ASSUME GCAssumption ==
  /\ MaxCapacity \in Nat /\ PageSize \in Nat \ {0} /\ BigSlotCount \in Nat
  /\ SlotCounts \subseteq Nat
  /\ Ids \subseteq Nat \ {0}
  /\ StaticRoots \cap Refs = {}
  /\ Literals \subseteq {0, -1}      \* nil and a value that is no pointer
  /\ MaxDisable \in Nat
  /\ NoOop \notin Int

VARIABLES
  heap,           \* address of a header -> the object there
  size, capacity, \* VMHeap: words in use, words committed
  root,           \* registered root slot -> the Oop it holds
  nativeColor,    \* color of nil, the native object outside of the heap
  disableCount,   \* WithoutGC scopes that are open
  queued,         \* garbageCollectionQueued
  raw,            \* an Oop that native code holds in a C++ local
  phase,          \* what the collector is doing
  atSafePoint,    \* the collection was started by collectionSafePoint
  pending,        \* Oops the recursion of markObject has still to visit
  live,           \* address the walk over the heap has reached
  freeAddress,    \* where the next live object goes
  freeCount       \* condemned objects the first pass met

VARIABLES
  before,         \* history: the object graph when the collection started
  rawId           \* history: identity of the object raw points to

mutator   == <<root, disableCount, raw, rawId>>
collector == <<phase, atSafePoint, pending, live, freeAddress, freeCount, before>>
vars      == <<heap, size, capacity, nativeColor, queued, mutator, collector>>

----------------------------------------------------------------------------
(***************************************************************************)
(* Oops.                                                                   *)
(***************************************************************************)
Nil       == 0
Immediate == -1

Oop          == Int
isPointer(v) == v >= 0
InHeap(v)    == v \in 1..MaxCapacity   \* VMHeap::containsPointer

White == "white"
Black == "black"

Phases == {"idle", "mark", "forward", "move"}

(***************************************************************************)
(* Layout.                                                                 *)
(***************************************************************************)
isBig(n)          == n >= BigSlotCount
extraHeaderSize(n) == IF isBig(n) THEN 2 ELSE 1
computeSize(n)    == extraHeaderSize(n) + 1 + n

Object(n) == [slotCount : {n}, weak : BOOLEAN, color : {White, Black}, fwd : Nat,
              slots : [1..n -> Oop], id : Ids]

Base(o)   == o - extraHeaderSize(heap[o].slotCount)
Extent(o) == computeSize(heap[o].slotCount)
End(o)    == Base(o) + Extent(o)
Marked(o) == heap[o].color # White

ObjectsAt(a) == {o \in DOMAIN heap : Base(o) = a}
ObjectAt(a)  == CHOOSE o \in ObjectsAt(a) : TRUE

(***************************************************************************)
(* The object graph the heap stands for: every Oop replaced by the         *)
(* identity of the object it points to.                                    *)
(***************************************************************************)
Named(v) == IF v \in DOMAIN heap THEN heap[v].id ELSE v

GraphOf ==
  [objects |-> [x \in {heap[o].id : o \in DOMAIN heap} |->
      LET o == CHOOSE p \in DOMAIN heap : heap[p].id = x
      IN [weak  |-> heap[o].weak,
          slots |-> [i \in DOMAIN heap[o].slots |-> Named(heap[o].slots[i])]]],
   roots   |-> [s \in DOMAIN root |-> Named(root[s])]]

----------------------------------------------------------------------------
(***************************************************************************)
(* The heap is empty and no collection is queued; the static roots hold    *)
(* nil.                                                                    *)
(***************************************************************************)
Init ==
  /\ heap = [o \in {} |-> Nil] /\ size = 0 /\ capacity = 0
  /\ root = [s \in StaticRoots |-> Nil]
  /\ nativeColor = White
  /\ disableCount = 0 /\ queued = FALSE
  /\ raw = NoOop /\ rawId = NoOop
  /\ phase = "idle" /\ atSafePoint = FALSE /\ pending = {}
  /\ live = 0 /\ freeAddress = 0 /\ freeCount = 0
  /\ before = NoOop

----------------------------------------------------------------------------
(***************************************************************************)
(* Allocation.                                                             *)
(***************************************************************************)
hasCapacityThresholdBeenReached == 5 * size > capacity * 4

RoundToPage(a) == ((a + PageSize - 1) \div PageSize) * PageSize

NewObject(n, weak) ==
  [slotCount |-> n, weak |-> weak, color |-> White, fwd |-> 0,
   slots |-> [i \in 1..n |-> Nil],
   id |-> CHOOSE x \in Ids : \A o \in DOMAIN heap : heap[o].id # x]

\* The program creates an object of n slots and keeps it in the root slot s.
Allocate(s, n, weak) ==
  LET o       == size + extraHeaderSize(n)
      newSize == size + computeSize(n)
  IN /\ phase = "idle"
     /\ \E x \in Ids : \A p \in DOMAIN heap : heap[p].id # x
     /\ queued' = (queued \/ ~hasCapacityThresholdBeenReached)
     /\ capacity' = IF newSize <= capacity THEN capacity ELSE RoundToPage(newSize)
     /\ capacity' <= MaxCapacity
     /\ size' = newSize
     /\ heap' = [p \in DOMAIN heap \cup {o} |-> IF p = o THEN NewObject(n, weak) ELSE heap[p]]
     /\ root' = [root EXCEPT ![s] = o]
     /\ UNCHANGED <<nativeColor, disableCount, raw, rawId, collector>>

(***************************************************************************)
(* The program's other steps: it moves Oops between slots and roots.       *)
(***************************************************************************)
Held == {root[s] : s \in DOMAIN root} \cup Literals

Store(s, i, v) ==
  LET o == root[s]
  IN /\ phase = "idle"
     /\ o \in DOMAIN heap
     /\ i \in DOMAIN heap[o].slots
     /\ heap' = [heap EXCEPT ![o].slots[i] = v]
     /\ UNCHANGED <<size, capacity, nativeColor, queued, mutator, collector>>

SetRoot(s, v) ==
  /\ phase = "idle"
  /\ root' = [root EXCEPT ![s] = v]
  /\ UNCHANGED <<heap, size, capacity, nativeColor, queued, disableCount, raw, rawId, collector>>

Load(s, t, i) ==
  /\ root[t] \in DOMAIN heap
  /\ i \in DOMAIN heap[root[t]].slots
  /\ SetRoot(s, heap[root[t]].slots[i])

\* An OopRef is constructed with v, then destroyed.
registerOopReference(s, v) ==
  /\ phase = "idle"
  /\ root' = [t \in DOMAIN root \cup {s} |-> IF t = s THEN v ELSE root[t]]
  /\ UNCHANGED <<heap, size, capacity, nativeColor, queued, disableCount, raw, rawId, collector>>

unregisterOopReference(s) ==
  /\ phase = "idle"
  /\ root' = [t \in DOMAIN root \ {s} |-> root[t]]
  /\ UNCHANGED <<heap, size, capacity, nativeColor, queued, disableCount, raw, rawId, collector>>

(***************************************************************************)
(* WithoutGC: its constructor disables the collector and its destructor    *)
(* enables it; in between native code may keep a plain Oop in a local.     *)
(***************************************************************************)
disable ==
  /\ phase = "idle" /\ disableCount < MaxDisable
  /\ disableCount' = disableCount + 1
  /\ UNCHANGED <<heap, size, capacity, nativeColor, queued, root, raw, rawId, collector>>

HoldRaw(s) ==
  /\ phase = "idle" /\ disableCount > 0
  /\ root[s] \in DOMAIN heap
  /\ raw' = root[s] /\ rawId' = heap[root[s]].id
  /\ UNCHANGED <<heap, size, capacity, nativeColor, queued, root, disableCount, collector>>

enable ==
  /\ phase = "idle" /\ disableCount > 0
  /\ disableCount' = disableCount - 1
  /\ IF disableCount = 1 THEN raw' = NoOop /\ rawId' = NoOop ELSE UNCHANGED <<raw, rawId>>
  /\ UNCHANGED <<heap, size, capacity, nativeColor, queued, root, collector>>

----------------------------------------------------------------------------
(***************************************************************************)
(* The collection.                                                         *)
(***************************************************************************)
\* Faulty variant: WithoutGC is ignored.
AllowedInWithoutGC == TRUE

collectionAllowed == disableCount = 0

\* Faulty variant: the OopRefs are not among the roots.
RegisteredArraysOnly == {root[s] : s \in StaticRoots}

\* What onRootsDo visits: registered arrays, class table, frames, OopRefs, symbols.
Roots == {root[s] : s \in DOMAIN root}

\* internalPerformCollection is entered: the roots are to be marked.
StartCollection(safe) ==
  /\ phase = "idle"
  /\ collectionAllowed
  /\ phase' = "mark" /\ atSafePoint' = safe
  /\ pending' = Roots
  /\ before' = GraphOf
  /\ UNCHANGED <<heap, size, capacity, nativeColor, queued, mutator, live, freeAddress, freeCount>>

collectionSafePoint == queued /\ StartCollection(TRUE)

performCollection == StartCollection(FALSE)

\* What markObject goes on with: nothing in a weak object is traversed.
Children(o) == IF heap[o].weak THEN {} ELSE {heap[o].slots[i] : i \in DOMAIN heap[o].slots}

\* Faulty variant: the color of the object is not looked at.
MarkAgain ==
  /\ phase = "mark" /\ pending # {}
  /\ LET v == CHOOSE w \in pending : TRUE
     IN IF v \in DOMAIN heap
        THEN heap' = [heap EXCEPT ![v].color = Black] /\ pending' = (pending \ {v}) \cup Children(v)
        ELSE pending' = pending \ {v} /\ UNCHANGED heap
  /\ UNCHANGED <<size, capacity, nativeColor, queued, mutator, phase, atSafePoint, live,
                 freeAddress, freeCount, before>>

markObject ==
  /\ phase = "mark" /\ pending # {}
  /\ LET v == CHOOSE w \in pending : TRUE
     IN IF v \in DOMAIN heap /\ ~Marked(v)
        THEN /\ heap' = [heap EXCEPT ![v].color = Black]
             /\ pending' = (pending \ {v}) \cup Children(v)
             /\ UNCHANGED nativeColor
        ELSE /\ pending' = pending \ {v}
             /\ nativeColor' = IF v = Nil THEN Black ELSE nativeColor
             /\ UNCHANGED heap
  /\ UNCHANGED <<size, capacity, queued, mutator, phase, atSafePoint, live, freeAddress, freeCount, before>>

StartCompaction ==
  /\ phase = "mark" /\ pending = {}
  /\ phase' = "forward"
  /\ live' = 0 /\ freeAddress' = 0 /\ freeCount' = 0
  /\ UNCHANGED <<heap, size, capacity, nativeColor, queued, mutator, atSafePoint, pending, before>>

\* First pass: the address each live object is going to have.
ComputeForwarding ==
  /\ phase = "forward" /\ live < size
  /\ LET o == ObjectAt(live)
     IN /\ live' = live + Extent(o)
        /\ IF Marked(o)
           THEN /\ heap' = [heap EXCEPT ![o].fwd = freeAddress + 1]
                /\ freeAddress' = freeAddress + Extent(o)
                /\ UNCHANGED freeCount
           ELSE /\ heap' = [heap EXCEPT ![o].fwd = 0]
                /\ freeCount' = freeCount + 1
                /\ UNCHANGED freeAddress
  /\ UNCHANGED <<size, capacity, nativeColor, queued, mutator, phase, atSafePoint, pending, before>>

\* The end of a collection, for internalPerformCollection and its caller.
EndCollection ==
  /\ phase' = "idle"
  /\ queued' = (queued /\ ~atSafePoint)
  /\ nativeColor' = White
  /\ atSafePoint' = FALSE /\ live' = 0 /\ freeAddress' = 0 /\ freeCount' = 0
  /\ before' = NoOop

\* Faulty variant: the colors stay when there is nothing to free.
AbortKeepsColors ==
  /\ phase = "forward" /\ live >= size /\ freeCount = 0
  /\ EndCollection
  /\ UNCHANGED <<heap, size, capacity, mutator, pending>>

\* Nothing is to be freed: forget the colors.
abortCompaction ==
  /\ phase = "forward" /\ live >= size /\ freeCount = 0
  /\ heap' = [o \in DOMAIN heap |-> [heap[o] EXCEPT !.color = White]]
  /\ EndCollection
  /\ UNCHANGED <<size, capacity, mutator, pending>>

\* The word before the header, which updatePointer takes for the forwarding pointer.
WordBefore(o) == IF isBig(heap[o].slotCount) THEN heap[o].slotCount ELSE heap[o].fwd

\* Faulty variant: a weak reference to a condemned object is left as it is.
KeepCondemned(v) == IF v \in DOMAIN heap /\ Marked(v) THEN WordBefore(v) ELSE v

updatePointer(v) ==
  CASE ~isPointer(v)       -> v
    [] v \in DOMAIN heap   -> IF Marked(v) THEN WordBefore(v) ELSE Nil
    [] OTHER               -> IF nativeColor = White THEN Nil ELSE v

updatePointersOf(o) ==
  [heap[o] EXCEPT !.slots = [i \in DOMAIN @ |-> updatePointer(@[i])]]

\* Second pass: the live objects, then the roots (each one once).
UpdatePointers ==
  /\ phase = "forward" /\ live >= size /\ freeCount # 0
  /\ phase' = "move"
  /\ heap' = [o \in DOMAIN heap |-> IF Marked(o) THEN updatePointersOf(o) ELSE heap[o]]
  /\ root' = [s \in DOMAIN root |-> updatePointer(root[s])]
  /\ live' = 0
  /\ UNCHANGED <<size, capacity, nativeColor, queued, disableCount, raw, rawId, atSafePoint,
                 pending, freeAddress, freeCount, before>>

\* Whether o has a word among the n words from address a on.
Overlaps(o, a, n) == Base(o) < a + n /\ a < End(o)

\* Faulty variants: every object is taken for a big one; the header is forgotten.
DestinationAsBig(o)    == heap[o].fwd - 2
DestinationOfHeader(o) == heap[o].fwd

getForwardingDestination(o) == heap[o].fwd - extraHeaderSize(heap[o].slotCount)

\* Third pass: a live object's memory is moved over whatever is at its
\* destination, and a condemned object is left behind as memory without meaning.
MoveObject ==
  /\ phase = "move" /\ live < size
  /\ LET o    == ObjectAt(live)
         dest == getForwardingDestination(o)
         new  == dest + extraHeaderSize(heap[o].slotCount)
         kept == {p \in DOMAIN heap \ {o} : ~Overlaps(p, dest, Extent(o))}
     IN /\ live' = live + Extent(o)
        /\ heap' = IF Marked(o)
                   THEN [p \in kept \cup {new} |->
                          IF p = new THEN [heap[o] EXCEPT !.color = White] ELSE heap[p]]
                   ELSE [p \in DOMAIN heap \ {o} |-> heap[p]]
  /\ UNCHANGED <<size, capacity, nativeColor, queued, mutator, phase, atSafePoint, pending,
                 freeAddress, freeCount, before>>

EndCompaction ==
  /\ phase = "move" /\ live >= size
  /\ size' = freeAddress
  /\ EndCollection
  /\ UNCHANGED <<heap, capacity, mutator, pending>>

----------------------------------------------------------------------------
CollectorStep ==
  \/ markObject \/ StartCompaction \/ ComputeForwarding \/ abortCompaction
  \/ UpdatePointers \/ MoveObject \/ EndCompaction

MutatorStep ==
  \/ \E s \in DOMAIN root, n \in SlotCounts, weak \in BOOLEAN : Allocate(s, n, weak)
  \/ \E s \in DOMAIN root, v \in Held :
        \/ SetRoot(s, v)
        \/ \E n \in SlotCounts : \E i \in 1..n : Store(s, i, v)
  \/ \E s, t \in DOMAIN root : \E n \in SlotCounts : \E i \in 1..n : Load(s, t, i)
  \/ \E s \in Refs \ DOMAIN root, v \in Held : registerOopReference(s, v)
  \/ \E s \in Refs \cap DOMAIN root : unregisterOopReference(s)
  \/ disable \/ enable
  \/ \E s \in DOMAIN root : HoldRaw(s)

Next == MutatorStep \/ collectionSafePoint \/ performCollection \/ CollectorStep

Spec == Init /\ [][Next]_vars

\* The collector is plain sequential code: once started it goes on.
FairSpec == Spec /\ WF_vars(CollectorStep)

----------------------------------------------------------------------------
(***************************************************************************)
(* Properties.                                                             *)
(***************************************************************************)

HeapType ==
  /\ heap = [o \in DOMAIN heap |-> heap[o]] /\ DOMAIN heap \subseteq Nat \ {0}
  /\ \A o \in DOMAIN heap :
        heap[o].slotCount \in SlotCounts /\ heap[o] \in Object(heap[o].slotCount)
  /\ size \in Nat /\ capacity \in 0..MaxCapacity

ProgramType ==
  /\ root \in [DOMAIN root -> Oop]
  /\ StaticRoots \subseteq DOMAIN root /\ DOMAIN root \subseteq StaticRoots \cup Refs
  /\ disableCount \in Nat
  /\ raw \in Nat \cup {NoOop} /\ rawId \in Ids \cup {NoOop}

CollectorType ==
  /\ nativeColor \in {White, Black} /\ queued \in BOOLEAN
  /\ phase \in Phases /\ atSafePoint \in BOOLEAN
  /\ pending \subseteq Oop
  /\ live \in Nat /\ freeAddress \in Nat /\ freeCount \in Nat

\* Every variable has its type (the fields and locals of GarbageCollector,
\* VMHeap and compact).
TypeOK == HeapType /\ ProgramType /\ CollectorType

\* The walks of compact() go from object to object and end exactly at the end
\* of the heap (its assertions live == endAddress), even while the third pass
\* overwrites the lower part of the heap: a move never damages an object that
\* has still to be moved.
WalkOnObjects ==
  phase \in {"forward", "move"} =>
    \/ live = size
    \/ live < size /\ ObjectsAt(live) # {}

\* When the marking is over, the live set holds what the roots name and what its
\* strong objects refer to: no object that can be reached is condemned.
NothingReachableCondemned ==
  phase = "forward" =>
    /\ \A s \in DOMAIN root : root[s] \in DOMAIN heap => Marked(root[s])
    /\ \A o \in DOMAIN heap : Marked(o) =>
          \A v \in Children(o) : v \in DOMAIN heap => Marked(v)

\* Between collections no root and no slot, weak or strong, points to memory
\* that is not an object.
NoDangling ==
  phase = "idle" =>
    /\ \A s \in DOMAIN root : InHeap(root[s]) => root[s] \in DOMAIN heap
    /\ \A o \in DOMAIN heap : \A i \in DOMAIN heap[o].slots :
          InHeap(heap[o].slots[i]) => heap[o].slots[i] \in DOMAIN heap

\* No color is left over from a collection, aborted or not, in the heap or in
\* the native objects: the next marking would take such an object for visited
\* and lose what it refers to.
AllWhiteBetweenCollections ==
  phase = "idle" => nativeColor = White /\ \A o \in DOMAIN heap : ~Marked(o)

\* "Use the forwarding pointer": when the second pass is over, what the roots
\* hold is the forwarding pointer of a live object.
RootsForwarded ==
  phase = "move" /\ live = 0 =>
    \A s \in DOMAIN root : InHeap(root[s]) =>
       \E o \in DOMAIN heap : Marked(o) /\ heap[o].fwd = root[s]

\* A plain Oop held inside of a WithoutGC scope keeps pointing to its object.
RawOopsStable ==
  raw # NoOop => raw \in DOMAIN heap /\ heap[raw].id = rawId

\* A collection that is started comes to its end.
CollectionEnds == phase # "idle" ~> phase = "idle"

\* The heap implements the object graph: collections keep what is reachable,
\* with its contents and identity, and nothing else; weak references to what
\* they free become nil.
Abstract  == INSTANCE ObjectGraph WITH graph <- IF phase = "idle" THEN GraphOf ELSE before
GraphSpec == Abstract!Spec
=============================================================================
