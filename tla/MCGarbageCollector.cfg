\* Up to three objects of two sizes, two root slots, a heap that grows once, nested
\* WithoutGC scopes and plain Oops; the collector is fair.
CONSTANTS
  MaxCapacity  = 6
  PageSize     = 3
  BigSlotCount = 255
  SlotCounts   = {0, 1}
  Literals     <- NilOrSmallInt
  Ids          = {1, 2, 3}
  StaticRoots  = {s1}
  Refs         = {r1}
  MaxDisable   = 2
  NoOop        = NoOop
SPECIFICATION FairSpec
INVARIANTS TypeOK WalkOnObjects NothingReachableCondemned NoDangling AllWhiteBetweenCollections RawOopsStable
PROPERTIES GraphSpec CollectionEnds
