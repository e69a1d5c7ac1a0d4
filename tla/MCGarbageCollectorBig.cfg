\* Objects with a slot count word, which have two slots or more here.
CONSTANTS
  MaxCapacity  = 12
  PageSize     = 4
  BigSlotCount = 2
  SlotCounts   = {1, 2}
  Literals     <- NilOnly
  Ids          = {1, 2}
  StaticRoots  = {s1, s2}
  Refs         = {}
  MaxDisable   = 0
  NoOop        = NoOop
SPECIFICATION Spec
INVARIANT RootsForwarded
