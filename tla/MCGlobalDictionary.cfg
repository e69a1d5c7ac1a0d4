\* The embedding program sets globals at start-up, as lodtalk itself does. The
\* table grows at one and at two associations.
CONSTANTS
  Smalltalk       = Smalltalk
  Point           = Point
  Transcript      = Transcript
  Nil             = Nil
  Symbols         = {Smalltalk, Point, Transcript}
  Values          = {v1, v2}
  Hash            <- CollidingHash
  FirstCapacity   = 1
  LateGlobals     = FALSE
  MaxAssociations = 4
SPECIFICATION Spec
INVARIANTS TypeOK OneValuePerGlobal
PROPERTY AssociationsStay
