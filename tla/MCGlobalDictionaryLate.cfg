\* The embedding program sets globals at any time.
CONSTANTS
  Smalltalk       = Smalltalk
  Point           = Point
  Transcript      = Transcript
  Nil             = Nil
  Symbols         = {Smalltalk, Point, Transcript}
  Values          = {v1, v2}
  Hash            <- CollidingHash
  FirstCapacity   = 1
  LateGlobals     = TRUE
  MaxAssociations = 4
SPECIFICATION Spec
INVARIANT OneValuePerGlobal
