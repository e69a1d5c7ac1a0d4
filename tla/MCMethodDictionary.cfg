\* The tables grow at two and at four entries.  A table that may not grow any
\* more, and holds nothing but what nil has counted, is the end of a behavior.
CONSTANTS
  object = object  point = point
  x = x  y = y  size = size
  Nil           = Nil
  Classes       = {object, point}
  Selectors     = {x, y, size}
  Methods       = {m1}
  Superclass    <- Hierarchy
  Hash          <- CollidingHash
  FirstCapacity = 2
  MaxCapacity   <- Capacities
SPECIFICATION Spec
INVARIANTS TypeOK NeverFull SendsAreUnderstood
PROPERTY MethodTableSpec
CHECK_DEADLOCK FALSE
