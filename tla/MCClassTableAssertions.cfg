\* The same threads: what write_lock asserts.
CONSTANTS
  Threads        = {t1, t2, t3}
  c1             = c1
  c2             = c2
  Classes        = {c1, c2}
  SpecialClasses <- OneSpecialClass
  OopsPerPage    = 2
  MaxSize        = 4
  Nil            = Nil
SPECIFICATION Spec
INVARIANT AssertionsHold
CHECK_DEADLOCK FALSE
