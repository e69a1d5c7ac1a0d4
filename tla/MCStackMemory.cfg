\* Two pages that hold two to four frames of two sizes: the sixth activation takes
\* a page from divorced frames, and the pages are given back on the way down.
CONSTANTS
  StackPageCount = 2
  PageWords      = 6
  OverflowWords  = 2
  FrameWords     = {1, 2}
  TerminalWords  = 2
  Acts           = {a1, a2, a3, a4, a5, a6}
  Terminal       = Terminal
  Pcs            = {1, 2}
  Values         = {0}
  Nil            = Nil
  NoPage         = NoPage
SPECIFICATION Spec
INVARIANTS MarriedToTheirFrames TypeOK PoolIntact NoOverrun
PROPERTY CallStackSpec
CHECK_DEADLOCK FALSE
