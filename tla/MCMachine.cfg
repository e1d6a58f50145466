SPECIFICATION MCSpec
CONSTANTS
  Size <- MCSize
  Robust = 2
  Counts = {0, 1, 2}
  Span = 16
  MaxCatch = 1
  Threads = {t1, t2}
  Tops = {0, 1}
  MaxLoops = 2
  LocalNames = {x}
  MaxLocals = 3
  MaxCode = 6
  LoopBits = 3
  Limits = {0, 3, 4}
  Nested = 3
INVARIANT InBounds
INVARIANT CatchHasRoom
INVARIANT AlarmsAreTrue
INVARIANT FramesSound
CHECK_DEADLOCK FALSE
