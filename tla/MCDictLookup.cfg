SPECIFICATION Spec
CONSTANTS
  Threads = {t1, t2}
  None = None
  Wids = {w1, w2}
  MaxWordlists = 2
  Words = {"lookup"}
  MaxUses = 3
INVARIANT LockGivenBack
CHECK_DEADLOCK FALSE
