SPECIFICATION FairSpec
CONSTANTS
  Threads = {t1, t2}
  None = None
  Wids = {w1, w2}
  MaxWordlists = 2
  Words = {"lookup", "lookup_local", "get_order", "set_order", "search_push", "search_pop", "create", "comma", "traverse", "throw"}
  MaxUses = 2
INVARIANT Exclusive
INVARIANT Balanced
INVARIANT NoCellLost
PROPERTY WordsReturn
CHECK_DEADLOCK FALSE
