SPECIFICATION MCSpec
CONSTANTS
  Names = {n1, n2}
  Anon = Anon
  MaxHere = 4
  MaxLists = 2
  MaxOrder = 2
  MaxOpen = 1
  Liberties = {}
INVARIANT ChainExact
INVARIANT NoDangling
PROPERTY MarkerRestores
PROPERTY WordsEnd
PROPERTY Implements
CHECK_DEADLOCK FALSE
