SPECIFICATION MCSpec
CONSTANTS
  Names = {n1, n2}
  Anon = Anon
  MaxHere = 5
  MaxLists = 1
  MaxOrder = 1
  MaxOpen = 1
  Liberties = {"nested"}
INVARIANT NoSelfLink
CHECK_DEADLOCK FALSE
