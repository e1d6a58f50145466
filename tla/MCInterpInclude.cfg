SPECIFICATION Spec
CONSTANTS
  MaxText = 2
  MaxFrames = 3
  MaxReturn = 3
  Codes <- Positive
  Liberties = {}
PROPERTY ThrowReachesCatch
CHECK_DEADLOCK FALSE
