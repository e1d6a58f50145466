SPECIFICATION FairSpec
CONSTANTS
  MaxText = 2
  MaxFrames = 3
  MaxReturn = 3
  Codes <- Negative
  Liberties = {}
INVARIANT TypeOK
INVARIANT PutBack
INVARIANT DefinitionWhileCompiling
PROPERTY Resumes
PROPERTY ThrowReachesCatch
PROPERTY ThrowsLand
CHECK_DEADLOCK FALSE
