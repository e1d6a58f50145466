SPECIFICATION MCSpec
CONSTANTS
  Threads = {t1, t2}
  MaxWords = 6
  MaxRun = 5
  Cell = 2
  Size = 6
  HeaderSize = 4
  NameLength = 2
  NameSpan = 4
  WordNames <- MCNames
  Lengths = {0, 1, 3}
  Allots <- MCAllots
  Bits = 4
  MaxDepth = 4
  Bases = {2, 3, 10, 15}
  PrefixWords <- MCPrefixWords
  Tokens <- MCTokens
  LengthSpan = 12
  FewDigits = 3
  OffsetBits = 2
  LengthBits = 1
  NextBits = 1
  ByteSpan = 5
  Texts <- MCTexts
  LineBuffer = 5
  Files <- MCFiles
  DebugCode <- MCCode
  DebugWords <- MCWords
  CharsOf = 4
  MaxReturns = 4
INVARIANT TargetsExact
INVARIANT JumpsKept
INVARIANT NoReentry
INVARIANT DictionarySound
PROPERTY ErrorsRecover
INVARIANT ArithmeticExact
INVARIANT NumeralsExact
INVARIANT RoundTrip
INVARIANT FilesRead
INVARIANT DebuggerSound
CHECK_DEADLOCK FALSE
