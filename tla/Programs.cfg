SPECIFICATION ProgramsSpec
CHECK_DEADLOCK FALSE
CONSTANTS
  NoPid = NoPid
  PIDs = {p1, p2, p3, p4}
  MAXJOBS = 3
  MaxJid = 4
  TEST_RANGE = 9
  Randoms <- MCRandoms
  ArgVals <- MCArgVals
  MaxTimeouts = 1
  SourceLines <- MCLines
  MaxLines = 3
  MEM_SIZE = 8192
  Sizes <- MCSizes
  Signals <- MCSignals
  Definitions <- MCDefinitions
  SYM_LIM = 2
  WORD = 4
  SECOND = 4
  MAX_ETIME = 5
  KBEST = 2
  MAXSAMPLES = 4
  TEN = 3
  Tolerance <- MCTolerance
  StartTimes = {0, 3, 14}
  Durations = {1, 4, 7}
  TickCosts = {0, 5}
  TraceFiles <- MCTraces
  NumTraces = 2
  HeapHi = 23
  Addresses = {0, 8, 16, 20, 24}
  SetBits = 1
  Assoc = 3
  BlockBits = 1
  WORDSIZE = 5
  Addrs = {1, 3, 4, 8, 44}
  Leftovers <- MCLeftovers
  MaxTimer = 5
INVARIANTS
  PidsUnique
  WrongExactlyWhenMissed
  FullMarks
  LoadedAsWritten
  Transposes
  FullPoints
  ReturnsWhatItSays
  MeasuresElapsedTime
  KeepsKBest
  VerdictExact
  HighWaterMark
  LinesDistinct
  CountsMatchContents
PROPERTIES
  OthersUndisturbed
  RightStaysRight
  ImplementsLRU
