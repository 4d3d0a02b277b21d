SPECIFICATION Spec
CONSTANTS
  MAX_HEAP = 104
  CLASS_SIZE = 6
  Ids = {1, 2, 3}
  Sizes = {4, 12, 24}
INVARIANTS
  HeapWellFormed
  FreeListsExact
  BlocksAccounted
  ContentsIntact
  TraceValid
PROPERTY
  FailureHarmless
