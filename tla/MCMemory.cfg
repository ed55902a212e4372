CONSTANTS
  exprs = exprs
  ops = ops
  name = name
  word = word
  x1 = x1
  x2 = x2
  x3 = x3
  x4 = x4
  x5 = x5
  op1 = op1
  Replacement = joined
  ch = ch
  blank = blank
  None = None
  POOLS_FIRST_CHUNK_SIZE = 7
  POOLS_NUM_CHUNKS = 3
  Requests <- MCRequests
  POOLS_GRANULARITY = 2
  Arrays <- MCArrays
  Strings <- MCStrings
  Pointers <- MCPointers
  Chars <- MCChars
  MaxChars = 6
  Texts <- MCTexts
  Blanks <- MCBlanks
SPECIFICATION MCSpec
CHECK_DEADLOCK FALSE
INVARIANTS
  BlocksInChunks
  BlocksDisjoint
  TypeOK
  StringsTerminated
  CopiesInChunk
PROPERTIES
  ImplementsLists
