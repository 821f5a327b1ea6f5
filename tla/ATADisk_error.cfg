SPECIFICATION Spec
CONSTANTS
  BLOCK_COUNT = 2
  HALF_BLOCK_SIZE = 2
  Words <- MCWords
  w1 = w1
  w2 = w2
  Garbage = Garbage
  MAX_COUNT = 2
  Lag = FALSE
  Failures = TRUE
INVARIANT ReadCompleted
