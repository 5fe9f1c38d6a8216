SPECIFICATION Spec
CONSTANTS
  InitialCapacity = 3
  MaxSize <- MCMaxSize
  Width = 5
  MaxRequest = 31
INVARIANTS
  Fits
  PoolBounded
PROPERTIES
  Answered
CHECK_DEADLOCK FALSE
