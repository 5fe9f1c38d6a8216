SPECIFICATION Spec
CONSTANTS
  HeaderSize = 5
  InitialCapacity = 6
  MaxSize = 63
  Width = 6
  MaxFrameSize = 2
  MaxBufs = 2
  Streams <- MCStreams
INVARIANTS
  DeliveredInOrder
  NoFalseTerminal
  RejectsOnlyBadStreams
  BuffersOwnedOnce
  NoOverrun
  AllocationBounded
PROPERTIES
  HoldsOnlyUnsent
  Completes
  Ends
  ImplementsWebStream
