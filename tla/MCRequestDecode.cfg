SPECIFICATION Spec
CONSTANTS
  Q = 2
  HeaderSize = 1
  MaxFrameSize = 3
  MaxSize = 15
  MaxOffset = 3
  MaxBufs = 2
  Texts <- MCTexts
INVARIANTS
  ForwardsMeaning
  VerdictFromText
  BodyEndsOnce
  NeverMissized
PROPERTIES
  Settles
