SPECIFICATION Spec
CONSTANTS
  HeaderSize = 2
  MaxFrame = 3
  Messages = 2
  CancelAfters = {0, 1}
  Bodies <- MCBodies
INVARIANTS
  PassedMeansWhole
  CancelledOnOrder
  FailsForCause
  KeepsOnlyTail
PROPERTIES
  Ends
