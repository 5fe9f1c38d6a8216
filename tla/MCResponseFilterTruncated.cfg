SPECIFICATION Spec
CONSTANTS
  Limits = {1, 2}
  StatusSize = 2
  MaxRewrites = 2
  Requests <- MCRequests
  Responses <- MCResponses
INVARIANTS
  IncompleteNeverSucceeds
