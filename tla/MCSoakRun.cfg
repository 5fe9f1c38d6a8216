SPECIFICATION Spec
CONSTANTS
  Target = 12
  RestartEvery = 3
  Streams = 1
  Policy <- MCPolicy
  BaseRss = 5
  Leaks = {0}
  MaxDeaths = 1
INVARIANTS
  PassMeansEveryCycle
  SampledToLastCycle
PROPERTIES
  Ends
CHECK_DEADLOCK FALSE
