SPECIFICATION Spec
CONSTANTS
  Target = 8
  RestartEvery = 2
  Streams = 1
  Policy <- MCPolicy
  BaseRss = 5
  Leaks = {0, 1}
  MaxDeaths = 1
INVARIANT
  NoRestartMasked
CHECK_DEADLOCK FALSE
