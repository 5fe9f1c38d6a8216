SPECIFICATION Spec
CONSTANTS
  Scenarios <- MCScenarios
  Repeats = 2
  MinRepeats = 2
  MaxAttempts = 2
  SLO <- MCSLO
  Policy <- MCPolicy
  Cpusets <- MCCpusets
  FirstMachine <- MCFirstMachine
  Machines <- MCMachines
  Measured <- MCMeasured
  MaxChanges = 2
INVARIANTS
  StopLosesNothing
  ReportWhole
  ReferenceSustained
  FromOneSource
PROPERTIES
  ExtendsOnlyForBoundary
CHECK_DEADLOCK FALSE
