SPECIFICATION Spec
CONSTANTS
  Scenarios <- MCScenarios
  Repeats = 2
  MinRepeats = 2
  MaxAttempts = 2
  SLO <- MCSLO
  Policy <- MCPolicy
  Cpusets <- MCCpusets
  FirstMachine <- MCFirstMachine
  Machines <- MCMachines
  Measured <- MCMeasured
  MaxChanges = 1
INVARIANT
  OverloadIsAPoint
CHECK_DEADLOCK FALSE
