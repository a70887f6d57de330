CONSTANTS
  Capacity <- MCCapacity
  RTMemory = 1
  MaxProcesses = 4
  Job <- MCJob
  MaxTime = 9
SPECIFICATION Spec
CHECK_DEADLOCK FALSE
INVARIANT ZeroMeansUnused
