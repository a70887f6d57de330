\* Every file of up to four of the ten lines, over nine time units.
CONSTANTS
  Capacity <- MCCapacity
  RTMemory = 1
  MaxProcesses = 4
  Job <- MCJob
  MaxTime = 9
SPECIFICATION Spec
CHECK_DEADLOCK FALSE
INVARIANTS
  TypeOK
  PlacedOnce
  WaitingInOrder
  WaitingHoldsNothing
  CellsRecorded
  MemoryPartition
  ExclusiveWhenSingleKind
  NoBadDereference
  RunningHasBudget
PROPERTIES
  ImplementsLifecycle
  RealTimeRunsToCompletion
  RealTimeFirst
