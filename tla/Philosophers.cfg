\* The five philosophers and two meals that philos.c defines.
CONSTANTS
  NPHILOSOPHERS = 5
  NMEALS = 2
SPECIFICATION Spec
INVARIANTS
  TypeOK
  ForksAccounted
  NoDeadlock
  DestroyedUnused
PROPERTY ImplementsDining
