\* Four philosophers, of whom two can eat at once; one meal; sleeps of up to two units.
CONSTANTS
  NPHILOSOPHERS = 4
  NMEALS = 1
  ACTIME_LOWER = 0
  ACTIME_UPPER = 2
SPECIFICATION AnimatedSpec
INVARIANTS
  DisplayFaithful
  DoneMeansDone
PROPERTIES
  ImplementsBasic
  BothEnd
