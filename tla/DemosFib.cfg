CONSTANTS
  MessageLength = 21
  BUFFERL = 80
  Addresses = 2
  MAX_COUNT = 20
SPECIFICATION DemosSpec
INVARIANT ArrayKept
