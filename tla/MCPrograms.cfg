\* MiniShell has three children: wait may return for another one twice in a row.  The
\* lengths of the messages, of the buffers and of the array are those of the code.
CONSTANTS
  Word <- MCWord
  TooLong = {"toolongforaname"}
  MAX_ARGS = 6
  BuiltIn = {"cd"}
  ChangesDir = {"cd"}
  Quit = {"exit"}
  Dir = {"home", "work", "games", "bin"}
  Home = "home"
  Named <- MCNamed
  PATH <- MCPATH
  Entries <- MCEntries
  Line <- MCLine
  MaxChildren = 3
  Terminal = Terminal
  MessageLength = 21
  BUFFERL = 80
  Addresses = 2
  MAX_COUNT = 20
SPECIFICATION ProgramsSpec
INVARIANTS
  RunsAsTyped
  UnreapedBounded
  CleanedUpOnce
  SequencePrinted
PROPERTIES
  WaitReturns
  ImplementExchange
  ProgramsEnd
