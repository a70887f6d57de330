\* As MCMiniShell.cfg; the question is what still runs at the prompt.
CONSTANTS
  Word <- MCWord
  TooLong = {"toolongforaname"}
  MAX_ARGS = 6
  BuiltIn = {"cd"}
  ChangesDir = {"cd"}
  Quit = {"exit"}
  Dir = {"home", "work", "games", "bin"}
  Home = "home"
  Named <- MCNamed
  PATH <- MCPATH
  Entries <- MCEntries
  Line <- MCLine
  MaxChildren = 3
  Terminal = Terminal
SPECIFICATION Spec
INVARIANT ForegroundOver
