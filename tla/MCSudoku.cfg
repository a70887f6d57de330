\* Numbers of threads that differ, so that the lines are dealt out unevenly.  Seven of
\* sixteen cells are blanked, at most three of each digit, so that cells are drawn in
\* vain and some digit is left twice; one shuffle takes place or none.
CONSTANTS
  BLOCK = 2
  NUM_ROW_THREADS = 3
  NUM_COL_THREADS = 2
  NUM_BLOCK_THREADS = 1
  Given <- MCGiven
  Boards <- MCBoards
  Solved <- MCSolved
  Count = 9
  MaxShuffles = 1
SPECIFICATION Spec
INVARIANTS
  ResultRight
  FreedUnused
  CellLeft
  PuzzleRight
PROPERTY Returns
