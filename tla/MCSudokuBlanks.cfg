\* As MCSudoku.cfg; the question is what boards get the result of a solution.
CONSTANTS
  BLOCK = 2
  NUM_ROW_THREADS = 3
  NUM_COL_THREADS = 2
  NUM_BLOCK_THREADS = 1
  Given <- MCGiven
  Boards <- MCBoards
  Solved <- MCSolved
  Count = 9
  MaxShuffles = 1
SPECIFICATION Spec
INVARIANT SolutionsOnly
