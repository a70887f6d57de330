------------------------------ MODULE SudokuBoard ------------------------------
(***************************************************************************)
(* The boards of Assignment3/Sudoku/sudoku.c and the copies of their rows, *)
(* columns and blocks.  A board is a function of its cells; 0 is a blank.  *)
(***************************************************************************)
EXTENDS Integers

CONSTANT BLOCK                       \* the side of a block: 3 in the code

ASSUME BlockAssumption == BLOCK \in Nat \ {0}

SUDOKU_DEPTH == BLOCK * BLOCK
Index == 0 .. SUDOKU_DEPTH - 1
Cells == Index \X Index              \* row and column
Digit == 1 .. SUDOKU_DEPTH
Board == [Cells -> Digit \cup {0}]

copyOfRow(board, row) == [k \in Index |-> board[row, k]]

copyOfColumn(board, column) == [k \in Index |-> board[k, column]]

\* Fault: the horizontal position is not scaled to the block.
OverlappingBlock(board, number) ==
  LET vertical_pos   == (number \div BLOCK) * BLOCK
      horizontal_pos == number % BLOCK
  IN  [k \in Index |-> board[vertical_pos + (k \div BLOCK), horizontal_pos + (k % BLOCK)]]

copyOfBlock(board, number) ==
  LET vertical_pos   == (number \div BLOCK) * BLOCK
      horizontal_pos == (number % BLOCK) * BLOCK
  IN  [k \in Index |-> board[vertical_pos + (k \div BLOCK), horizontal_pos + (k % BLOCK)]]

\* Two cells that must not hold the same digit.
InOneBlock(c, d) == c[1] \div BLOCK = d[1] \div BLOCK /\ c[2] \div BLOCK = d[2] \div BLOCK
Related(c, d) == c # d /\ (c[1] = d[1] \/ c[2] = d[2] \/ InOneBlock(c, d))

\* The rule of the game, for complete boards and for puzzles.
Consistent(board) ==
  \A c, d \in Cells : Related(c, d) /\ board[c] # 0 => board[c] # board[d]
=============================================================================
