-------------------------------- MODULE MCSudoku --------------------------------
(***************************************************************************)
(* Boards of four by four cells for TLC, given by their rows.              *)
(***************************************************************************)
EXTENDS Sudoku

Rows(a, b, c, d) == [cell \in Cells |-> << a, b, c, d >>[cell[1] + 1][cell[2] + 1]]

MCSolved == Rows(<< 1, 2, 3, 4 >>, << 3, 4, 1, 2 >>, << 2, 1, 4, 3 >>, << 4, 3, 2, 1 >>)

\* The strings of main: correct, and with a blank and some digits changed.
MCGiven == << MCSolved, [MCSolved EXCEPT ![<< 0, 1 >>] = 0, ![<< 0, 2 >>] = 4, ![<< 3, 3 >>] = 3] >>

\* Puzzles; and boards that break the rule in a row only, in a column only, in
\* blocks only, and nearly everywhere.
MCBoards ==
  { [MCSolved EXCEPT ![<< 0, 0 >>] = 0, ![<< 1, 2 >>] = 0, ![<< 3, 3 >>] = 0],
    [cell \in Cells |-> 0],
    [cell \in Cells |-> IF cell \in {<< 3, 0 >>, << 3, 2 >>} THEN 4 ELSE 0],
    [cell \in Cells |-> IF cell \in {<< 0, 1 >>, << 3, 1 >>} THEN 2 ELSE 0],
    [cell \in Cells |-> IF cell \in {<< 2, 2 >>, << 3, 3 >>} THEN 1 ELSE 0],
    Rows(<< 1, 2, 3, 4 >>, << 2, 3, 4, 1 >>, << 3, 4, 1, 2 >>, << 4, 1, 2, 3 >>),
    [cell \in Cells |-> 3] }
=============================================================================
