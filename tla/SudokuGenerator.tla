---------------------------- MODULE SudokuGenerator ----------------------------
(***************************************************************************)
(* generateSudokuPuzzle of Assignment3/Sudoku/sudoku.c: a solved board is  *)
(* shuffled by swaps of rows and rotations, then cells at random places    *)
(* are blanked until the wanted number of digits is left, and the puzzle   *)
(* is tested, in module Sudoku.  rand() is any number.                     *)
(***************************************************************************)
EXTENDS SudokuBoard, FiniteSets

CONSTANTS Solved,     \* the solved board of the code
          Count,      \* the digits that are left: BEGINNER to VERY_HARD
          MaxShuffles \* a bound on the shuffles, below that of the code

ASSUME SolvedAssumption ==
  /\ Solved \in [Cells -> Digit]
  /\ \A c, d \in Cells : Related(c, d) => Solved[c] # Solved[d]
ASSUME CountAssumption == Count \in SUDOKU_DEPTH .. SUDOKU_DEPTH * SUDOKU_DEPTH
ASSUME MaxShufflesAssumption == MaxShuffles \in 0 .. Count - 1

VARIABLES phase,      \* which of its loops the function is in, or "idle" or "done"
          sudokuarray,
          turn,       \* the counter of that loop
          usedArray,  \* the cells that were drawn
          countArray  \* how often each digit was blanked

generatorVars == << phase, sudokuarray, turn, usedArray, countArray >>

GeneratorInit ==
  /\ phase = "idle"
  /\ sudokuarray = Solved
  /\ turn = 0
  /\ usedArray = {}
  /\ countArray = [d \in Digit |-> 0]

-----------------------------------------------------------------------------

\* swapRows: in each band of blocks one row is swapped with one, the same maybe.
\* Fault: rows are swapped over the whole board.
BandOf(row) == row \div BLOCK
Swap(row, one, other) == IF row = one THEN other ELSE IF row = other THEN one ELSE row
SwapsAnywhere == {[row \in Index |-> Swap(row, one, other)] : one, other \in Index}
Swaps ==
  LET bands == 0 .. BLOCK - 1
  IN  {[row \in Index |-> Swap(row, BandOf(row) * BLOCK + one[BandOf(row)],
                                    BandOf(row) * BLOCK + other[BandOf(row)])] :
         one, other \in [bands -> bands]}

swapRows(old, swap) == [c \in Cells |-> old[swap[c[1]], c[2]]]

\* A quarter turn.
rotateArray(old) == [c \in Cells |-> old[SUDOKU_DEPTH - 1 - c[2], c[1]]]

\* A turn of the first loop, whose bound is drawn anew for every test and is less
\* than Count.
Shuffle ==
  /\ phase = "shuffle"
  /\ turn < MaxShuffles
  /\ \E swap \in Swaps : sudokuarray' = rotateArray(swapRows(sudokuarray, swap))
  /\ turn' = turn + 1
  /\ UNCHANGED << phase, usedArray, countArray >>

EndShuffle ==
  /\ phase = "shuffle"
  /\ phase' = "blank"
  /\ turn' = 0
  /\ UNCHANGED << sudokuarray, usedArray, countArray >>

\* A digit that may not be blanked any more.  Fault: the side of a block is taken
\* for that of the board.
TakenTooSoon(digit) == countArray[digit] >= BLOCK - 1
TakenOften(digit) == countArray[digit] >= SUDOKU_DEPTH - 1

\* The second loop has this many turns, not counting those that it repeats.
Blanks == SUDOKU_DEPTH * SUDOKU_DEPTH - Count

\* A turn that blanks the cell that was drawn, and one that only marks it as
\* drawn.  Both draw until they meet a cell that was not drawn before.
Blank ==
  /\ phase = "blank"
  /\ turn < Blanks
  /\ \E c \in Cells \ usedArray :
       /\ ~ TakenOften(sudokuarray[c])
       /\ usedArray' = usedArray \cup {c}
       /\ countArray' = [countArray EXCEPT ![sudokuarray[c]] = @ + 1]
       /\ sudokuarray' = [sudokuarray EXCEPT ![c] = 0]
  /\ turn' = turn + 1
  /\ UNCHANGED phase

Keep ==
  /\ phase = "blank"
  /\ turn < Blanks
  /\ \E c \in Cells \ usedArray : TakenOften(sudokuarray[c]) /\ usedArray' = usedArray \cup {c}
  /\ UNCHANGED << phase, sudokuarray, turn, countArray >>

EndBlank ==
  /\ phase = "blank"
  /\ turn = Blanks
  /\ phase' = "test"
  /\ UNCHANGED << sudokuarray, turn, usedArray, countArray >>

GeneratorStep == Shuffle \/ EndShuffle \/ Blank \/ Keep \/ EndBlank

-----------------------------------------------------------------------------
(***************************************************************************)
(* Properties                                                              *)
(***************************************************************************)

\* The drawing of a cell that was not drawn before (sudoku.c:129-132) can end, and
\* so can the loop around it: as long as digits are to be blanked there is a cell
\* not drawn yet whose digit may still be taken away.
CellLeft ==
  phase = "blank" /\ turn < Blanks => \E c \in Cells \ usedArray : ~ TakenOften(sudokuarray[c])
=============================================================================
