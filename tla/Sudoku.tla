--------------------------------- MODULE Sudoku ---------------------------------
(***************************************************************************)
(* The program of Assignment3/Sudoku/sudoku.c: main tests two strings of   *)
(* its own and one that is typed in, then generates a puzzle, which the    *)
(* generator has tested in its turn.                                       *)
(***************************************************************************)
EXTENDS SudokuTest, SudokuGenerator, Sequences

CONSTANTS Given,      \* the boards of the strings in main, in their order
          Boards      \* the boards that may be typed in

ASSUME BoardsAssumption == Given \in Seq(Board) /\ Boards \subseteq Board

VARIABLE tests        \* how many strings main has handed to the test

vars == << testVars, generatorVars, tests >>

Init == TestInit /\ GeneratorInit /\ tests = 0

Idle == main \in {"idle", "done"} /\ phase = "idle"

TestGiven ==
  /\ Idle
  /\ tests < Len(Given)
  /\ testSudokuString(Given[tests + 1])
  /\ tests' = tests + 1
  /\ UNCHANGED generatorVars

\* What is typed in may be shorter than a board; it cannot be longer.
TestInput ==
  /\ Idle
  /\ tests = Len(Given)
  /\ WrongLength \/ \E b \in Boards : testSudokuString(b)
  /\ tests' = tests + 1
  /\ UNCHANGED generatorVars

\* generateSudokuPuzzle is called; the locals of the test are gone.
Generate ==
  /\ Idle
  /\ tests = Len(Given) + 1
  /\ phase' = "shuffle"
  /\ WrongLength
  /\ UNCHANGED << sudokuarray, turn, usedArray, countArray, tests >>

\* The puzzle is tested as a string: what a call returns is what ResultRight says.
\* The arrays of the generator end with it.
Verdict(b) == IF Consistent(b) THEN 1 ELSE 0

TestPuzzle ==
  /\ phase = "test"
  /\ phase' = "done"
  /\ board' = sudokuarray
  /\ result' = Verdict(sudokuarray)
  /\ UNCHANGED << main, i, kind, pc, line, isValid, isTested >>
  /\ UNCHANGED << sudokuarray, turn, usedArray, countArray, tests >>

Over == phase = "done" /\ UNCHANGED vars

Next ==
  \/ TestStep /\ UNCHANGED << generatorVars, tests >>
  \/ TestGiven
  \/ TestInput
  \/ Generate
  \/ GeneratorStep /\ UNCHANGED << testVars, tests >>
  \/ TestPuzzle
  \/ Over

Spec == Init /\ [][Next]_vars /\ TestFairness

-----------------------------------------------------------------------------
(***************************************************************************)
(* Properties                                                              *)
(***************************************************************************)

\* What is printed is a puzzle: it has the wanted number of digits, each digit
\* of the game among them (sudoku.c:136), and the test (sudoku.c:155) finds it
\* correct after any shuffle.
PuzzleRight ==
  phase = "done" =>
    /\ Cardinality({c \in Cells : sudokuarray[c] # 0}) = Count
    /\ \A d \in Digit : \E c \in Cells : sudokuarray[c] = d
    /\ result = 1

\* sudoku.c:45: "If the sudokustring is a valid sudoku solution, returns 1. Else,
\* returns 0."  So no string of main or typed in as a solution (sudoku.c:17-20) gets a
\* 1 if its board has a blank; the generator's puzzle, which has some, is another matter.
SolutionsOnly ==
  phase = "idle" /\ main = "done" /\ result = 1 => \A c \in Cells : board[c] # 0
=============================================================================
