------------------------------- MODULE SudokuTest -------------------------------
(***************************************************************************)
(* The validity test of Assignment3/Sudoku/sudoku.c: testSudokuString      *)
(* hands copies of the rows, columns and blocks out to threads in turn;    *)
(* testNumberArrays starts the threads, joins them and collects what they  *)
(* found.  A string of the wrong length is turned away before any of this. *)
(* The program that calls the test is in module Sudoku.                    *)
(***************************************************************************)
EXTENDS SudokuBoard

CONSTANTS NUM_ROW_THREADS, NUM_COL_THREADS, NUM_BLOCK_THREADS

ASSUME ThreadsAssumption == {NUM_ROW_THREADS, NUM_COL_THREADS, NUM_BLOCK_THREADS} \subseteq Nat \ {0}

Kind == {"row", "column", "block"}
NumThreads == [row |-> NUM_ROW_THREADS, column |-> NUM_COL_THREADS, block |-> NUM_BLOCK_THREADS]
max_threads == CHOOSE n \in {NumThreads[k] : k \in Kind} : \A k \in Kind : NumThreads[k] <= n
Thread == {t \in Kind \X (0 .. max_threads - 1) : t[2] < NumThreads[t[1]]}

VARIABLES main,       \* which of its loops testNumberArrays is in, or "idle" or "done"
          i, kind,    \* the turn of that loop, and the part of its body that is next
          pc,         \* where each thread stands: "new", "run" or "ended"
          line,       \* the row, column or block a thread looks at next
          board,
          isValid, isTested,   \* the members of each thread's NumberArray
          result      \* -1 before there is one, then 0 or 1

testVars == << main, i, kind, pc, line, board, isValid, isTested, result >>

TestInit ==
  /\ main = "idle"
  /\ i = 0
  /\ kind = "row"
  /\ pc = [t \in Thread |-> "new"]
  /\ line = [t \in Thread |-> t[2]]
  /\ board = [c \in Cells |-> 0]
  /\ isValid = [t \in Thread |-> TRUE]
  /\ isTested = [t \in Thread |-> FALSE]
  /\ result = -1

\* initializeArrays, and the handing out: line n goes to thread n % NumThreads of
\* its kind, so a thread's first is its own number.
NewArrays ==
  /\ i' = 0
  /\ kind' = "row"
  /\ pc' = [t \in Thread |-> "new"]
  /\ line' = [t \in Thread |-> t[2]]
  /\ isValid' = [t \in Thread |-> TRUE]
  /\ isTested' = [t \in Thread |-> FALSE]

\* A call, with a string that decodeSudokuString makes the board of, and one with a
\* string that is too short.
testSudokuString(sudokuarray) ==
  /\ board' = sudokuarray
  /\ NewArrays
  /\ main' = "create"
  /\ result' = -1

WrongLength ==
  /\ main' = "done"
  /\ result' = -1
  /\ NewArrays
  /\ board' = [c \in Cells |-> 0]

-----------------------------------------------------------------------------
(***************************************************************************)
(* testNumberArrays                                                        *)
(***************************************************************************)

\* The three loops have one shape: for each i, the row, the column and the block
\* thread of that number, as far as there is one.
Current == << kind, i >>
Exists == i < NumThreads[kind]

Advance ==
  IF kind = "block" THEN kind' = "row" /\ i' = i + 1
                    ELSE kind' = (IF kind = "row" THEN "column" ELSE "block") /\ i' = i

Skip ==
  /\ main \notin {"idle", "done"}
  /\ i < max_threads
  /\ ~ Exists
  /\ Advance
  /\ UNCHANGED << main, pc, line, board, isValid, isTested, result >>

Create ==
  /\ main = "create"
  /\ i < max_threads
  /\ Exists
  /\ pc' = [pc EXCEPT ![Current] = "run"]
  /\ Advance
  /\ UNCHANGED << main, line, board, isValid, isTested, result >>

\* What pthread_join waits for.  Fault: it does not wait.
NoWait(t) == TRUE
Ended(t) == pc[t] = "ended"

Join ==
  /\ main = "join"
  /\ i < max_threads
  /\ Exists
  /\ Ended(Current)
  /\ Advance
  /\ UNCHANGED << main, pc, line, board, isValid, isTested, result >>

\* A finding is collected once the array is tested; the first duplicate decides.
Collect ==
  /\ main = "collect"
  /\ i < max_threads
  /\ Exists
  /\ isTested[Current]
  /\ IF isValid[Current]
     THEN Advance /\ UNCHANGED << main, result >>
     ELSE result' = 0 /\ main' = "done" /\ UNCHANGED << i, kind >>
  /\ UNCHANGED << pc, line, board, isValid, isTested >>

EndLoop ==
  /\ main \notin {"idle", "done"}
  /\ i = max_threads
  /\ main' = (CASE main = "create" -> "join" [] main = "join" -> "collect" [] OTHER -> "done")
  /\ i' = (IF main = "collect" THEN i ELSE 0)
  /\ result' = (IF main = "collect" THEN 1 ELSE result)
  /\ UNCHANGED << kind, pc, line, board, isValid, isTested >>

testNumberArrays == Skip \/ Create \/ Join \/ Collect \/ EndLoop

-----------------------------------------------------------------------------
(***************************************************************************)
(* isValid, the body of a thread                                           *)
(***************************************************************************)

\* The array of a thread that it looks at next.
Elements(t) ==
  CASE t[1] = "row"    -> copyOfRow(board, line[t])
    [] t[1] = "column" -> copyOfColumn(board, line[t])
    [] t[1] = "block"  -> copyOfBlock(board, line[t])

\* A digit seen before; blanks are passed over.
Duplicate(array) == \E k, m \in Index : k < m /\ array[m] # 0 /\ array[k] = array[m]

\* One array is tested; the first one with a duplicate ends the loop.
TestArray(t) ==
  /\ pc[t] = "run"
  /\ isValid[t]
  /\ line[t] < SUDOKU_DEPTH
  /\ isValid' = [isValid EXCEPT ![t] = ~ Duplicate(Elements(t))]
  /\ line' = [line EXCEPT ![t] = @ + NumThreads[t[1]]]
  /\ UNCHANGED << main, i, kind, pc, board, isTested, result >>

\* Fault: an array that is not valid is not marked as tested.
TestedIfValid(t) ==
  /\ pc[t] = "run"
  /\ ~ isValid[t] \/ line[t] >= SUDOKU_DEPTH
  /\ isTested' = [isTested EXCEPT ![t] = isValid[t]]
  /\ pc' = [pc EXCEPT ![t] = "ended"]
  /\ UNCHANGED << main, i, kind, line, board, isValid, result >>
Tested(t) ==
  /\ pc[t] = "run"
  /\ ~ isValid[t] \/ line[t] >= SUDOKU_DEPTH
  /\ isTested' = [isTested EXCEPT ![t] = TRUE]
  /\ pc' = [pc EXCEPT ![t] = "ended"]
  /\ UNCHANGED << main, i, kind, line, board, isValid, result >>

thread(t) == TestArray(t) \/ Tested(t)

TestStep == testNumberArrays \/ \E t \in Thread : thread(t)

\* Threads that can run do.
TestFairness == WF_testVars(testNumberArrays) /\ \A t \in Thread : WF_testVars(thread(t))

-----------------------------------------------------------------------------
(***************************************************************************)
(* Properties                                                              *)
(***************************************************************************)

\* The result is 1 exactly for the boards that do not contradict the rule of the game,
\* blanks passed over: on a complete board that is what sudoku.c:45 promises, and on a
\* puzzle what the generator asks (sudoku.c:155).  Every line is handed to some thread,
\* whatever the numbers of threads are (sudoku.c:73-89), and no finding is lost,
\* whichever thread has it and whenever it ends (sudoku.c:249-284).
ResultRight == main = "done" /\ result # -1 => result = (IF Consistent(board) THEN 1 ELSE 0)

\* The NumberArrays are on the caller's stack and it frees their elements
\* (sudoku.c:96) once there is a result, also when that was found early
\* (sudoku.c:258-261): no thread still reads them then.
FreedUnused == main = "done" => \A t \in Thread : pc[t] # "run"

\* The busy waiting for isTested (sudoku.c:256) comes to an end in every call.
Returns == main = "create" ~> main = "done"
=============================================================================
