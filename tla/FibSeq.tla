--------------------------------- MODULE FibSeq ---------------------------------
(***************************************************************************)
(* Assignment2/ProgrammingProblem4_26/FibSeq.c: main has a thread compute  *)
(* the Fibonacci numbers up to its argument and prints them.               *)
(***************************************************************************)
EXTENDS Integers, Sequences

CONSTANT MAX_COUNT            \* the length of the array Fib: 20 in the code

ASSUME MaxCountAssumption == MAX_COUNT \in Nat \ {0, 1}

VARIABLES fibMain, fibThread, \* where main and the thread stand
          Param,
          Fib,                \* the array, and one element beyond it
          i,                  \* the thread's
          printed

fibVars == << fibMain, fibThread, Param, Fib, i, printed >>

FibInit ==
  /\ fibMain = "checking"
  /\ fibThread = "none"
  /\ Param = 0
  /\ Fib = [k \in 0 .. MAX_COUNT |-> 0]
  /\ i = 2
  /\ printed = << >>

\* The argument is any number; -1 stands for a missing one too.
ReadParam ==
  /\ fibMain = "checking"
  /\ \E p \in -1 .. MAX_COUNT + 1 :
       /\ Param' = p
       /\ fibMain' = (IF p < 0 \/ p > MAX_COUNT THEN "refused" ELSE "creating")
  /\ UNCHANGED << fibThread, Fib, i, printed >>

\* CreateThread; if it fails nothing is printed.
CreateThread ==
  /\ fibMain = "creating"
  /\ \/ fibMain' = "waiting" /\ fibThread' = "filling"
     \/ fibMain' = "done" /\ UNCHANGED fibThread
  /\ UNCHANGED << Param, Fib, i, printed >>

\* GetFibSeq.
FirstTwo ==
  /\ fibThread = "filling"
  /\ Fib' = [Fib EXCEPT ![0] = 0, ![1] = 1]
  /\ fibThread' = "adding"
  /\ UNCHANGED << fibMain, Param, i, printed >>

Add ==
  /\ fibThread = "adding"
  /\ IF i <= MAX_COUNT /\ i <= Param
     THEN /\ Fib' = [Fib EXCEPT ![i] = Fib[i - 1] + Fib[i - 2]]
          /\ i' = i + 1
          /\ UNCHANGED fibThread
     ELSE fibThread' = "ended" /\ UNCHANGED << Fib, i >>
  /\ UNCHANGED << fibMain, Param, printed >>

\* What WaitForSingleObject waits for.  Fault: it does not wait.
NotWaiting == TRUE
Signalled == fibThread = "ended"

WaitForSingleObject ==
  /\ fibMain = "waiting"
  /\ Signalled
  /\ fibMain' = "printing"
  /\ UNCHANGED << fibThread, Param, Fib, i, printed >>

Printf ==
  /\ fibMain = "printing"
  /\ IF Len(printed) <= Param
     THEN printed' = Append(printed, Fib[Len(printed)]) /\ UNCHANGED fibMain
     ELSE fibMain' = "done" /\ UNCHANGED printed
  /\ UNCHANGED << fibThread, Param, Fib, i >>

FibStep == ReadParam \/ CreateThread \/ FirstTwo \/ Add \/ WaitForSingleObject \/ Printf

FibOver == fibMain \in {"done", "refused"} /\ fibThread \in {"none", "ended"}

-----------------------------------------------------------------------------
(***************************************************************************)
(* Properties                                                              *)
(***************************************************************************)

\* What is printed are Fibonacci numbers, as many as asked for: main does not print
\* what the thread has not stored yet (FibSeq.c:58), and the last one is stored too.
SequencePrinted ==
  /\ \A k \in 1 .. Len(printed) :
       printed[k] = IF k <= 2 THEN k - 1 ELSE printed[k - 1] + printed[k - 2]
  /\ fibMain = "done" /\ fibThread # "none" => Len(printed) = Param + 1

\* The message to the user (FibSeq.c:42) says that the argument is less than
\* MAX_COUNT, so no element beyond the array is needed.
ArrayKept == Fib[MAX_COUNT] = 0
=============================================================================
