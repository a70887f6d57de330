------------------------------ MODULE SudokuProofs ------------------------------
(***************************************************************************)
(* Proofs about Sudoku, for every size of the board, any numbers of        *)
(* threads, any strings, and every number of digits that may be left.      *)
(***************************************************************************)
EXTENDS Sudoku, FunctionTheorems, FiniteSetTheorems, WellFoundedInduction, TLAPS

D == SUDOKU_DEPTH

-----------------------------------------------------------------------------
(***************************************************************************)
(* Division and remainder                                                  *)
(***************************************************************************)
LEMMA Depth == BLOCK \in Nat \ {0} /\ D = BLOCK * BLOCK /\ D \in Nat \ {0}
BY BlockAssumption DEF D, SUDOKU_DEPTH

\* An index is a band and a place in it.
LEMMA Split ==
  ASSUME NEW n \in Index
  PROVE  /\ n \div BLOCK \in 0 .. BLOCK - 1
         /\ n % BLOCK \in 0 .. BLOCK - 1
         /\ n = (n \div BLOCK) * BLOCK + (n % BLOCK)
<1> DEFINE B == BLOCK
<1>1. B \in Nat \ {0} /\ n \in 0 .. B * B - 1
  BY Depth DEF Index, D
<1> HIDE DEF B
<1>2. n = (n \div B) * B + (n % B) /\ n % B \in 0 .. B - 1 /\ n \div B \in 0 .. B - 1
  BY <1>1
<1> QED
  BY <1>2 DEF B

\* And the other way round.
LEMMA Join2 ==
  ASSUME NEW q \in 0 .. BLOCK - 1, NEW r \in 0 .. BLOCK - 1
  PROVE  /\ q * BLOCK + r \in Index
         /\ (q * BLOCK + r) \div BLOCK = q
         /\ (q * BLOCK + r) % BLOCK = r
<1> DEFINE B == BLOCK
<1>1. B \in Nat \ {0} /\ Index = 0 .. B * B - 1 /\ q \in 0 .. B - 1 /\ r \in 0 .. B - 1
  BY Depth DEF Index, D
<1> HIDE DEF B
<1>2. q * B + r \in 0 .. B * B - 1 /\ (q * B + r) \div B = q /\ (q * B + r) % B = r
  BY <1>1
<1> QED
  BY <1>1, <1>2 DEF B

\* Indices in the same band at the same place are the same.
LEMMA SplitUnique ==
  ASSUME NEW n \in Index, NEW m \in Index, n \div BLOCK = m \div BLOCK, n % BLOCK = m % BLOCK
  PROVE  n = m
<1>1. n = (n \div BLOCK) * BLOCK + (n % BLOCK)
  BY Split
<1>2. m = (m \div BLOCK) * BLOCK + (m % BLOCK)
  BY Split
<1> QED
  BY <1>1, <1>2

-----------------------------------------------------------------------------
(***************************************************************************)
(* The rule of the game, and the lines that the threads look at            *)
(***************************************************************************)
\* The n-th row, column or block.
LineOf(b, k, n) ==
  CASE k = "row"    -> copyOfRow(b, n)
    [] k = "column" -> copyOfColumn(b, n)
    [] k = "block"  -> copyOfBlock(b, n)

\* The cell of the board at place m of line n, as the copies have it.
CellOf(k, n, m) ==
  CASE k = "row"    -> << n, m >>
    [] k = "column" -> << m, n >>
    [] k = "block"  -> << (n \div BLOCK) * BLOCK + (m \div BLOCK), (n % BLOCK) * BLOCK + (m % BLOCK) >>

LEMMA CellOfLine ==
  ASSUME NEW b, NEW k \in Kind, NEW n \in Index, NEW m \in Index
  PROVE  LineOf(b, k, n)[m] = b[CellOf(k, n, m)]
BY DEF Kind, LineOf, CellOf, copyOfRow, copyOfColumn, copyOfBlock

\* The cell of a block, and its block and place.
LEMMA CellOfBlock ==
  ASSUME NEW n \in Index, NEW m \in Index
  PROVE  LET c == CellOf("block", n, m)
         IN  /\ c \in Cells
             /\ c[1] \div BLOCK = n \div BLOCK /\ c[2] \div BLOCK = n % BLOCK
             /\ c[1] % BLOCK = m \div BLOCK /\ c[2] % BLOCK = m % BLOCK
<1> DEFINE c == CellOf("block", n, m)
<1>1. c = << (n \div BLOCK) * BLOCK + (m \div BLOCK), (n % BLOCK) * BLOCK + (m % BLOCK) >>
  BY DEF CellOf
<1>2. /\ n \div BLOCK \in 0 .. BLOCK - 1 /\ n % BLOCK \in 0 .. BLOCK - 1
      /\ m \div BLOCK \in 0 .. BLOCK - 1 /\ m % BLOCK \in 0 .. BLOCK - 1
  BY Split
<1>3. /\ c[1] \in Index /\ c[1] \div BLOCK = n \div BLOCK /\ c[1] % BLOCK = m \div BLOCK
      /\ c[2] \in Index /\ c[2] \div BLOCK = n % BLOCK /\ c[2] % BLOCK = m % BLOCK
  BY <1>1, <1>2, Join2
<1> QED
  BY <1>1, <1>3 DEF Cells

\* Two places of a line are cells that must not hold the same digit.
LEMMA LinesRelate ==
  ASSUME NEW k \in Kind, NEW n \in Index, NEW m \in Index, NEW l \in Index, m # l
  PROVE  /\ CellOf(k, n, m) \in Cells /\ CellOf(k, n, l) \in Cells
         /\ Related(CellOf(k, n, m), CellOf(k, n, l))
<1>1. CASE k = "row" \/ k = "column"
  BY <1>1 DEF CellOf, Cells, Related
<1>2. CASE k = "block"
  <2>1. ~ (m \div BLOCK = l \div BLOCK /\ m % BLOCK = l % BLOCK)
    BY SplitUnique
  <2>2. CellOf(k, n, m) # CellOf(k, n, l)
    BY <1>2, <2>1, CellOfBlock
  <2> QED
    BY <1>2, <2>2, CellOfBlock DEF Related, InOneBlock
<1> QED
  BY <1>1, <1>2 DEF Kind

\* And two such cells are in a line.
LEMMA RelatedInLine ==
  ASSUME NEW c \in Cells, NEW d \in Cells, Related(c, d)
  PROVE  \E k \in Kind, n \in Index : \E m, l \in Index :
           m # l /\ c = CellOf(k, n, m) /\ d = CellOf(k, n, l)
<1>1. /\ c = << c[1], c[2] >> /\ c[1] \in Index /\ c[2] \in Index
      /\ d = << d[1], d[2] >> /\ d[1] \in Index /\ d[2] \in Index
      /\ c # d
  BY DEF Cells, Related
<1>2. CASE c[1] = d[1]
  <2>1. c[2] # d[2]
    BY <1>1, <1>2
  <2>2. c = CellOf("row", c[1], c[2]) /\ d = CellOf("row", c[1], d[2])
    BY <1>1, <1>2 DEF CellOf
  <2> QED
    BY <1>1, <2>1, <2>2 DEF Kind
<1>3. CASE c[2] = d[2]
  <2>1. c[1] # d[1]
    BY <1>1, <1>3
  <2>2. c = CellOf("column", c[2], c[1]) /\ d = CellOf("column", c[2], d[1])
    BY <1>1, <1>3 DEF CellOf
  <2> QED
    BY <1>1, <2>1, <2>2 DEF Kind
<1>4. CASE InOneBlock(c, d)
  <2> DEFINE n == (c[1] \div BLOCK) * BLOCK + (c[2] \div BLOCK)
             m == (c[1] % BLOCK) * BLOCK + (c[2] % BLOCK)
             l == (d[1] % BLOCK) * BLOCK + (d[2] % BLOCK)
  <2>1. /\ c[1] \div BLOCK \in 0 .. BLOCK - 1 /\ c[2] \div BLOCK \in 0 .. BLOCK - 1
        /\ c[1] % BLOCK \in 0 .. BLOCK - 1 /\ c[2] % BLOCK \in 0 .. BLOCK - 1
        /\ d[1] % BLOCK \in 0 .. BLOCK - 1 /\ d[2] % BLOCK \in 0 .. BLOCK - 1
        /\ c[1] = (c[1] \div BLOCK) * BLOCK + (c[1] % BLOCK)
        /\ c[2] = (c[2] \div BLOCK) * BLOCK + (c[2] % BLOCK)
        /\ d[1] = (d[1] \div BLOCK) * BLOCK + (d[1] % BLOCK)
        /\ d[2] = (d[2] \div BLOCK) * BLOCK + (d[2] % BLOCK)
    BY <1>1, Split
  <2>2. d[1] \div BLOCK = c[1] \div BLOCK /\ d[2] \div BLOCK = c[2] \div BLOCK
    BY <1>4 DEF InOneBlock
  <2>3. /\ n \in Index /\ n \div BLOCK = c[1] \div BLOCK /\ n % BLOCK = c[2] \div BLOCK
        /\ m \in Index /\ m \div BLOCK = c[1] % BLOCK /\ m % BLOCK = c[2] % BLOCK
        /\ l \in Index /\ l \div BLOCK = d[1] % BLOCK /\ l % BLOCK = d[2] % BLOCK
    BY <2>1, Join2
  <2> HIDE DEF n, m, l
  <2>4. c = CellOf("block", n, m) /\ d = CellOf("block", n, l)
    BY <1>1, <2>1, <2>2, <2>3 DEF CellOf
  <2>5. m # l
    BY <1>1, <2>4
  <2> QED
    BY <2>3, <2>4, <2>5 DEF Kind
<1> QED
  BY <1>2, <1>3, <1>4 DEF Related

\* The rule holds if no line has a duplicate, and only then (sudoku.c:293-394).
LEMMA RuleByLines ==
  ASSUME NEW b \in Board
  PROVE  Consistent(b) <=> \A k \in Kind, n \in Index : ~ Duplicate(LineOf(b, k, n))
<1>1. ASSUME Consistent(b), NEW k \in Kind, NEW n \in Index, Duplicate(LineOf(b, k, n))
      PROVE  FALSE
  <2>1. PICK m \in Index, l \in Index :
          m < l /\ LineOf(b, k, n)[l] # 0 /\ LineOf(b, k, n)[m] = LineOf(b, k, n)[l]
    BY <1>1 DEF Duplicate
  <2>2. m # l
    BY <2>1 DEF Index
  <2>3. b[CellOf(k, n, l)] # 0 /\ b[CellOf(k, n, m)] = b[CellOf(k, n, l)]
    BY <2>1, CellOfLine
  <2> QED
    BY <1>1, <2>2, <2>3, LinesRelate DEF Consistent
<1>2. ASSUME \A k \in Kind, n \in Index : ~ Duplicate(LineOf(b, k, n)),
             NEW c \in Cells, NEW d \in Cells, Related(c, d), b[c] # 0, b[c] = b[d]
      PROVE  FALSE
  <2>1. PICK k \in Kind, n \in Index : \E m, l \in Index :
          m # l /\ c = CellOf(k, n, m) /\ d = CellOf(k, n, l)
    BY <1>2, RelatedInLine
  <2>2. PICK m \in Index, l \in Index : m # l /\ c = CellOf(k, n, m) /\ d = CellOf(k, n, l)
    BY <2>1
  <2>3. /\ LineOf(b, k, n)[m] # 0 /\ LineOf(b, k, n)[l] # 0
        /\ LineOf(b, k, n)[m] = LineOf(b, k, n)[l]
    BY <1>2, <2>2, CellOfLine
  <2>4. m < l \/ l < m
    BY <2>2 DEF Index
  <2>5. Duplicate(LineOf(b, k, n))
    BY <2>3, <2>4 DEF Duplicate
  <2> QED
    BY <1>2, <2>5
<1> QED
  BY <1>1, <1>2 DEF Consistent

-----------------------------------------------------------------------------
(***************************************************************************)
(* The threads of the test                                                 *)
(***************************************************************************)
\* Every thread has a number below the bound of the loops.
LEMMA Threads ==
  /\ max_threads \in Nat \ {0}
  /\ \A k \in Kind : NumThreads[k] \in Nat \ {0} /\ NumThreads[k] <= max_threads
  /\ \A t \in Thread : /\ t = << t[1], t[2] >> /\ t[1] \in Kind
                       /\ t[2] \in Nat /\ t[2] < NumThreads[t[1]] /\ t[2] < max_threads
  /\ \A k \in Kind, n \in Nat : n < NumThreads[k] => << k, n >> \in Thread
<1>1. \A k \in Kind : NumThreads[k] \in Nat \ {0}
  BY ThreadsAssumption DEF Kind, NumThreads
<1>2. \E n \in {NumThreads[k] : k \in Kind} : \A k \in Kind : NumThreads[k] <= n
  <2>1. \E l \in Kind : \A k \in Kind : NumThreads[k] <= NumThreads[l]
    BY <1>1 DEF Kind
  <2> QED
    BY <2>1
<1>3. /\ max_threads \in {NumThreads[k] : k \in Kind}
      /\ \A k \in Kind : NumThreads[k] <= max_threads
  BY <1>2 DEF max_threads
<1>4. max_threads \in Nat \ {0}
  BY <1>1, <1>3
<1>5. \A t \in Thread : /\ t = << t[1], t[2] >> /\ t[1] \in Kind
                        /\ t[2] \in Nat /\ t[2] < NumThreads[t[1]] /\ t[2] < max_threads
  BY <1>4 DEF Thread
<1>6. \A k \in Kind, n \in Nat : n < NumThreads[k] => << k, n >> \in Thread
  <2> SUFFICES ASSUME NEW k \in Kind, NEW n \in Nat, n < NumThreads[k]
               PROVE  << k, n >> \in Thread
    OBVIOUS
  <2>1. n \in 0 .. max_threads - 1
    BY <1>1, <1>3, <1>4
  <2> QED
    BY <2>1 DEF Thread
<1> QED
  BY <1>1, <1>3, <1>4, <1>5, <1>6

\* Every line is some thread's turn: the first one, or one that follows in steps
\* of the number of threads (sudoku.c:73-89).
LEMMA HandedOut ==
  ASSUME NEW N \in Nat \ {0}, NEW n \in Nat
  PROVE  \E s \in 0 .. N - 1, q \in Nat : n = s + q * N
<1>1. n % N \in 0 .. N - 1 /\ n \div N \in Nat /\ n = (n % N) + (n \div N) * N
  OBVIOUS
<1> QED
  BY <1>1

TestTypeOK ==
  /\ main \in {"idle", "create", "join", "collect", "done"}
  /\ i \in 0 .. max_threads
  /\ kind \in Kind
  /\ i = max_threads => kind = "row"
  /\ pc \in [Thread -> {"new", "run", "ended"}]
  /\ line \in [Thread -> Nat]
  /\ board \in Board
  /\ isValid \in [Thread -> BOOLEAN]
  /\ isTested \in [Thread -> BOOLEAN]
  /\ result \in {-1, 0, 1}

\* The threads whose turn was in the present loop of testNumberArrays.
Rank(k) == CASE k = "row" -> 0 [] k = "column" -> 1 [] k = "block" -> 2
Passed(t) == t[2] < i \/ (t[2] = i /\ Rank(t[1]) < Rank(kind))

\* How far the loops have come.
Loops ==
  /\ main = "create" => \A t \in Thread : pc[t] = "new" <=> ~ Passed(t)
  /\ main = "join" => \A t \in Thread : pc[t] # "new" /\ (Passed(t) => pc[t] = "ended")
  /\ main = "collect" => \A t \in Thread : pc[t] = "ended" /\ (Passed(t) => isValid[t])
  /\ main \in {"idle", "done"} => \A t \in Thread : pc[t] # "run"

\* What a thread has found is true of the board, and a duplicate that was not
\* found yet is in a line that its thread still comes to.
Found(k) == \E n \in Index : Duplicate(LineOf(board, k, n))
Ahead(t, n) == \E q \in Nat : n = line[t] + q * NumThreads[t[1]]
Noticed(k, n) == \E t \in Thread : t[1] = k /\ (~ isValid[t] \/ Ahead(t, n))
Findings ==
  /\ \A t \in Thread : isTested[t] <=> pc[t] = "ended"
  /\ \A t \in Thread : pc[t] = "ended" => ~ isValid[t] \/ line[t] >= D
  /\ \A t \in Thread : ~ isValid[t] => Found(t[1])
  /\ \A k \in Kind, n \in Index : Duplicate(LineOf(board, k, n)) => Noticed(k, n)

\* The result of the test, and of the test of the puzzle.
Judged == main = "done" /\ result # -1 => result = Verdict(board)

TestInv == TestTypeOK /\ Loops /\ Findings /\ Judged

\* Threads that were not started yet have everything before them.
Fresh ==
  \A t \in Thread : pc[t] = "new" /\ line[t] = t[2] /\ isValid[t] /\ ~ isTested[t]

LEMMA FreshFindings == Fresh => Findings
<1> SUFFICES ASSUME Fresh PROVE Findings
  OBVIOUS
<1>1. ASSUME NEW k \in Kind, NEW n \in Index PROVE Noticed(k, n)
  <2>1. NumThreads[k] \in Nat \ {0} /\ n \in Nat
    BY Threads, Depth DEF Index, D
  <2>2. PICK s \in 0 .. NumThreads[k] - 1, q \in Nat : n = s + q * NumThreads[k]
    BY <2>1, HandedOut
  <2>3. << k, s >> \in Thread
    BY <2>1, Threads
  <2>4. line[<< k, s >>] = s
    BY <2>3 DEF Fresh
  <2> QED
    BY <2>2, <2>3, <2>4 DEF Noticed, Ahead
<1> QED
  BY <1>1 DEF Fresh, Findings

LEMMA FreshFindingsNext == Fresh' => Findings'
BY FreshFindings, PTL

\* The arrays of a call are fresh (sudoku.c:398-431).
LEMMA NewArraysFresh ==
  ASSUME NewArrays
  PROVE  /\ Fresh'
         /\ i' = 0 /\ kind' = "row"
         /\ pc' \in [Thread -> {"new", "run", "ended"}]
         /\ line' \in [Thread -> Nat]
         /\ isValid' \in [Thread -> BOOLEAN]
         /\ isTested' \in [Thread -> BOOLEAN]
         /\ \A t \in Thread : pc'[t] = "new" /\ ~ Passed(t)'
<1>1. \A t \in Thread : t[2] \in Nat /\ t[1] \in Kind
  BY Threads
<1>2. i' = 0 /\ kind' = "row" /\ pc' = [t \in Thread |-> "new"] /\ line' = [t \in Thread |-> t[2]]
      /\ isValid' = [t \in Thread |-> TRUE] /\ isTested' = [t \in Thread |-> FALSE]
  BY DEF NewArrays
<1>3. \A t \in Thread : ~ Passed(t)'
  BY <1>1, <1>2 DEF Passed, Rank, Kind
<1> QED
  BY <1>1, <1>2, <1>3 DEF Fresh

LEMMA TestInitInv == TestInit => TestInv
<1> SUFFICES ASSUME TestInit PROVE TestInv
  OBVIOUS
<1>1. /\ main = "idle" /\ i = 0 /\ kind = "row" /\ result = -1
      /\ pc = [t \in Thread |-> "new"] /\ line = [t \in Thread |-> t[2]]
      /\ isValid = [t \in Thread |-> TRUE] /\ isTested = [t \in Thread |-> FALSE]
      /\ board = [c \in Cells |-> 0]
  BY DEF TestInit
<1>2. TestTypeOK
  BY <1>1, Threads DEF TestTypeOK, Kind, Board
<1>3. Fresh
  BY <1>1 DEF Fresh
<1> QED
  BY <1>1, <1>2, <1>3, FreshFindings DEF TestInv, Loops, Judged

LEMMA CallInv ==
  ASSUME NEW b \in Board, testSudokuString(b)
  PROVE  TestInv'
<1>1. board' = b /\ main' = "create" /\ result' = -1 /\ NewArrays
  BY DEF testSudokuString
<1>2. TestTypeOK'
  BY <1>1, NewArraysFresh, Threads DEF TestTypeOK, Kind
<1>3. Loops'
  BY <1>1, NewArraysFresh DEF Loops
<1>4. Judged'
  BY <1>1 DEF Judged
<1> QED
  BY <1>1, <1>2, <1>3, <1>4, NewArraysFresh, FreshFindingsNext DEF TestInv

LEMMA WrongLengthInv ==
  ASSUME WrongLength
  PROVE  TestInv' /\ main' = "done" /\ \A t \in Thread : pc'[t] = "new"
<1>1. board' = [c \in Cells |-> 0] /\ main' = "done" /\ result' = -1 /\ NewArrays
  BY DEF WrongLength
<1>2. TestTypeOK'
  BY <1>1, NewArraysFresh, Threads DEF TestTypeOK, Kind, Board
<1>3. Loops'
  BY <1>1, NewArraysFresh DEF Loops
<1>4. Judged'
  BY <1>1 DEF Judged
<1> QED
  BY <1>1, <1>2, <1>3, <1>4, NewArraysFresh, FreshFindingsNext DEF TestInv

-----------------------------------------------------------------------------
(***************************************************************************)
(* The loops of testNumberArrays                                           *)
(***************************************************************************)
\* A turn of a loop: the threads before the new one are those before, and the one
\* whose turn it was, if there is one.
LEMMA AdvancePasses ==
  ASSUME TestTypeOK, i < max_threads, Advance
  PROVE  /\ i' \in 0 .. max_threads /\ kind' \in Kind /\ (i' = max_threads => kind' = "row")
         /\ \A t \in Thread : Passed(t)' <=> Passed(t) \/ t = Current
<1>1. i \in Nat /\ max_threads \in Nat /\ kind \in Kind
  BY Threads DEF TestTypeOK
<1>2. i' \in 0 .. max_threads /\ kind' \in Kind /\ (i' = max_threads => kind' = "row")
  BY <1>1 DEF Advance, Kind
<1>3. ASSUME NEW t \in Thread
      PROVE  Passed(t)' <=> Passed(t) \/ t = Current
  <2>1. t = << t[1], t[2] >> /\ t[2] \in Nat /\ t[1] \in Kind
    BY Threads
  <2>2. t = Current <=> t[1] = kind /\ t[2] = i
    BY <2>1 DEF Current
  <2>3. CASE kind = "row"
    BY <1>1, <2>1, <2>2, <2>3 DEF Advance, Passed, Rank, Kind
  <2>4. CASE kind = "column"
    BY <1>1, <2>1, <2>2, <2>4 DEF Advance, Passed, Rank, Kind
  <2>5. CASE kind = "block"
    BY <1>1, <2>1, <2>2, <2>5 DEF Advance, Passed, Rank, Kind
  <2> QED
    BY <1>1, <2>3, <2>4, <2>5 DEF Kind
<1> QED
  BY <1>2, <1>3

\* The one whose turn it is was not passed.
LEMMA CurrentNotPassed ==
  ASSUME TestTypeOK, Exists
  PROVE  Current \in Thread /\ ~ Passed(Current)
<1>1. i \in Nat /\ kind \in Kind
  BY Threads DEF TestTypeOK
<1>2. Current \in Thread
  BY <1>1, Threads DEF Exists, Current
<1> QED
  BY <1>1, <1>2 DEF Passed, Current, Rank, Kind

LEMMA SkipInv ==
  ASSUME TestInv, Skip
  PROVE  TestInv'
<1>1. /\ main \notin {"idle", "done"} /\ i < max_threads /\ Advance /\ main' = main
      /\ UNCHANGED << pc, line, board, isValid, isTested, result >>
  BY DEF Skip
<1>2. Current \notin Thread
  BY Threads DEF Skip, Exists, Current
<1>3. /\ i' \in 0 .. max_threads /\ kind' \in Kind /\ (i' = max_threads => kind' = "row")
      /\ \A t \in Thread : Passed(t)' <=> Passed(t)
  BY <1>1, <1>2, AdvancePasses DEF TestInv
<1>4. TestTypeOK'
  BY <1>1, <1>3 DEF TestInv, TestTypeOK
<1>5. Loops'
  BY <1>1, <1>3 DEF TestInv, Loops
<1>6. Findings'
  BY <1>1 DEF TestInv, Findings, Found, Noticed, Ahead
<1>7. Judged'
  BY <1>1 DEF Judged
<1> QED
  BY <1>4, <1>5, <1>6, <1>7 DEF TestInv

LEMMA CreateInv ==
  ASSUME TestInv, Create
  PROVE  TestInv'
<1>1. /\ main = "create" /\ i < max_threads /\ Exists /\ Advance /\ main' = main
      /\ pc' = [pc EXCEPT ![Current] = "run"]
      /\ UNCHANGED << line, board, isValid, isTested, result >>
  BY DEF Create
<1>2. Current \in Thread /\ ~ Passed(Current)
  BY <1>1, CurrentNotPassed DEF TestInv
<1>3. /\ i' \in 0 .. max_threads /\ kind' \in Kind /\ (i' = max_threads => kind' = "row")
      /\ \A t \in Thread : Passed(t)' <=> Passed(t) \/ t = Current
  BY <1>1, AdvancePasses DEF TestInv
<1>4. pc[Current] = "new" /\ pc \in [Thread -> {"new", "run", "ended"}]
  BY <1>1, <1>2 DEF TestInv, Loops, TestTypeOK
<1>5. TestTypeOK'
  BY <1>1, <1>2, <1>3 DEF TestInv, TestTypeOK
<1>6. Loops'
  BY <1>1, <1>2, <1>3, <1>4 DEF TestInv, Loops
<1>7. Findings'
  <2>1. \A t \in Thread : pc'[t] = "ended" <=> pc[t] = "ended"
    BY <1>1, <1>2, <1>4
  <2> QED
    BY <1>1, <2>1 DEF TestInv, Findings, Found, Noticed, Ahead
<1>8. Judged'
  BY <1>1 DEF Judged
<1> QED
  BY <1>5, <1>6, <1>7, <1>8 DEF TestInv

LEMMA JoinInv ==
  ASSUME TestInv, Join
  PROVE  TestInv'
<1>1. /\ main = "join" /\ i < max_threads /\ Exists /\ Advance /\ main' = main
      /\ pc[Current] = "ended"
      /\ UNCHANGED << pc, line, board, isValid, isTested, result >>
  BY DEF Join, Ended
<1>2. /\ i' \in 0 .. max_threads /\ kind' \in Kind /\ (i' = max_threads => kind' = "row")
      /\ \A t \in Thread : Passed(t)' <=> Passed(t) \/ t = Current
  BY <1>1, AdvancePasses DEF TestInv
<1>3. TestTypeOK'
  BY <1>1, <1>2 DEF TestInv, TestTypeOK
<1>4. Loops'
  BY <1>1, <1>2 DEF TestInv, Loops
<1>5. Findings'
  BY <1>1 DEF TestInv, Findings, Found, Noticed, Ahead
<1>6. Judged'
  BY <1>1 DEF Judged
<1> QED
  BY <1>3, <1>4, <1>5, <1>6 DEF TestInv

LEMMA CollectInv ==
  ASSUME TestInv, Collect
  PROVE  TestInv'
<1>1. /\ main = "collect" /\ i < max_threads /\ Exists
      /\ UNCHANGED << pc, line, board, isValid, isTested >>
  BY DEF Collect
<1>2. Current \in Thread
  BY <1>1, CurrentNotPassed DEF TestInv
<1>3. Findings'
  BY <1>1 DEF TestInv, Findings, Found, Noticed, Ahead
<1>4. CASE isValid[Current]
  <2>1. Advance /\ main' = main /\ result' = result
    BY <1>4 DEF Collect
  <2>2. /\ i' \in 0 .. max_threads /\ kind' \in Kind /\ (i' = max_threads => kind' = "row")
        /\ \A t \in Thread : Passed(t)' <=> Passed(t) \/ t = Current
    BY <1>1, <2>1, AdvancePasses DEF TestInv
  <2>3. TestTypeOK'
    BY <1>1, <2>1, <2>2 DEF TestInv, TestTypeOK
  <2>4. Loops'
    BY <1>1, <1>4, <2>1, <2>2 DEF TestInv, Loops
  <2>5. Judged'
    BY <1>1, <2>1 DEF Judged
  <2> QED
    BY <1>3, <2>3, <2>4, <2>5 DEF TestInv
<1>5. CASE ~ isValid[Current]
  <2>1. result' = 0 /\ main' = "done" /\ UNCHANGED << i, kind >>
    BY <1>5 DEF Collect
  <2>2. TestTypeOK'
    BY <1>1, <2>1 DEF TestInv, TestTypeOK
  <2>3. Loops'
    BY <1>1, <2>1 DEF TestInv, Loops
  <2>4. ~ Consistent(board)
    <3>1. board \in Board /\ Current[1] \in Kind /\ Found(Current[1])
      BY <1>2, <1>5, Threads DEF TestInv, TestTypeOK, Findings
    <3> QED
      BY <3>1, RuleByLines DEF Found
  <2>5. Judged'
    BY <1>1, <2>1, <2>4 DEF Judged, Verdict
  <2> QED
    BY <1>3, <2>2, <2>3, <2>5 DEF TestInv
<1> QED
  BY <1>4, <1>5

LEMMA EndLoopInv ==
  ASSUME TestInv, EndLoop
  PROVE  TestInv'
<1>1. /\ main \notin {"idle", "done"} /\ i = max_threads
      /\ main' = (CASE main = "create" -> "join" [] main = "join" -> "collect" [] OTHER -> "done")
      /\ i' = (IF main = "collect" THEN i ELSE 0)
      /\ result' = (IF main = "collect" THEN 1 ELSE result)
      /\ UNCHANGED << kind, pc, line, board, isValid, isTested >>
  BY DEF EndLoop
<1>2. \A t \in Thread : Passed(t)
  BY <1>1, Threads DEF Passed
<1>3. kind = "row"
  BY <1>1 DEF TestInv, TestTypeOK
<1>4. main # "collect" => \A t \in Thread : ~ Passed(t)'
  <2>1. \A t \in Thread : t[2] \in Nat /\ t[1] \in Kind
    BY Threads
  <2> QED
    BY <1>1, <1>3, <2>1 DEF Passed, Rank, Kind
<1>5. TestTypeOK'
  BY <1>1, <1>3, Threads DEF TestInv, TestTypeOK
<1>6. Loops'
  BY <1>1, <1>2, <1>4 DEF TestInv, Loops, TestTypeOK
<1>7. Findings'
  BY <1>1 DEF TestInv, Findings, Found, Noticed, Ahead
<1>8. main = "collect" => Consistent(board)
  <2> SUFFICES ASSUME main = "collect" PROVE Consistent(board)
    OBVIOUS
  <2>1. \A t \in Thread : isValid[t] /\ line[t] >= D /\ line[t] \in Nat
    BY <1>2 DEF TestInv, Loops, Findings, TestTypeOK
  <2>2. ASSUME NEW k \in Kind, NEW n \in Index PROVE ~ Noticed(k, n)
    <3> SUFFICES ASSUME NEW t \in Thread, t[1] = k, NEW q \in Nat, n = line[t] + q * NumThreads[k]
                 PROVE  FALSE
      BY <2>1 DEF Noticed, Ahead
    <3>1. n < D /\ n \in Nat /\ D \in Nat
      BY Depth DEF Index, D
    <3>2. q * NumThreads[k] \in Nat
      BY Threads
    <3> QED
      BY <2>1, <3>1, <3>2
  <2>3. \A k \in Kind, n \in Index : ~ Duplicate(LineOf(board, k, n))
    BY <2>2 DEF TestInv, Findings
  <2> QED
    BY <2>3, RuleByLines DEF TestInv, TestTypeOK
<1>9. Judged'
  BY <1>1, <1>8 DEF TestInv, Judged, Verdict, TestTypeOK
<1> QED
  BY <1>5, <1>6, <1>7, <1>9 DEF TestInv

-----------------------------------------------------------------------------
(***************************************************************************)
(* The body of a thread                                                    *)
(***************************************************************************)
\* A thread looks at its next line: what it passes by has no duplicate, or it says so.
LEMMA TestArrayInv ==
  ASSUME TestInv, NEW t \in Thread, TestArray(t)
  PROVE  TestInv'
<1> DEFINE N == NumThreads[t[1]]
<1>1. /\ pc[t] = "run" /\ isValid[t] /\ line[t] < SUDOKU_DEPTH
      /\ isValid' = [isValid EXCEPT ![t] = ~ Duplicate(Elements(t))]
      /\ line' = [line EXCEPT ![t] = line[t] + N]
      /\ UNCHANGED << main, i, kind, pc, board, isTested, result >>
  BY DEF TestArray
<1>2. t[1] \in Kind /\ N \in Nat \ {0} /\ line \in [Thread -> Nat] /\ isValid \in [Thread -> BOOLEAN]
  BY Threads DEF TestInv, TestTypeOK
<1>3. line[t] \in Index /\ line[t] \in Nat
  BY <1>1, <1>2, Depth DEF Index, D
<1>4. Elements(t) = LineOf(board, t[1], line[t])
  BY DEF Elements, LineOf
<1>5. Duplicate(Elements(t)) \in BOOLEAN
  BY DEF Duplicate
<1>6. /\ \A u \in Thread : u # t => isValid'[u] = isValid[u] /\ line'[u] = line[u]
      /\ isValid'[t] = ~ Duplicate(LineOf(board, t[1], line[t]))
      /\ line'[t] = line[t] + N
  BY <1>1, <1>2, <1>4
<1>7. TestTypeOK'
  <2>1. line' \in [Thread -> Nat] /\ isValid' \in [Thread -> BOOLEAN]
    BY <1>1, <1>2, <1>3, <1>5
  <2> QED
    BY <1>1, <2>1 DEF TestInv, TestTypeOK
<1>8. Loops'
  <2>1. \A u \in Thread : Passed(u)' <=> Passed(u)
    BY <1>1 DEF Passed
  <2>2. main # "collect"
    BY <1>1 DEF TestInv, Loops
  <2> QED
    BY <1>1, <2>1, <2>2 DEF TestInv, Loops
<1>9. Findings'
  <2>1. \A u \in Thread : isTested'[u] <=> pc'[u] = "ended"
    BY <1>1 DEF TestInv, Findings
  <2>2. \A u \in Thread : pc'[u] = "ended" => ~ isValid'[u] \/ line'[u] >= D
    BY <1>1, <1>6 DEF TestInv, Findings
  <2>3. ASSUME NEW u \in Thread, ~ isValid'[u]
        PROVE  Found(u[1])'
    <3>1. Found(u[1])
      <4>1. CASE u = t
        BY <1>3, <1>6, <2>3, <4>1 DEF Found
      <4>2. CASE u # t
        BY <1>6, <2>3, <4>2 DEF TestInv, Findings
      <4> QED
        BY <4>1, <4>2
    <3> QED
      BY <1>1, <3>1 DEF Found
  <2>4. ASSUME NEW k \in Kind, NEW n \in Index, Duplicate(LineOf(board, k, n))
        PROVE  Noticed(k, n)'
    <3>1. PICK u \in Thread : u[1] = k /\ (~ isValid[u] \/ Ahead(u, n))
      BY <2>4 DEF TestInv, Findings, Noticed
    <3>2. CASE u # t
      BY <1>6, <3>1, <3>2 DEF Noticed, Ahead
    <3>3. CASE u = t
      <4>1. PICK q \in Nat : n = line[t] + q * N
        BY <1>1, <3>1, <3>3 DEF Ahead
      <4>2. CASE q = 0
        <5>1. n = line[t]
          BY <1>2, <1>3, <4>1, <4>2
        <5> QED
          BY <1>6, <2>4, <3>1, <3>3, <5>1 DEF Noticed
      <4>3. CASE q # 0
        <5>1. q - 1 \in Nat /\ n = (line[t] + N) + (q - 1) * N
          <6> DEFINE l == line[t]
          <6>1. q \in Nat /\ q # 0 /\ N \in Nat /\ l \in Nat /\ n = l + q * N
            BY <1>2, <1>3, <4>1, <4>3
          <6> HIDE DEF N, l
          <6>2. q - 1 \in Nat /\ n = (l + N) + (q - 1) * N
            BY <6>1
          <6> QED
            BY <6>2 DEF l
        <5>2. Ahead(t, n)'
          BY <1>6, <5>1 DEF Ahead
        <5> QED
          BY <3>1, <3>3, <5>2 DEF Noticed
      <4> QED
        BY <4>2, <4>3
    <3> QED
      BY <3>2, <3>3
  <2> QED
    BY <1>1, <2>1, <2>2, <2>3, <2>4 DEF Findings
<1>10. Judged'
  BY <1>1 DEF TestInv, Judged
<1> QED
  BY <1>7, <1>8, <1>9, <1>10 DEF TestInv

LEMMA TestedInv ==
  ASSUME TestInv, NEW t \in Thread, Tested(t)
  PROVE  TestInv'
<1>1. /\ pc[t] = "run"
      /\ ~ isValid[t] \/ line[t] >= D
      /\ isTested' = [isTested EXCEPT ![t] = TRUE]
      /\ pc' = [pc EXCEPT ![t] = "ended"]
      /\ UNCHANGED << main, i, kind, line, board, isValid, result >>
  BY DEF Tested, D
<1>2. pc \in [Thread -> {"new", "run", "ended"}] /\ isTested \in [Thread -> BOOLEAN]
  BY DEF TestInv, TestTypeOK
<1>3. TestTypeOK'
  BY <1>1, <1>2 DEF TestInv, TestTypeOK
<1>4. Loops'
  <2>1. \A u \in Thread : Passed(u)' <=> Passed(u)
    BY <1>1 DEF Passed
  <2>2. \A u \in Thread : u # t => pc'[u] = pc[u]
    BY <1>1, <1>2
  <2>3. pc'[t] = "ended"
    BY <1>1, <1>2
  <2> QED
    <3>1. main' = "create" => \A u \in Thread : pc'[u] = "new" <=> ~ Passed(u)'
      BY <1>1, <2>1, <2>2, <2>3 DEF TestInv, Loops
    <3>2. main' = "join" => \A u \in Thread : pc'[u] # "new" /\ (Passed(u)' => pc'[u] = "ended")
      BY <1>1, <2>1, <2>2, <2>3 DEF TestInv, Loops
    <3>3. main \notin {"idle", "collect", "done"}
      BY <1>1 DEF TestInv, Loops
    <3> QED
      BY <1>1, <3>1, <3>2, <3>3 DEF Loops
<1>5. Findings'
  <2>1. \A u \in Thread : isTested'[u] <=> pc'[u] = "ended"
    BY <1>1, <1>2 DEF TestInv, Findings
  <2>2. \A u \in Thread : pc'[u] = "ended" => ~ isValid'[u] \/ line'[u] >= D
    BY <1>1, <1>2 DEF TestInv, Findings
  <2> QED
    BY <1>1, <2>1, <2>2 DEF TestInv, Findings, Found, Noticed, Ahead
<1>6. Judged'
  BY <1>1 DEF TestInv, Judged
<1> QED
  BY <1>3, <1>4, <1>5, <1>6 DEF TestInv

LEMMA TestStepInv ==
  ASSUME TestInv, TestStep
  PROVE  TestInv'
BY SkipInv, CreateInv, JoinInv, CollectInv, EndLoopInv, TestArrayInv, TestedInv
   DEF TestStep, testNumberArrays, thread

-----------------------------------------------------------------------------
(***************************************************************************)
(* Shuffling                                                               *)
(***************************************************************************)
Solution(b) ==
  /\ b \in [Cells -> Digit]
  /\ \A c, d \in Cells : Related(c, d) => b[c] # b[d]

\* Where the digits of a solution come from another place, and cells that are
\* related from cells that are, there is a solution again.
LEMMA Moved ==
  ASSUME NEW b, Solution(b), NEW f \in [Cells -> Cells],
         \A c, d \in Cells : Related(c, d) => Related(f[c], f[d])
  PROVE  Solution([c \in Cells |-> b[f[c]]])
BY DEF Solution

\* Rows are swapped within their band, and no two go to the same place
\* (sudoku.c:189-200).
LEMMA SwapKeepsBands ==
  ASSUME NEW swap \in Swaps
  PROVE  /\ \A r \in Index : swap[r] \in Index /\ swap[r] \div BLOCK = r \div BLOCK
         /\ \A r, s \in Index : r # s => swap[r] # swap[s]
<1> DEFINE bands == 0 .. BLOCK - 1
<1>1. PICK one \in [bands -> bands], other \in [bands -> bands] :
        swap = [r \in Index |-> Swap(r, BandOf(r) * BLOCK + one[BandOf(r)],
                                       BandOf(r) * BLOCK + other[BandOf(r)])]
  BY DEF Swaps
<1>2. ASSUME NEW r \in Index
      PROVE  /\ BandOf(r) \in bands /\ BandOf(r) = r \div BLOCK
             /\ BandOf(r) * BLOCK + one[BandOf(r)] \in Index
             /\ (BandOf(r) * BLOCK + one[BandOf(r)]) \div BLOCK = r \div BLOCK
             /\ BandOf(r) * BLOCK + other[BandOf(r)] \in Index
             /\ (BandOf(r) * BLOCK + other[BandOf(r)]) \div BLOCK = r \div BLOCK
  <2>1. BandOf(r) \in bands /\ BandOf(r) = r \div BLOCK
    BY Split DEF BandOf
  <2>2. one[BandOf(r)] \in bands /\ other[BandOf(r)] \in bands
    BY <2>1
  <2> QED
    BY <2>1, <2>2, Join2
<1>3. ASSUME NEW r \in Index
      PROVE  swap[r] \in Index /\ swap[r] \div BLOCK = r \div BLOCK
  BY <1>1, <1>2 DEF Swap
<1>4. ASSUME NEW r \in Index, NEW s \in Index, r # s
      PROVE  swap[r] # swap[s]
  <2>1. CASE r \div BLOCK = s \div BLOCK
    <3>1. BandOf(r) = BandOf(s)
      BY <2>1 DEF BandOf
    <3> QED
      BY <1>1, <1>4, <3>1 DEF Swap
  <2>2. CASE r \div BLOCK # s \div BLOCK
    BY <1>3, <2>2
  <2> QED
    BY <2>1, <2>2
<1> QED
  BY <1>3, <1>4

LEMMA SwapRowsSolution ==
  ASSUME NEW b, Solution(b), NEW swap \in Swaps
  PROVE  Solution(swapRows(b, swap))
<1> DEFINE f == [c \in Cells |-> << swap[c[1]], c[2] >>]
<1>1. \A c \in Cells : c[1] \in Index /\ c[2] \in Index /\ c = << c[1], c[2] >>
  BY DEF Cells
<1>2. f \in [Cells -> Cells]
  BY <1>1, SwapKeepsBands DEF Cells
<1>3. ASSUME NEW c \in Cells, NEW d \in Cells, Related(c, d)
      PROVE  Related(f[c], f[d])
  <2>1. /\ f[c][1] = swap[c[1]] /\ f[c][2] = c[2]
        /\ f[d][1] = swap[d[1]] /\ f[d][2] = d[2]
    OBVIOUS
  <2>2. f[c] # f[d]
    BY <1>1, <1>3, <2>1, SwapKeepsBands DEF Related
  <2> HIDE DEF f
  <2>3. CASE c[1] = d[1] \/ c[2] = d[2]
    BY <2>1, <2>2, <2>3 DEF Related
  <2>4. CASE InOneBlock(c, d)
    BY <1>1, <2>1, <2>2, <2>4, SwapKeepsBands DEF Related, InOneBlock
  <2> QED
    BY <1>3, <2>3, <2>4 DEF Related
<1>4. swapRows(b, swap) = [c \in Cells |-> b[f[c]]]
  BY DEF swapRows
<1> HIDE DEF f
<1> QED
  BY <1>2, <1>3, <1>4, Moved

\* A quarter turn takes bands to bands (sudoku.c:165-184).
LEMMA Mirrored ==
  ASSUME NEW n \in Index
  PROVE  /\ D - 1 - n \in Index
         /\ (D - 1 - n) \div BLOCK = BLOCK - 1 - (n \div BLOCK)
<1> DEFINE q == n \div BLOCK
           r == n % BLOCK
           B == BLOCK
<1>1. q \in 0 .. B - 1 /\ r \in 0 .. B - 1 /\ n = q * B + r /\ B \in Nat \ {0} /\ D = B * B
  BY Split, Depth
<1> DEFINE p == B - 1 - q
           s == B - 1 - r
<1>2. p \in 0 .. B - 1 /\ s \in 0 .. B - 1
  <2> HIDE DEF q, r, B
  <2> QED
    BY <1>1
<1>3. D - 1 - n = p * B + s
  <2> HIDE DEF q, r, B
  <2> QED
    BY <1>1
<1>4. p * B + s \in Index /\ (p * B + s) \div B = p
  <2> HIDE DEF p, s
  <2> QED
    BY <1>2, Join2
<1> QED
  BY <1>3, <1>4

LEMMA RotateSolution ==
  ASSUME NEW b, Solution(b)
  PROVE  Solution(rotateArray(b))
<1> DEFINE f == [c \in Cells |-> << D - 1 - c[2], c[1] >>]
<1>1. \A c \in Cells : c[1] \in Index /\ c[2] \in Index /\ c = << c[1], c[2] >>
  BY DEF Cells
<1>2. f \in [Cells -> Cells]
  BY <1>1, Mirrored DEF Cells
<1>3. ASSUME NEW c \in Cells, NEW d \in Cells, Related(c, d)
      PROVE  Related(f[c], f[d])
  <2>1. /\ f[c][1] = D - 1 - c[2] /\ f[c][2] = c[1]
        /\ f[d][1] = D - 1 - d[2] /\ f[d][2] = d[1]
    OBVIOUS
  <2>2. c[2] # d[2] => D - 1 - c[2] # D - 1 - d[2]
    <3>1. c[2] \in Int /\ d[2] \in Int /\ D \in Int
      BY <1>1, Depth DEF Index
    <3> QED
      BY <3>1
  <2>3. f[c] # f[d]
    BY <1>1, <1>3, <2>1, <2>2 DEF Related
  <2> HIDE DEF f
  <2>4. CASE c[1] = d[1] \/ c[2] = d[2]
    BY <2>1, <2>3, <2>4 DEF Related
  <2>5. CASE InOneBlock(c, d)
    BY <1>1, <2>1, <2>3, <2>5, Mirrored DEF Related, InOneBlock
  <2> QED
    BY <1>3, <2>4, <2>5 DEF Related
<1>4. rotateArray(b) = [c \in Cells |-> b[f[c]]]
  BY DEF rotateArray, D
<1> HIDE DEF f
<1> QED
  BY <1>2, <1>3, <1>4, Moved

-----------------------------------------------------------------------------
(***************************************************************************)
(* Counting digits                                                         *)
(***************************************************************************)
CellsWith(b, d) == {c \in Cells : b[c] = d}
Filled(b) == {c \in Cells : b[c] # 0}

LEMMA Sizes ==
  /\ IsFiniteSet(Index) /\ Cardinality(Index) = D
  /\ IsFiniteSet(Digit) /\ Cardinality(Digit) = D
  /\ IsFiniteSet(Cells) /\ Cardinality(Cells) = D * D
<1>1. IsFiniteSet(Index) /\ Cardinality(Index) = D
  <2>1. 0 \in Int /\ D - 1 \in Int /\ ~ (0 > D - 1) /\ D - 1 - 0 + 1 = D
    BY Depth
  <2> QED
    BY <2>1, FS_Interval DEF Index, D
<1>2. IsFiniteSet(Digit) /\ Cardinality(Digit) = D
  <2>1. 1 \in Int /\ D \in Int /\ ~ (1 > D) /\ D - 1 + 1 = D
    BY Depth
  <2> QED
    BY <2>1, FS_Interval DEF Digit, D
<1>3. IsFiniteSet(Cells) /\ Cardinality(Cells) = D * D
  BY <1>1, FS_Product DEF Cells
<1> QED
  BY <1>1, <1>2, <1>3

\* In a solution each digit is in each row, and so as often as there are rows.
LEMMA SolutionHasAll ==
  ASSUME NEW b, Solution(b), NEW d \in Digit
  PROVE  IsFiniteSet(CellsWith(b, d)) /\ Cardinality(CellsWith(b, d)) = D
<1>1. ASSUME NEW r \in Index
      PROVE  \E k \in Index : b[<< r, k >>] = d
  <2> DEFINE row == [k \in Index |-> b[<< r, k >>]]
  <2>1. row \in [Index -> Digit]
    BY DEF Solution, Cells
  <2>2. \A k, l \in Index : row[k] = row[l] => k = l
    <3> SUFFICES ASSUME NEW k \in Index, NEW l \in Index, k # l PROVE row[k] # row[l]
      OBVIOUS
    <3>1. /\ << r, k >> \in Cells /\ << r, l >> \in Cells
          /\ Related(<< r, k >>, << r, l >>)
      BY DEF Cells, Related
    <3> QED
      BY <3>1 DEF Solution
  <2> HIDE DEF row
  <2>3. row \in Injection(Index, Digit)
    BY <2>1, <2>2, Fun_IsInj
  <2>4. row \in Surjection(Index, Digit)
    BY <2>3, Sizes, FS_Injection
  <2>5. PICK k \in Index : row[k] = d
    BY <2>4 DEF Surjection
  <2> QED
    BY <2>5 DEF row
<1> DEFINE where == [r \in Index |-> << r, CHOOSE k \in Index : b[<< r, k >>] = d >>]
<1>2. \A r \in Index : /\ where[r] \in CellsWith(b, d)
                       /\ where[r][1] = r
  BY <1>1 DEF CellsWith, Cells
<1>3. where \in [Index -> CellsWith(b, d)]
  BY <1>2
<1>4. \A r, s \in Index : where[r] = where[s] => r = s
  BY <1>2
<1>5. ASSUME NEW c \in CellsWith(b, d)
      PROVE  \E r \in Index : where[r] = c
  <2>1. c \in Cells /\ b[c] = d /\ c[1] \in Index
    BY DEF CellsWith, Cells
  <2>2. where[c[1]] \in Cells /\ b[where[c[1]]] = d /\ where[c[1]][1] = c[1]
    BY <1>2, <2>1 DEF CellsWith
  <2> HIDE DEF where
  <2>3. where[c[1]] = c
    BY <2>1, <2>2 DEF Solution, Related
  <2> QED
    BY <2>1, <2>3
<1> HIDE DEF where
<1>6. where \in Bijection(Index, CellsWith(b, d))
  BY <1>3, <1>4, <1>5, Fun_IsBij
<1>7. ExistsBijection(Index, CellsWith(b, d))
  BY <1>6 DEF ExistsBijection
<1> QED
  BY <1>7, Sizes, FS_Bijection

-----------------------------------------------------------------------------
(***************************************************************************)
(* The generator                                                           *)
(***************************************************************************)
\* Until the blanking the board is a solution, and no cell was drawn.
Shuffled ==
  phase \in {"idle", "shuffle"} =>
    /\ Solution(sudokuarray)
    /\ usedArray = {}
    /\ countArray = [d \in Digit |-> 0]

\* What was blanked is counted, per digit and in all; one of each digit stays.
Counted ==
  phase \in {"blank", "test", "done"} =>
    /\ \A d \in Digit : /\ IsFiniteSet(CellsWith(sudokuarray, d))
                        /\ Cardinality(CellsWith(sudokuarray, d)) = D - countArray[d]
                        /\ countArray[d] <= D - 1
    /\ IsFiniteSet(Filled(sudokuarray))
    /\ Cardinality(Filled(sudokuarray)) = D * D - turn
    /\ turn <= Blanks
    /\ phase # "blank" => turn = Blanks

\* A cell that was drawn is blank, or of a digit that may not be blanked any more.
Drawn ==
  \A c \in Cells : IF c \in usedArray
                   THEN sudokuarray[c] = 0 \/ TakenOften(sudokuarray[c])
                   ELSE sudokuarray[c] # 0

GeneratorInv ==
  /\ phase \in {"idle", "shuffle", "blank", "test", "done"}
  /\ sudokuarray \in Board
  /\ turn \in Nat
  /\ usedArray \subseteq Cells
  /\ countArray \in [Digit -> Nat]
  /\ Consistent(sudokuarray)
  /\ Shuffled
  /\ Counted
  /\ Drawn

LEMMA BlanksBound == Blanks \in Nat /\ Blanks <= D * D - D /\ Blanks = D * D - Count /\ D * D \in Nat
<1>1. Count \in D .. D * D /\ D \in Nat /\ D * D \in Nat
  BY CountAssumption, Depth DEF D
<1>2. Blanks = D * D - Count
  BY DEF Blanks, D
<1> QED
  BY <1>1, <1>2

LEMMA SolutionFits ==
  ASSUME NEW b, Solution(b)
  PROVE  /\ b \in Board /\ Consistent(b) /\ \A c \in Cells : b[c] # 0
         /\ Filled(b) = Cells
<1>1. 0 \notin Digit
  BY Depth DEF Digit, D
<1> QED
  BY <1>1 DEF Solution, Board, Consistent, Filled

LEMMA GeneratorInitInv == GeneratorInit => GeneratorInv
<1> SUFFICES ASSUME GeneratorInit PROVE GeneratorInv
  OBVIOUS
<1>1. Solution(sudokuarray)
  BY SolvedAssumption DEF GeneratorInit, Solution
<1> QED
  BY <1>1, SolutionFits DEF GeneratorInit, GeneratorInv, Shuffled, Counted, Drawn

\* The function is called, or returns the verdict of the test.
LEMMA CalledInv ==
  ASSUME GeneratorInv, UNCHANGED << sudokuarray, turn, usedArray, countArray >>,
         (phase = "idle" /\ phase' = "shuffle") \/ (phase = "test" /\ phase' = "done")
  PROVE  GeneratorInv'
<1>1. Shuffled' /\ Counted' /\ Drawn'
  BY DEF GeneratorInv, Shuffled, Counted, Drawn, CellsWith, Filled, TakenOften
<1> QED
  BY <1>1 DEF GeneratorInv, Consistent

LEMMA ShuffleInv ==
  ASSUME GeneratorInv, Shuffle
  PROVE  GeneratorInv'
<1>1. PICK swap \in Swaps : sudokuarray' = rotateArray(swapRows(sudokuarray, swap))
  BY DEF Shuffle
<1>2. /\ phase = "shuffle" /\ phase' = phase /\ turn' = turn + 1
      /\ usedArray' = usedArray /\ countArray' = countArray
  BY DEF Shuffle
<1>3. Solution(sudokuarray) /\ usedArray = {} /\ countArray = [d \in Digit |-> 0]
  BY <1>2 DEF GeneratorInv, Shuffled
<1>4. Solution(sudokuarray')
  BY <1>1, <1>3, SwapRowsSolution, RotateSolution
<1>5. sudokuarray' \in Board /\ Consistent(sudokuarray') /\ \A c \in Cells : sudokuarray'[c] # 0
  BY <1>4, SolutionFits
<1>6. Shuffled'
  BY <1>2, <1>3, <1>4 DEF Shuffled
<1>7. Counted' /\ Drawn'
  BY <1>2, <1>3, <1>5 DEF Counted, Drawn
<1> QED
  BY <1>2, <1>5, <1>6, <1>7 DEF GeneratorInv

LEMMA EndShuffleInv ==
  ASSUME GeneratorInv, EndShuffle
  PROVE  GeneratorInv'
<1>1. /\ phase = "shuffle" /\ phase' = "blank" /\ turn' = 0
      /\ sudokuarray' = sudokuarray /\ usedArray' = usedArray /\ countArray' = countArray
  BY DEF EndShuffle
<1>2. Solution(sudokuarray) /\ usedArray = {} /\ countArray = [d \in Digit |-> 0]
  BY <1>1 DEF GeneratorInv, Shuffled
<1>3. ASSUME NEW d \in Digit
      PROVE  /\ IsFiniteSet(CellsWith(sudokuarray, d))
             /\ Cardinality(CellsWith(sudokuarray, d)) = D - countArray[d]
             /\ countArray[d] <= D - 1
  BY <1>2, SolutionHasAll, Depth
<1>4. IsFiniteSet(Filled(sudokuarray)) /\ Cardinality(Filled(sudokuarray)) = D * D
  BY <1>2, SolutionFits, Sizes
<1>5. Counted'
  <2>1. turn' <= Blanks /\ D * D - turn' = D * D
    BY <1>1, BlanksBound
  <2> QED
    BY <1>1, <1>3, <1>4, <2>1 DEF Counted
<1>6. Drawn'
  BY <1>1, <1>2 DEF GeneratorInv, Drawn
<1>7. Shuffled'
  BY <1>1 DEF Shuffled
<1> QED
  BY <1>1, <1>5, <1>6, <1>7 DEF GeneratorInv, Consistent

LEMMA BlankInv ==
  ASSUME GeneratorInv, Blank
  PROVE  GeneratorInv'
<1>1. PICK c \in Cells \ usedArray :
        /\ ~ TakenOften(sudokuarray[c])
        /\ usedArray' = usedArray \cup {c}
        /\ countArray' = [countArray EXCEPT ![sudokuarray[c]] = @ + 1]
        /\ sudokuarray' = [sudokuarray EXCEPT ![c] = 0]
  BY DEF Blank
<1> DEFINE b == sudokuarray
           e == sudokuarray[c]
<1>2. /\ phase = "blank" /\ phase' = phase /\ turn < Blanks /\ turn' = turn + 1 /\ turn \in Nat
      /\ b \in Board /\ Consistent(b) /\ Counted /\ Drawn /\ countArray \in [Digit -> Nat]
      /\ usedArray \subseteq Cells
  BY DEF Blank, GeneratorInv
<1>3. c \in Cells /\ e # 0 /\ e \in Digit
  BY <1>1, <1>2 DEF Drawn, Board
<1>4. 0 \notin Digit /\ D \in Nat
  BY Depth DEF Digit, D
<1>5. /\ b' \in Board /\ b'[c] = 0
      /\ \A d \in Cells : d # c => b'[d] = b[d]
  BY <1>1, <1>2, <1>3 DEF Board
<1>6. /\ countArray' \in [Digit -> Nat] /\ countArray'[e] = countArray[e] + 1
      /\ \A d \in Digit : d # e => countArray'[d] = countArray[d]
  BY <1>1, <1>2, <1>3
<1>7. countArray[e] < D - 1 /\ countArray[e] \in Nat
  BY <1>1, <1>2, <1>3, <1>4 DEF TakenOften, D
<1> HIDE DEF e
<1>8. Consistent(b')
  <2> SUFFICES ASSUME NEW x \in Cells, NEW y \in Cells, Related(x, y), b'[x] # 0
               PROVE  b'[x] # b'[y]
    BY DEF Consistent
  <2>1. x # c /\ b'[x] = b[x] /\ b[x] # b[y]
    BY <1>2, <1>5 DEF Consistent
  <2> QED
    BY <1>5, <2>1
<1>9. Counted'
  <2>1. ASSUME NEW d \in Digit
        PROVE  /\ IsFiniteSet(CellsWith(b', d))
               /\ Cardinality(CellsWith(b', d)) = D - countArray'[d]
               /\ countArray'[d] <= D - 1
    <3>1. /\ IsFiniteSet(CellsWith(b, d)) /\ Cardinality(CellsWith(b, d)) = D - countArray[d]
          /\ countArray[d] <= D - 1 /\ countArray[d] \in Nat
      BY <1>2 DEF Counted
    <3>2. CASE d = e
      <4>1. CellsWith(b', d) = CellsWith(b, d) \ {c} /\ c \in CellsWith(b, d)
        BY <1>3, <1>4, <1>5, <3>2 DEF CellsWith, e
      <4>2. /\ IsFiniteSet(CellsWith(b', d))
            /\ Cardinality(CellsWith(b', d)) = Cardinality(CellsWith(b, d)) - 1
        BY <3>1, <4>1, FS_RemoveElement
      <4> QED
        BY <1>4, <1>6, <1>7, <3>1, <3>2, <4>2
    <3>3. CASE d # e
      <4>1. CellsWith(b', d) = CellsWith(b, d)
        BY <1>4, <1>5, <3>3 DEF CellsWith, e
      <4> QED
        BY <1>6, <3>1, <3>3, <4>1
    <3> QED
      BY <3>2, <3>3
  <2>2. /\ IsFiniteSet(Filled(b)) /\ Cardinality(Filled(b)) = D * D - turn
    BY <1>2 DEF Counted
  <2>3. Filled(b') = Filled(b) \ {c} /\ c \in Filled(b)
    BY <1>3, <1>5 DEF Filled, e
  <2>4. IsFiniteSet(Filled(b')) /\ Cardinality(Filled(b')) = D * D - turn - 1
    BY <2>2, <2>3, FS_RemoveElement
  <2>5. turn' <= Blanks /\ D * D - turn - 1 = D * D - turn'
    BY <1>2, BlanksBound
  <2> QED
    BY <1>2, <2>1, <2>4, <2>5 DEF Counted
<1>10. Drawn'
  <2> SUFFICES ASSUME NEW d \in Cells
               PROVE  IF d \in usedArray' THEN b'[d] = 0 \/ TakenOften(b[d])' ELSE b'[d] # 0
    BY DEF Drawn
  <2>1. CASE d = c
    BY <1>1, <1>5, <2>1
  <2>2. CASE d # c
    <3>1. b'[d] = b[d] /\ (d \in usedArray' <=> d \in usedArray) /\ b[d] \in Digit \cup {0}
      BY <1>1, <1>2, <1>5, <2>2 DEF Board
    <3>2. b[d] \in Digit /\ TakenOften(b[d]) => countArray'[b[d]] >= SUDOKU_DEPTH - 1
      BY <1>2, <1>4, <1>6, <1>7 DEF TakenOften, D
    <3>3. IF d \in usedArray THEN b[d] = 0 \/ TakenOften(b[d]) ELSE b[d] # 0
      BY <1>2 DEF Drawn
    <3> QED
      BY <3>1, <3>2, <3>3 DEF TakenOften
  <2> QED
    BY <2>1, <2>2
<1>11. Shuffled'
  BY <1>2 DEF Shuffled
<1> QED
  BY <1>1, <1>2, <1>3, <1>5, <1>6, <1>8, <1>9, <1>10, <1>11 DEF GeneratorInv

LEMMA KeepInv ==
  ASSUME GeneratorInv, Keep
  PROVE  GeneratorInv'
<1>1. PICK c \in Cells \ usedArray : TakenOften(sudokuarray[c]) /\ usedArray' = usedArray \cup {c}
  BY DEF Keep
<1>2. /\ phase = "blank" /\ phase' = phase /\ turn' = turn
      /\ sudokuarray' = sudokuarray /\ countArray' = countArray
  BY DEF Keep
<1>3. Counted' /\ Shuffled'
  BY <1>2 DEF GeneratorInv, Counted, Shuffled
<1>4. Drawn'
  BY <1>1, <1>2 DEF GeneratorInv, Drawn, TakenOften
<1> QED
  BY <1>1, <1>2, <1>3, <1>4 DEF GeneratorInv, Consistent

LEMMA EndBlankInv ==
  ASSUME GeneratorInv, EndBlank
  PROVE  GeneratorInv'
<1>1. /\ phase = "blank" /\ turn = Blanks /\ phase' = "test"
      /\ UNCHANGED << sudokuarray, turn, usedArray, countArray >>
  BY DEF EndBlank
<1>2. Counted' /\ Shuffled'
  BY <1>1 DEF GeneratorInv, Counted, Shuffled
<1>3. Drawn'
  BY <1>1 DEF GeneratorInv, Drawn, TakenOften
<1> QED
  BY <1>1, <1>2, <1>3 DEF GeneratorInv, Consistent

LEMMA GeneratorStepInv ==
  ASSUME GeneratorInv, GeneratorStep
  PROVE  GeneratorInv'
BY ShuffleInv, EndShuffleInv, BlankInv, KeepInv, EndBlankInv DEF GeneratorStep

\* Were there no cell left to blank, one cell of each digit would be all that is
\* left, and so fewer digits than are wanted.
LEMMA CellLeftByInv ==
  ASSUME GeneratorInv
  PROVE  CellLeft
<1> SUFFICES ASSUME phase = "blank", turn < Blanks,
                    \A c \in Cells \ usedArray : TakenOften(sudokuarray[c])
             PROVE  FALSE
  BY DEF CellLeft
<1> DEFINE b == sudokuarray
<1>1. b \in Board /\ Counted /\ Drawn /\ turn \in Nat /\ countArray \in [Digit -> Nat]
  BY DEF GeneratorInv
<1>2. ASSUME NEW c \in Filled(b)
      PROVE  b[c] \in Digit /\ Cardinality(CellsWith(b, b[c])) = 1
  <2>1. c \in Cells /\ b[c] # 0 /\ b[c] \in Digit
    BY <1>1 DEF Filled, Board
  <2>2. TakenOften(b[c])
    BY <1>1, <2>1 DEF Drawn
  <2>3. /\ countArray[b[c]] \in Nat /\ countArray[b[c]] <= D - 1
        /\ Cardinality(CellsWith(b, b[c])) = D - countArray[b[c]]
    BY <1>1, <2>1 DEF Counted
  <2>4. countArray[b[c]] = D - 1
    BY <2>2, <2>3, Depth DEF TakenOften, D
  <2> QED
    BY <2>1, <2>3, <2>4, Depth
<1> DEFINE digit == [c \in Filled(b) |-> b[c]]
<1>3. digit \in [Filled(b) -> Digit]
  BY <1>2
<1>4. \A c, d \in Filled(b) : digit[c] = digit[d] => c = d
  <2> SUFFICES ASSUME NEW c \in Filled(b), NEW d \in Filled(b), b[c] = b[d]
               PROVE  c = d
    OBVIOUS
  <2>1. c \in CellsWith(b, b[c]) /\ d \in CellsWith(b, b[c])
    BY DEF CellsWith, Filled
  <2>2. IsFiniteSet(CellsWith(b, b[c])) /\ Cardinality(CellsWith(b, b[c])) = 1
    BY <1>1, <1>2 DEF Counted
  <2>3. PICK x : CellsWith(b, b[c]) = {x}
    BY <2>2, FS_Singleton
  <2> QED
    BY <2>1, <2>3
<1> HIDE DEF digit
<1>5. Cardinality(Filled(b)) <= D
  BY <1>3, <1>4, Fun_IsInj, FS_Injection, Sizes
<1>6. Cardinality(Filled(b)) = D * D - turn
  BY <1>1 DEF Counted
<1> QED
  BY <1>1, <1>5, <1>6, BlanksBound, Depth

-----------------------------------------------------------------------------
(***************************************************************************)
(* The program                                                             *)
(***************************************************************************)
\* While a puzzle is made no test is under way.
Apart ==
  /\ phase # "idle" => main = "done" /\ Fresh
  /\ phase = "done" => result = 1
  /\ tests \in Nat

Inv == TestInv /\ GeneratorInv /\ Apart

LEMMA InitInv == Init => Inv
BY TestInitInv, GeneratorInitInv DEF Init, Inv, Apart, GeneratorInit

LEMMA TestingInv ==
  ASSUME Inv, TestStep, UNCHANGED << generatorVars, tests >>
  PROVE  Inv'
<1>1. phase = "idle"
  <2> SUFFICES ASSUME main = "done", \A t \in Thread : pc[t] = "new" PROVE FALSE
    BY DEF Inv, Apart, Fresh, GeneratorInv
  <2> QED
    BY DEF TestStep, testNumberArrays, Skip, Create, Join, Collect, EndLoop, thread, TestArray, Tested
<1>2. TestInv'
  BY TestStepInv DEF Inv
<1>3. GeneratorInv'
  BY DEF Inv, GeneratorInv, generatorVars, Consistent, Shuffled, Counted, Drawn, TakenOften
<1> QED
  BY <1>1, <1>2, <1>3 DEF Inv, Apart, generatorVars

LEMMA CallsInv ==
  ASSUME Inv, TestGiven \/ TestInput \/ Generate
  PROVE  Inv'
<1>1. /\ phase = "idle" /\ GeneratorInv /\ tests \in Nat
      /\ UNCHANGED << sudokuarray, turn, usedArray, countArray >>
  BY DEF Inv, Apart, Idle, TestGiven, TestInput, Generate, generatorVars
<1>2. CASE TestGiven \/ TestInput
  <2>1. phase' = phase /\ tests' \in Nat
    BY <1>1, <1>2 DEF TestGiven, TestInput, generatorVars
  <2>2. TestInv'
    <3>1. CASE TestGiven
      <4>1. tests + 1 \in 1 .. Len(Given) /\ testSudokuString(Given[tests + 1])
        BY <1>1, <3>1, BoardsAssumption DEF TestGiven
      <4>2. Given[tests + 1] \in Board
        BY <4>1, BoardsAssumption
      <4> QED
        BY <4>1, <4>2, CallInv
    <3>2. CASE TestInput
      BY <3>2, CallInv, WrongLengthInv, BoardsAssumption DEF TestInput
    <3> QED
      BY <1>2, <3>1, <3>2
  <2>3. GeneratorInv'
    BY <1>1, <2>1 DEF GeneratorInv, Consistent, Shuffled, Counted, Drawn, TakenOften
  <2> QED
    BY <1>1, <2>1, <2>2, <2>3 DEF Inv, Apart
<1>3. CASE Generate
  <2>1. WrongLength /\ NewArrays /\ phase' = "shuffle" /\ tests' = tests
    BY <1>3 DEF Generate, WrongLength
  <2>2. TestInv' /\ main' = "done" /\ Fresh'
    BY <2>1, WrongLengthInv, NewArraysFresh
  <2>3. GeneratorInv'
    BY <1>1, <2>1, CalledInv
  <2> QED
    BY <1>1, <2>1, <2>2, <2>3 DEF Inv, Apart
<1> QED
  BY <1>2, <1>3

LEMMA GeneratingInv ==
  ASSUME Inv, GeneratorStep, UNCHANGED << testVars, tests >>
  PROVE  Inv'
<1>1. GeneratorInv'
  BY GeneratorStepInv DEF Inv
<1>2. phase # "idle" /\ phase' # "done"
  BY DEF GeneratorStep, Shuffle, EndShuffle, Blank, Keep, EndBlank
<1>3. UNCHANGED << main, i, kind, pc, line, board, isValid, isTested, result >>
  BY DEF testVars
<1>4. TestTypeOK' /\ Loops' /\ Findings' /\ Judged'
  BY <1>3 DEF Inv, TestInv, TestTypeOK, Loops, Passed, Findings, Found, Noticed, Ahead, Judged
<1> QED
  BY <1>1, <1>2, <1>3, <1>4 DEF Inv, TestInv, Apart, Fresh

LEMMA TestPuzzleInv ==
  ASSUME Inv, TestPuzzle
  PROVE  Inv'
<1>1. /\ phase = "test" /\ phase' = "done" /\ board' = sudokuarray /\ result' = Verdict(sudokuarray)
      /\ UNCHANGED << main, i, kind, pc, line, isValid, isTested >>
      /\ UNCHANGED << sudokuarray, turn, usedArray, countArray, tests >>
  BY DEF TestPuzzle
<1>2. main = "done" /\ Fresh /\ GeneratorInv /\ TestInv /\ tests \in Nat
  BY <1>1 DEF Inv, Apart
<1>3. GeneratorInv'
  BY <1>1, <1>2, CalledInv
<1>4. Fresh'
  BY <1>1, <1>2 DEF Fresh
<1>5. Verdict(sudokuarray) = 1
  BY <1>2 DEF GeneratorInv, Verdict
<1>6. TestTypeOK'
  BY <1>1, <1>2, <1>5 DEF TestInv, TestTypeOK, GeneratorInv
<1>7. Loops'
  BY <1>1, <1>2 DEF TestInv, Loops
<1>8. Findings'
  BY <1>4, FreshFindingsNext
<1>9. Judged'
  BY <1>1 DEF Judged
<1> QED
  BY <1>1, <1>2, <1>3, <1>4, <1>5, <1>6, <1>7, <1>8, <1>9 DEF Inv, TestInv, Apart

\* The inductive invariant: how far the loops of the test and its threads have come,
\* that no duplicate is lost, and what the generator has counted.
THEOREM Invariance == Spec => []Inv
<1>1. ASSUME Inv, [Next]_vars
      PROVE  Inv'
  <2>1. CASE UNCHANGED vars
    <3>1. /\ UNCHANGED << main, i, kind, pc, line, board, isValid, isTested, result >>
          /\ UNCHANGED << phase, sudokuarray, turn, usedArray, countArray, tests >>
      BY <2>1 DEF vars, testVars, generatorVars
    <3>2. TestTypeOK' /\ Loops' /\ Findings' /\ Judged'
      BY <1>1, <3>1 DEF Inv, TestInv, TestTypeOK, Loops, Passed, Findings, Found, Noticed, Ahead, Judged
    <3>3. GeneratorInv'
      BY <1>1, <3>1 DEF Inv, GeneratorInv, Consistent, Shuffled, Counted, Drawn, TakenOften
    <3> QED
      BY <1>1, <3>1, <3>2, <3>3 DEF Inv, TestInv, Apart, Fresh
  <2>2. CASE Next
    BY <1>1, <2>1, <2>2, TestingInv, CallsInv, GeneratingInv, TestPuzzleInv DEF Next, Over
  <2> QED
    BY <1>1, <2>1, <2>2
<1> QED
  BY InitInv, <1>1, PTL DEF Spec

\* The result of the test is that of the rule of the game, for any board and any
\* numbers of threads (sudoku.c:46-102, 205-327).
THEOREM VerdictRight == Spec => []ResultRight
<1>1. Inv => ResultRight
  BY DEF Inv, TestInv, Judged, ResultRight, Verdict
<1> QED
  BY Invariance, <1>1, PTL

\* Nothing is freed while a thread reads it, also when the result was found early
\* (sudoku.c:96, 258-261).
THEOREM FreedSafely == Spec => []FreedUnused
<1>1. Inv => FreedUnused
  BY DEF Inv, TestInv, Loops, FreedUnused
<1> QED
  BY Invariance, <1>1, PTL

\* There is a cell to blank as long as one is to be blanked, for any number of
\* digits to be left that is no less than the digits there are (sudoku.c:129-136).
THEOREM AlwaysCellLeft == Spec => []CellLeft
<1>1. Inv => CellLeft
  BY CellLeftByInv DEF Inv
<1> QED
  BY Invariance, <1>1, PTL

\* The puzzle has the wanted number of digits, each of them somewhere, and the
\* test finds it correct after any shuffle (sudoku.c:105-200).
THEOREM PuzzleCorrect == Spec => []PuzzleRight
<1>1. Inv => PuzzleRight
  <2> SUFFICES ASSUME Inv, phase = "done"
               PROVE  /\ Cardinality({c \in Cells : sudokuarray[c] # 0}) = Count
                      /\ \A d \in Digit : \E c \in Cells : sudokuarray[c] = d
                      /\ result = 1
    BY DEF PuzzleRight
  <2>1. Counted /\ turn = Blanks /\ result = 1 /\ countArray \in [Digit -> Nat]
    BY DEF Inv, Apart, GeneratorInv, Counted
  <2>2. Cardinality(Filled(sudokuarray)) = Count
    <3>1. Cardinality(Filled(sudokuarray)) = D * D - Blanks
      BY <2>1 DEF Counted
    <3>2. Count \in Int
      BY CountAssumption, Depth DEF D
    <3> QED
      BY <3>1, <3>2, BlanksBound
  <2>3. ASSUME NEW d \in Digit
        PROVE  \E c \in Cells : sudokuarray[c] = d
    <3>1. /\ IsFiniteSet(CellsWith(sudokuarray, d))
          /\ Cardinality(CellsWith(sudokuarray, d)) = D - countArray[d]
          /\ countArray[d] <= D - 1 /\ countArray[d] \in Nat
      BY <2>1 DEF Counted
    <3>2. Cardinality(CellsWith(sudokuarray, d)) # 0
      BY <3>1, Depth
    <3>3. CellsWith(sudokuarray, d) # {}
      BY <3>2, FS_EmptySet
    <3> QED
      BY <3>3 DEF CellsWith
  <2> QED
    BY <2>1, <2>2, <2>3 DEF Filled
<1> QED
  BY Invariance, <1>1, PTL
=============================================================================
