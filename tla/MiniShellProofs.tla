---------------------------- MODULE MiniShellProofs ----------------------------
(***************************************************************************)
(* Proofs about MiniShell, for every set of words, lines, directories and  *)
(* programs, any PATH, and any number of children.                         *)
(***************************************************************************)
EXTENDS MiniShell, SequenceTheorems, FiniteSetTheorems, WellFoundedInduction, TLAPS

-----------------------------------------------------------------------------
(***************************************************************************)
(* readCommand                                                             *)
(***************************************************************************)
\* argv holds the first m words of a line, and a null behind them.
Holds(c, words, m) ==
  /\ c \in command_t
  /\ c.argc = m
  /\ m \in 1 .. Len(words)
  /\ \A k \in 0 .. m - 1 : c.argv[k] = words[k + 1]
  /\ c.argv[m] = NULL

\* Neither null pointer nor leftover is a word.
LEMMA NullIsNoWord == NULL \notin Word
BY WordAssumption

\* parseCommand stores all the words (readCommand.c:125-151).
LEMMA ParseHolds ==
  ASSUME NEW c \in command_t, NEW words, IsLine(words), Readable(words)
  PROVE  Holds(parseCommand(words, c), words, Len(words))
<1> DEFINE n == Len(words)
           cells == [k \in DOMAIN c.argv |->
                       IF k < n THEN words[k + 1] ELSE IF k <= n + 1 THEN NULL ELSE c.argv[k]]
<1>1. words \in Seq(Word) /\ n \in 1 .. MAX_ARGS - 2
  <2>1. n # 0
    BY EmptySeq DEF IsLine, Readable
  <2> QED
    BY <2>1, MaxArgsAssumption DEF IsLine
<1>2. \A k \in 1 .. n : words[k] \in Word
  BY <1>1, LenProperties
<1>3. c.argv \in [0 .. MAX_ARGS - 1 -> Word \cup {NULL, Leftover}]
  BY DEF command_t
<1>4. cells \in [0 .. MAX_ARGS - 1 -> Word \cup {NULL, Leftover}]
  BY <1>1, <1>2, <1>3, MaxArgsAssumption
<1>5. /\ \A k \in 0 .. n - 1 : cells[k] = words[k + 1]
      /\ cells[n] = NULL
  BY <1>1, <1>3, MaxArgsAssumption
<1>6. parseCommand(words, c) = [c EXCEPT !.argc = n, !.argv = cells]
  BY DEF parseCommand
<1> HIDE DEF cells
<1>7. /\ parseCommand(words, c) \in command_t
      /\ parseCommand(words, c).argc = n
      /\ parseCommand(words, c).argv = cells
  <2>1. n \in 0 .. MAX_ARGS - 2
    BY <1>1, MaxArgsAssumption
  <2>2. /\ c.runsInBackground \in BOOLEAN /\ c.redirectFileName \in Word \cup {NULL}
        /\ c = [argc |-> c.argc, argv |-> c.argv, runsInBackground |-> c.runsInBackground,
                redirectFileName |-> c.redirectFileName]
    BY DEF command_t
  <2>3. parseCommand(words, c) = [argc |-> n, argv |-> cells, runsInBackground |-> c.runsInBackground,
                                  redirectFileName |-> c.redirectFileName]
    BY <1>6, <2>2
  <2> QED
    BY <1>4, <2>1, <2>2, <2>3 DEF command_t
<1> QED
  BY <1>1, <1>5, <1>7 DEF Holds

\* deleteLastArgument takes the last word off (readCommand.c:75-83).
LEMMA DeleteHolds ==
  ASSUME NEW words, Len(words) \in Nat, NEW m, m >= 2, NEW c, Holds(c, words, m)
  PROVE  /\ Holds(deleteLastArgument(c), words, m - 1)
         /\ deleteLastArgument(c).runsInBackground = c.runsInBackground
         /\ deleteLastArgument(c).redirectFileName = c.redirectFileName
<1> DEFINE d == deleteLastArgument(c)
<1>1. /\ c \in command_t /\ c.argc = m /\ m \in 2 .. Len(words) /\ m <= MAX_ARGS - 2
      /\ c.argv \in [0 .. MAX_ARGS - 1 -> Word \cup {NULL, Leftover}]
  BY MaxArgsAssumption DEF Holds, command_t
<1>2. /\ d.argc = m - 1
      /\ d.argv = [c.argv EXCEPT ![m - 1] = NULL]
      /\ d.runsInBackground = c.runsInBackground
      /\ d.redirectFileName = c.redirectFileName
      /\ d \in command_t
  <2> DEFINE cells == [c.argv EXCEPT ![m - 1] = NULL]
  <2>1. cells \in [0 .. MAX_ARGS - 1 -> Word \cup {NULL, Leftover}]
    BY <1>1
  <2>2. d = [c EXCEPT !.argv = cells, !.argc = m - 1]
    BY <1>1 DEF deleteLastArgument
  <2> HIDE DEF cells, d
  <2>3. m - 1 \in 0 .. MAX_ARGS - 2
    BY <1>1, MaxArgsAssumption
  <2>4. d.argc = m - 1 /\ d.argv = cells /\ d \in command_t
    BY <1>1, <2>1, <2>2, <2>3 DEF command_t
  <2>5. d.runsInBackground = c.runsInBackground /\ d.redirectFileName = c.redirectFileName
    BY <1>1, <2>2 DEF command_t
  <2> QED
    BY <2>4, <2>5 DEF cells
<1> HIDE DEF d
<1>3. /\ \A k \in 0 .. m - 2 : d.argv[k] = words[k + 1]
      /\ d.argv[m - 1] = NULL
  BY <1>1, <1>2, MaxArgsAssumption DEF Holds
<1> QED
  BY <1>1, <1>2, <1>3 DEF Holds, d

\* execv gets the words that argv holds.
LEMMA ArgumentsHeld ==
  ASSUME NEW words \in Seq(Word), NEW m, NEW c, Holds(c, words, m)
  PROVE  Arguments(c) = SubSeq(words, 1, m)
<1> DEFINE nulls == {k \in DOMAIN c.argv : c.argv[k] = NULL}
           end   == CHOOSE k \in nulls : \A l \in nulls : k <= l
<1>1. /\ m \in 1 .. Len(words) /\ m <= MAX_ARGS - 2
      /\ DOMAIN c.argv = 0 .. MAX_ARGS - 1
  BY MaxArgsAssumption DEF Holds, command_t
<1>2. \A k \in 1 .. Len(words) : words[k] \in Word
  BY LenProperties
<1>3. \A k \in 0 .. m - 1 : c.argv[k] = words[k + 1] /\ c.argv[k] # NULL
  BY <1>1, <1>2, NullIsNoWord DEF Holds
<1>4. m \in nulls /\ \A k \in nulls : m <= k
  <2>1. m \in 0 .. MAX_ARGS - 1 /\ c.argv[m] = NULL
    BY <1>1, MaxArgsAssumption DEF Holds
  <2>2. \A k \in 0 .. MAX_ARGS - 1 : k < m => k \in 0 .. m - 1
    BY <1>1, MaxArgsAssumption
  <2> QED
    BY <1>1, <1>3, <2>1, <2>2, MaxArgsAssumption
<1>5. nulls \subseteq Int
  BY <1>1
<1>6. end = m
  <2> HIDE DEF nulls
  <2>1. end \in nulls /\ \A l \in nulls : end <= l
    BY <1>4
  <2> HIDE DEF end
  <2> QED
    BY <1>4, <1>5, <2>1
<1>7. Arguments(c) = [k \in 1 .. m |-> c.argv[k - 1]]
  BY <1>6 DEF Arguments
<1>8. [k \in 1 .. m |-> c.argv[k - 1]] = [k \in 1 .. m |-> words[k]]
  BY <1>1, <1>3
<1> DEFINE taken == [k \in 1 .. m |-> words[k]]
<1>9. taken \in Seq(Word) /\ Len(taken) = m
  BY <1>1, <1>2
<1>10. /\ SubSeq(words, 1, m) \in Seq(Word)
       /\ Len(SubSeq(words, 1, m)) = m
       /\ \A k \in 1 .. m : SubSeq(words, 1, m)[k] = words[k]
  BY <1>1, <1>2, SubSeqProperties
<1>11. taken = SubSeq(words, 1, m)
  <2>1. \A k \in 1 .. m : taken[k] = words[k]
    OBVIOUS
  <2> HIDE DEF taken
  <2> QED
    BY <2>1, <1>9, <1>10, SeqEqual
<1> QED
  BY <1>7, <1>8, <1>11

\* Cutting two words off: the word and its sign.
LEMMA LastTwo ==
  ASSUME NEW words \in Seq(Word), NEW m \in 2 .. Len(words)
  PROVE  SubSeq(words, 1, m) = SubSeq(words, 1, m - 2) \o << words[m - 1], words[m] >>
<1> DEFINE front == SubSeq(words, 1, m - 2)
           back  == << words[m - 1], words[m] >>
<1>1. Len(words) \in Nat /\ \A k \in 1 .. Len(words) : words[k] \in Word
  BY LenProperties
<1>2. /\ SubSeq(words, 1, m) \in Seq(Word)
      /\ Len(SubSeq(words, 1, m)) = m
      /\ \A k \in 1 .. m : SubSeq(words, 1, m)[k] = words[k]
  BY <1>1, SubSeqProperties
<1>3. /\ front \in Seq(Word)
      /\ Len(front) = m - 2
      /\ \A k \in 1 .. m - 2 : front[k] = words[k]
  BY <1>1, SubSeqProperties
<1>4. back \in Seq(Word) /\ Len(back) = 2 /\ back[1] = words[m - 1] /\ back[2] = words[m]
  BY <1>1
<1> HIDE DEF front, back
<1>5. /\ front \o back \in Seq(Word)
      /\ Len(front \o back) = m
      /\ \A k \in 1 .. m : (front \o back)[k] = IF k <= m - 2 THEN front[k] ELSE back[k - (m - 2)]
  <2>1. m \in Int /\ m - 2 + 2 = m
    BY <1>1
  <2>2. /\ front \o back \in Seq(Word)
        /\ Len(front \o back) = Len(front) + Len(back)
        /\ \A k \in 1 .. Len(front) + Len(back) :
             (front \o back)[k] = IF k <= Len(front) THEN front[k] ELSE back[k - Len(front)]
    BY <1>3, <1>4, ConcatProperties
  <2> QED
    BY <2>1, <2>2, <1>3, <1>4
<1>6. \A k \in 1 .. m : (front \o back)[k] = words[k]
  <2> SUFFICES ASSUME NEW k \in 1 .. m PROVE (front \o back)[k] = words[k]
    OBVIOUS
  <2>1. k <= m - 2 \/ k = m - 1 \/ k = m
    OBVIOUS
  <2> QED
    BY <2>1, <1>3, <1>4, <1>5
<1> QED
  BY <1>2, <1>5, <1>6, SeqEqual DEF front, back

\* What is known of a command that readCommand has returned 1 for: it is the line,
\* with what was cut off its end put back.
Parsed(words, c) ==
  /\ IsLine(words)
  /\ Readable(words)
  /\ \E m \in 1 .. Len(words) :
       /\ Holds(c, words, m)
       /\ Typed(SubSeq(words, 1, m), c.redirectFileName, c.runsInBackground) = words

\* The two checks cut off what they note (readCommand.c:33-68).
LEMMA ReadCommandParses ==
  ASSUME NEW c \in command_t, NEW words, IsLine(words), Readable(words)
  PROVE  Parsed(words, readCommand(words, c))
<1> DEFINE n == Len(words)
           p == parseCommand(words, c)
           b == checkAndSetRunsInBackground(p)
           r == checkAndSetRedirect(b)
<1>1. words \in Seq(Word) /\ n \in Nat /\ n <= MAX_ARGS - 2
  BY LenProperties, MaxArgsAssumption DEF IsLine
<1>2. Holds(p, words, n)
  BY ParseHolds
<1>3. \E m \in 1 .. n :
        /\ Holds(b, words, m)
        /\ b.runsInBackground \in BOOLEAN
        /\ b.runsInBackground => m = n - 1 /\ words[n] = "&"
        /\ ~ b.runsInBackground => m = n
  <2>1. p.argc = n /\ p \in command_t /\ n \in 1 .. n /\ \A k \in 0 .. n - 1 : p.argv[k] = words[k + 1]
    BY <1>1, <1>2 DEF Holds
  <2>2. CASE n >= 2 /\ words[n] = "&"
    <3> DEFINE d == deleteLastArgument(p)
    <3>1. Holds(d, words, n - 1) /\ n - 1 \in 1 .. n
      BY <1>1, <1>2, <2>2, DeleteHolds
    <3>2. b = [d EXCEPT !.runsInBackground = TRUE]
      BY <1>1, <2>1, <2>2 DEF checkAndSetRunsInBackground
    <3> HIDE DEF d, b
    <3>3. Holds(b, words, n - 1) /\ b.runsInBackground = TRUE
      BY <3>1, <3>2 DEF Holds, command_t
    <3> QED
      BY <3>1, <3>3, <2>2
  <2>3. CASE ~ (n >= 2 /\ words[n] = "&")
    <3>1. b = [p EXCEPT !.runsInBackground = FALSE]
      BY <1>1, <2>1, <2>3 DEF checkAndSetRunsInBackground
    <3> HIDE DEF p, b
    <3>2. Holds(b, words, n) /\ b.runsInBackground = FALSE
      BY <1>2, <3>1 DEF Holds, command_t
    <3> QED
      BY <2>1, <3>2
  <2> QED
    BY <2>2, <2>3
<1>4. PICK m \in 1 .. n :
        /\ Holds(b, words, m)
        /\ b.runsInBackground \in BOOLEAN
        /\ b.runsInBackground => m = n - 1 /\ words[n] = "&"
        /\ ~ b.runsInBackground => m = n
  BY <1>3
<1>5. SubSeq(words, 1, m) \o (IF b.runsInBackground THEN << "&" >> ELSE << >>) = words
  <2>1. SubSeq(words, 1, n) = words
    BY <1>1, SubSeqFull
  <2>2. CASE b.runsInBackground
    BY <1>1, <1>4, <2>1, <2>2, SubSeqRecursiveSecond
  <2>3. CASE ~ b.runsInBackground
    BY <1>1, <1>4, <2>1, <2>3, ConcatEmptySeq
  <2> QED
    BY <2>2, <2>3, <1>4
<1> HIDE DEF p
<1>6. \E l \in 1 .. n :
        /\ Holds(r, words, l)
        /\ r.runsInBackground = b.runsInBackground
        /\ r.redirectFileName # NULL => l = m - 2 /\ words[m - 1] = ">" /\ words[m] = r.redirectFileName
        /\ r.redirectFileName = NULL => l = m
  <2>1. b.argc = m /\ b \in command_t /\ \A k \in 0 .. m - 1 : b.argv[k] = words[k + 1]
    BY <1>4 DEF Holds
  <2>2. CASE m >= 3 /\ words[m - 1] = ">"
    <3> DEFINE d == deleteLastArgument(deleteLastArgument(b))
    <3>1. Holds(d, words, m - 2) /\ m - 2 \in 1 .. n /\ d.runsInBackground = b.runsInBackground
      <4> HIDE DEF b
      <4>1. m >= 2 /\ m - 1 >= 2 /\ m - 1 - 1 = m - 2 /\ m - 2 \in 1 .. n /\ Len(words) \in Nat
        BY <1>1, <2>2
      <4>2. Holds(b, words, m)
        BY <1>4
      <4>3. /\ Holds(deleteLastArgument(b), words, m - 1)
            /\ deleteLastArgument(b).runsInBackground = b.runsInBackground
        BY <4>1, <4>2, DeleteHolds
      <4> QED
        BY <4>1, <4>3, DeleteHolds
    <3>2. r = [d EXCEPT !.redirectFileName = words[m]]
      <4> HIDE DEF b
      <4>1. /\ m - 2 \in 0 .. m - 1 /\ m - 1 \in 0 .. m - 1
            /\ (m - 2) + 1 = m - 1 /\ (m - 1) + 1 = m
        BY <1>1, <2>2
      <4>2. b.argc >= 3 /\ b.argv[b.argc - 2] = ">" /\ b.argv[b.argc - 1] = words[m]
        BY <2>1, <2>2, <4>1
      <4>3. r = [d EXCEPT !.redirectFileName = b.argv[b.argc - 1]]
        BY <4>2 DEF checkAndSetRedirect
      <4> QED
        BY <4>2, <4>3
    <3>3. words[m] \in Word /\ words[m] # NULL
      BY <1>1, LenProperties, NullIsNoWord
    <3> HIDE DEF d, r
    <3>4. /\ Holds(r, words, m - 2)
          /\ r.redirectFileName = words[m]
          /\ r.runsInBackground = b.runsInBackground
      BY <3>1, <3>2, <3>3 DEF Holds, command_t
    <3> QED
      BY <3>1, <3>3, <3>4, <2>2
  <2>3. CASE ~ (m >= 3 /\ words[m - 1] = ">")
    <3>1. r = [b EXCEPT !.redirectFileName = NULL]
      <4> HIDE DEF b
      <4>1. m >= 3 => m - 2 \in 0 .. m - 1 /\ (m - 2) + 1 = m - 1
        BY <1>1
      <4>2. ~ (b.argc >= 3 /\ b.argv[b.argc - 2] = ">")
        BY <2>1, <2>3, <4>1
      <4> QED
        BY <4>2 DEF checkAndSetRedirect
    <3> HIDE DEF b, r
    <3>2. /\ Holds(r, words, m)
          /\ r.redirectFileName = NULL
          /\ r.runsInBackground = b.runsInBackground
      BY <1>4, <3>1 DEF Holds, command_t
    <3> QED
      BY <3>2
  <2> QED
    BY <2>2, <2>3
<1>7. PICK l \in 1 .. n :
        /\ Holds(r, words, l)
        /\ r.runsInBackground = b.runsInBackground
        /\ r.redirectFileName # NULL => l = m - 2 /\ words[m - 1] = ">" /\ words[m] = r.redirectFileName
        /\ r.redirectFileName = NULL => l = m
  BY <1>6
<1> DEFINE file == r.redirectFileName
<1>8. SubSeq(words, 1, m) = SubSeq(words, 1, l) \o (IF file = NULL THEN << >> ELSE << ">", file >>)
  <2>1. SubSeq(words, 1, l) \in Seq(Word)
    BY <1>1, LenProperties, SubSeqProperties
  <2>2. CASE file = NULL
    BY <1>7, <2>1, <2>2, ConcatEmptySeq
  <2>3. CASE file # NULL
    <3>1. m \in 2 .. n
      BY <1>1, <1>7, <2>3
    <3>2. SubSeq(words, 1, m) = SubSeq(words, 1, m - 2) \o << words[m - 1], words[m] >>
      BY <1>1, <3>1, LastTwo
    <3> QED
      BY <1>7, <2>3, <3>2
  <2> QED
    BY <2>2, <2>3
<1>9. Typed(SubSeq(words, 1, l), file, r.runsInBackground) = words
  BY <1>5, <1>7, <1>8 DEF Typed
<1>10. readCommand(words, c) = r
  BY DEF readCommand, p
<1> QED
  BY <1>7, <1>9, <1>10 DEF Parsed

\* A set of naturals that is not empty has a least element.
LEMMA LeastNatural ==
  ASSUME NEW S, S \subseteq Nat, S # {}
  PROVE  \E n \in S : \A m \in S : n <= m
<1> DEFINE Less == {pair \in Nat \X Nat : pair[1] < pair[2]}
<1>1. IsWellFoundedOn(Less, Nat)
  BY NatLessThanWellFounded DEF OpToRel
<1> HIDE DEF Less
<1>2. PICK n \in S : \A m \in S : ~ (<< m, n >> \in Less)
  BY <1>1, WFMin
<1>3. \A m \in S : ~ (m < n)
  BY <1>2 DEF Less
<1> QED
  BY <1>3

-----------------------------------------------------------------------------
(***************************************************************************)
(* lookupPath                                                              *)
(***************************************************************************)
\* A program that is found is in the first place that has it (lookupPath.c:14-26).
LEMMA LookupPathFirst ==
  ASSUME NEW name, NEW dir, lookupPath(name, dir) # NOT_FOUND
  PROVE  \E k \in DOMAIN Places :
           /\ lookupPath(name, dir) = Places[k]
           /\ checkFileInDir(Places[k], name, dir)
           /\ \A j \in 1 .. k - 1 : ~ checkFileInDir(Places[j], name, dir)
<1> DEFINE holding == {k \in 1 .. Len(Places) : checkFileInDir(Places[k], name, dir)}
           first   == Min(holding)
<1>1. DOMAIN Places = 1 .. Len(Places) /\ Len(Places) \in Nat
  BY DirAssumption, AppendProperties, LenProperties DEF Places
<1>2. SelectInSeq(Places, LAMBDA place : checkFileInDir(place, name, dir))
        = IF holding # {} THEN first ELSE 0
  BY DEF SelectInSeq
<1>3. holding # {}
  BY <1>2 DEF lookupPath
<1>4. first \in holding /\ \A k \in holding : first <= k
  <2>1. holding \subseteq Nat
    BY <1>1
  <2> HIDE DEF holding
  <2>2. \E k \in holding : \A l \in holding : k <= l
    BY <1>3, <2>1, LeastNatural
  <2> QED
    BY <2>2 DEF Min
<1>5. lookupPath(name, dir) = Places[first]
  BY <1>2, <1>3, <1>4 DEF lookupPath
<1> HIDE DEF first
<1>6. first \in DOMAIN Places /\ checkFileInDir(Places[first], name, dir)
  BY <1>1, <1>4
<1>7. \A j \in 1 .. first - 1 : ~ checkFileInDir(Places[j], name, dir)
  <2> SUFFICES ASSUME NEW j \in 1 .. first - 1, checkFileInDir(Places[j], name, dir) PROVE FALSE
    OBVIOUS
  <2>1. j \in 1 .. Len(Places) /\ j < first
    BY <1>1, <1>4
  <2> QED
    BY <1>4, <2>1
<1> QED
  BY <1>5, <1>6, <1>7

-----------------------------------------------------------------------------
(***************************************************************************)
(* The inductive invariant                                                 *)
(***************************************************************************)
\* A child that runs, or will, and what is left of one that has ended.
Started ==
  [state : {"forked", "opened", "runs"}, line : Seq(Word), stdout : Word \cup {Terminal},
   cwd : Dir, path : Dir \cup {Here}, arguments : Seq(Word), file : Word \cup {NULL},
   background : BOOLEAN]
Remains == [state : {"ended", "reaped"}, background : BOOLEAN]

TypeOK ==
  /\ main \in {"prompt", "external", "execute", "restore", "dispatch", "wait", "exit"}
  /\ command \in command_t
  /\ cwd \in Dir
  /\ child \in Seq(Started \cup Remains)

\* From the line to the next prompt the command is that of the line.
CommandParsed == main \notin {"prompt", "exit"} => Parsed(line, command)

\* The output of the shell is the terminal, except while it executes a command.
OutputRestored ==
  /\ main \in {"prompt", "external", "dispatch", "wait"} => stdout = Terminal
  /\ main \in {"execute", "restore"} =>
       /\ command.redirectFileName = NULL => stdout = Terminal
       /\ command.redirectFileName # NULL =>
            stdoutCopy = Terminal /\ stdout \in {Terminal, command.redirectFileName}

CdObeyed ==
  main = "restore" /\ command.argv[0] \in ChangesDir => cwd \in Led(Arguments(command))

\* A child was started as its line says.
AsTyped(started) ==
  /\ Typed(started.arguments, started.file, started.background) = started.line
  /\ started.stdout \in {Terminal} \cup ({started.file} \ {NULL})
  /\ FoundFirst(started)

ChildrenAsTyped == \A c \in DOMAIN child : child[c] \in Started => AsTyped(child[c])

\* Those that the shell has not waited for, and those it need not wait for.
Unreaped(children) == {c \in DOMAIN children : children[c].state # "reaped"}
Background(children) == {c \in DOMAIN children : children[c].background}

\* While the shell waits there may be one more.
Balance ==
  main # "exit" =>
    Cardinality(Unreaped(child))
      <= Cardinality(Background(child)) + (IF main = "wait" THEN 1 ELSE 0)

Inv == TypeOK /\ CommandParsed /\ OutputRestored /\ CdObeyed /\ ChildrenAsTyped /\ Balance

-----------------------------------------------------------------------------
LEMMA InitInv == Init => Inv
<1> SUFFICES ASSUME Init PROVE Inv
  OBVIOUS
<1>1. TypeOK
  BY MaxArgsAssumption, DirAssumption DEF Init, TypeOK, command_t
<1>2. Unreaped(child) = {} /\ Background(child) = {}
  BY DEF Init, Unreaped, Background
<1>3. Balance
  <2>1. main = "prompt"
    BY DEF Init
  <2> QED
    BY <1>2, <2>1, FS_EmptySet DEF Balance
<1> QED
  BY <1>1, <1>3 DEF Init, Inv, CommandParsed, OutputRestored, CdObeyed, ChildrenAsTyped

\* The two sets of children are finite.
LEMMA ChildrenFinite ==
  ASSUME TypeOK
  PROVE  /\ DOMAIN child = 1 .. Len(child) /\ Len(child) \in Nat
         /\ \A c \in DOMAIN child : child[c] \in Started \cup Remains
         /\ IsFiniteSet(Unreaped(child)) /\ Cardinality(Unreaped(child)) \in Nat
         /\ IsFiniteSet(Background(child)) /\ Cardinality(Background(child)) \in Nat
<1>1. /\ DOMAIN child = 1 .. Len(child) /\ Len(child) \in Nat
      /\ \A c \in DOMAIN child : child[c] \in Started \cup Remains
  BY LenProperties DEF TypeOK
<1>2. IsFiniteSet(DOMAIN child)
  BY <1>1, FS_Interval
<1>3. Unreaped(child) \in SUBSET DOMAIN child /\ Background(child) \in SUBSET DOMAIN child
  BY DEF Unreaped, Background
<1>4. IsFiniteSet(Unreaped(child)) /\ IsFiniteSet(Background(child))
  BY <1>2, <1>3, FS_Subset
<1> QED
  BY <1>1, <1>4, FS_CardinalityType

\* The first word of the line, and where a child's line comes from.
LEMMA FirstWord ==
  ASSUME Parsed(line, command)
  PROVE  /\ line \in Seq(Word)
         /\ command.argv[0] = line[1]
         /\ Typed(Arguments(command), command.redirectFileName, command.runsInBackground) = line
         /\ command.argv[command.argc] = NULL
         /\ Arguments(command) \in Seq(Word)
<1>1. line \in Seq(Word) /\ Len(line) \in Nat /\ \A k \in 1 .. Len(line) : line[k] \in Word
  BY LenProperties DEF Parsed, IsLine
<1>2. PICK m \in 1 .. Len(line) :
        /\ Holds(command, line, m)
        /\ Typed(SubSeq(line, 1, m), command.redirectFileName, command.runsInBackground) = line
  BY DEF Parsed
<1>3. Arguments(command) = SubSeq(line, 1, m)
  BY <1>1, <1>2, ArgumentsHeld
<1>4. SubSeq(line, 1, m) \in Seq(Word)
  BY <1>1, SubSeqProperties
<1>5. command.argv[0] = line[1] /\ command.argv[command.argc] = NULL
  BY <1>1, <1>2 DEF Holds
<1> QED
  BY <1>1, <1>2, <1>3, <1>4, <1>5

\* Where cd leads (externalCommands.c:51-85).
LEMMA ChangeDirectoryLeads ==
  ASSUME Parsed(line, command), cwd \in Dir, changeDirectory(command.argv[1])
  PROVE  cwd' \in Dir /\ cwd' \in Led(Arguments(command))
<1>1. line \in Seq(Word) /\ Len(line) \in Nat /\ \A k \in 1 .. Len(line) : line[k] \in Word
  BY LenProperties DEF Parsed, IsLine
<1>2. PICK m \in 1 .. Len(line) : Holds(command, line, m)
  BY DEF Parsed
<1>3. Arguments(command) = SubSeq(line, 1, m)
  BY <1>1, <1>2, ArgumentsHeld
<1>4. Len(SubSeq(line, 1, m)) = m /\ \A k \in 1 .. m : SubSeq(line, 1, m)[k] = line[k]
  BY <1>1, SubSeqProperties
<1>5. CASE m = 1
  <2>1. command.argv[1] = NULL
    BY <1>2, <1>5 DEF Holds
  <2> QED
    BY <1>3, <1>4, <1>5, <2>1, DirAssumption DEF changeDirectory, Led
<1>6. CASE m # 1
  <2>1. m \in 2 .. Len(line) /\ command.argv[1] = line[2] /\ line[2] # NULL
    BY <1>1, <1>2, <1>6, NullIsNoWord DEF Holds
  <2>2. Arguments(command)[2] = line[2] /\ Len(Arguments(command)) # 1
    BY <1>3, <1>4, <1>6, <2>1
  <2>3. \A word \in DOMAIN Named : Named[word] \in Dir
    BY DirAssumption
  <2> QED
    BY <2>1, <2>2, <2>3 DEF changeDirectory, Led
<1> QED
  BY <1>5, <1>6

-----------------------------------------------------------------------------
(***************************************************************************)
(* The steps of the shell that leave the children alone                    *)
(***************************************************************************)
\* Nothing to be shown about the children then.
LEMMA ChildrenAlone ==
  ASSUME Inv, UNCHANGED child, main # "exit", main # "wait"
  PROVE  ChildrenAsTyped' /\ Balance'
<1>1. ChildrenAsTyped'
  BY DEF Inv, ChildrenAsTyped
<1>2. Unreaped(child)' = Unreaped(child) /\ Background(child)' = Background(child)
  BY DEF Unreaped, Background
<1>3. Balance'
  BY <1>2, ChildrenFinite DEF Inv, Balance
<1> QED
  BY <1>1, <1>3

LEMMA ReadCommandInv ==
  ASSUME Inv, ReadCommand
  PROVE  Inv'
<1>1. PICK words \in Line :
        /\ line' = words
        /\ command' = readCommand(words, command)
        /\ main' = IF Readable(words) THEN "external" ELSE "prompt"
  BY DEF ReadCommand
<1>2. /\ main = "prompt" /\ stdout' = stdout /\ cwd' = cwd /\ child' = child
      /\ command \in command_t /\ stdout = Terminal
  BY DEF ReadCommand, Inv, TypeOK, OutputRestored
<1>3. IsLine(words)
  BY LineAssumption
<1>4. Readable(words) => Parsed(words, command')
  BY <1>1, <1>2, <1>3, ReadCommandParses
<1>5. command' \in command_t
  <2>1. CASE Readable(words)
    BY <1>4, <2>1 DEF Parsed, Holds
  <2>2. CASE ~ Readable(words) /\ words = << >>
    BY <1>1, <1>2, <2>2 DEF readCommand
  <2>3. CASE ~ Readable(words) /\ words # << >>
    <3>1. words[1] \in Word
      BY <1>3, <2>3, EmptySeq, LenProperties DEF IsLine
    <3>2. command' = [command EXCEPT !.argv[0] = words[1]]
      BY <1>1, <2>3 DEF readCommand
    <3> QED
      BY <1>2, <3>1, <3>2 DEF command_t
  <2> QED
    BY <2>1, <2>2, <2>3
<1>6. TypeOK'
  BY <1>1, <1>2, <1>5 DEF Inv, TypeOK
<1>7. CommandParsed' /\ OutputRestored' /\ CdObeyed'
  BY <1>1, <1>2, <1>4 DEF CommandParsed, OutputRestored, CdObeyed
<1>8. ChildrenAsTyped' /\ Balance'
  BY <1>2, ChildrenAlone
<1> QED
  BY <1>6, <1>7, <1>8 DEF Inv

LEMMA RedirectInv ==
  ASSUME Inv, Redirect
  PROVE  Inv'
<1>1. /\ main = "external" /\ main' = "execute"
      /\ line' = line /\ command' = command /\ cwd' = cwd /\ child' = child
  BY DEF Redirect
<1>2. stdout = Terminal /\ Parsed(line, command)
  BY <1>1 DEF Inv, OutputRestored, CommandParsed
<1>3. TypeOK'
  BY <1>1 DEF Inv, TypeOK
<1>4. CommandParsed' /\ CdObeyed'
  BY <1>1, <1>2 DEF CommandParsed, CdObeyed
<1>5. OutputRestored'
  BY <1>1, <1>2 DEF OutputRestored, Redirect
<1>6. ChildrenAsTyped' /\ Balance'
  BY <1>1, ChildrenAlone
<1> QED
  BY <1>3, <1>4, <1>5, <1>6 DEF Inv

LEMMA ExecuteInv ==
  ASSUME Inv, Execute
  PROVE  Inv'
<1>1. /\ main = "execute" /\ main' = "restore"
      /\ line' = line /\ command' = command /\ child' = child
      /\ stdout' = stdout /\ stdoutCopy' = stdoutCopy
  BY DEF Execute
<1>2. Parsed(line, command) /\ cwd \in Dir
  BY <1>1 DEF Inv, TypeOK, CommandParsed
<1>3. /\ cwd' \in Dir
      /\ command.argv[0] \in ChangesDir => cwd' \in Led(Arguments(command))
  <2>1. CASE command.argv[0] \in ChangesDir
    BY <1>2, <2>1, ChangeDirectoryLeads DEF Execute
  <2>2. CASE command.argv[0] \notin ChangesDir
    BY <1>2, <2>2 DEF Execute
  <2> QED
    BY <2>1, <2>2
<1>4. TypeOK'
  BY <1>1, <1>3 DEF Inv, TypeOK
<1>5. CommandParsed' /\ CdObeyed'
  BY <1>1, <1>2, <1>3 DEF CommandParsed, CdObeyed
<1>6. OutputRestored'
  BY <1>1 DEF Inv, OutputRestored
<1>7. ChildrenAsTyped' /\ Balance'
  BY <1>1, ChildrenAlone
<1> QED
  BY <1>4, <1>5, <1>6, <1>7 DEF Inv

LEMMA RestoreInv ==
  ASSUME Inv, Restore
  PROVE  Inv'
<1>1. /\ main = "restore" /\ main' \in {"prompt", "dispatch"}
      /\ line' = line /\ command' = command /\ cwd' = cwd /\ child' = child
  BY DEF Restore
<1>2. Parsed(line, command) /\ stdout' = Terminal
  BY <1>1 DEF Inv, CommandParsed, OutputRestored, Restore
<1>3. TypeOK'
  BY <1>1 DEF Inv, TypeOK
<1>4. CommandParsed' /\ CdObeyed' /\ OutputRestored'
  BY <1>1, <1>2 DEF CommandParsed, CdObeyed, OutputRestored
<1>5. ChildrenAsTyped' /\ Balance'
  BY <1>1, ChildrenAlone
<1> QED
  BY <1>3, <1>4, <1>5 DEF Inv

\* The shell leaves, finds nothing, or cannot fork.
LEMMA NoChildInv ==
  ASSUME Inv, Exit \/ NotFound \/ ForkFails
  PROVE  Inv'
<1>1. /\ main = "dispatch" /\ main' \in {"exit", "prompt", "wait"}
      /\ line' = line /\ command' = command /\ stdout' = stdout /\ cwd' = cwd /\ child' = child
  BY DEF Exit, NotFound, ForkFails, Forking
<1>2. Parsed(line, command) /\ stdout = Terminal
  BY <1>1 DEF Inv, CommandParsed, OutputRestored
<1>3. TypeOK'
  BY <1>1 DEF Inv, TypeOK
<1>4. CommandParsed' /\ CdObeyed' /\ OutputRestored'
  BY <1>1, <1>2 DEF CommandParsed, CdObeyed, OutputRestored
<1>5. ChildrenAsTyped' /\ Balance'
  BY <1>1, ChildrenAlone
<1> QED
  BY <1>3, <1>4, <1>5 DEF Inv

-----------------------------------------------------------------------------
(***************************************************************************)
(* The steps that make, change or end children                             *)
(***************************************************************************)
\* A fork adds a child with the words of the line (miniShell.c:78-98): one the
\* shell need not wait for, or one that it waits for next.
LEMMA ForkInv ==
  ASSUME Inv, Fork
  PROVE  Inv'
<1> DEFINE new == [state |-> "forked", line |-> line, stdout |-> stdout, cwd |-> cwd,
                   path |-> lookupPath(command.argv[0], cwd),
                   arguments |-> Arguments(command),
                   file |-> command.redirectFileName,
                   background |-> command.runsInBackground]
           n == Len(child) + 1
<1>1. /\ main = "dispatch" /\ child' = Append(child, new)
      /\ main' = IF command.runsInBackground THEN "prompt" ELSE "wait"
      /\ line' = line /\ command' = command /\ stdout' = stdout /\ cwd' = cwd
      /\ lookupPath(command.argv[0], cwd) # NOT_FOUND
  BY DEF Fork, Forking, Waits
<1>2. /\ Parsed(line, command) /\ stdout = Terminal
      /\ command \in command_t /\ cwd \in Dir
      /\ Balance /\ ChildrenAsTyped /\ child \in Seq(Started \cup Remains)
  BY <1>1 DEF Inv, TypeOK, CommandParsed, OutputRestored
<1>3. /\ line \in Seq(Word) /\ command.argv[0] = line[1]
      /\ Typed(Arguments(command), command.redirectFileName, command.runsInBackground) = line
      /\ Arguments(command) \in Seq(Word)
  BY <1>2, FirstWord
<1>4. PICK k \in DOMAIN Places :
        /\ lookupPath(command.argv[0], cwd) = Places[k]
        /\ checkFileInDir(Places[k], command.argv[0], cwd)
        /\ \A j \in 1 .. k - 1 : ~ checkFileInDir(Places[j], command.argv[0], cwd)
  BY <1>1, LookupPathFirst
<1>5. AsTyped(new)
  BY <1>2, <1>3, <1>4 DEF AsTyped, FoundFirst
<1>6. new \in Started
  <2>1. Places[k] \in Dir \cup {Here}
    <3>1. PATH \in Seq(Dir \cup {Here}) /\ Here \in Dir \cup {Here}
      BY DirAssumption
    <3>2. Places \in Seq(Dir \cup {Here})
      BY <3>1, AppendProperties DEF Places
    <3> QED
      BY <3>2, <1>4, LenProperties
  <2>2. command.redirectFileName \in Word \cup {NULL} /\ command.runsInBackground \in BOOLEAN
    BY <1>2 DEF command_t
  <2>3. lookupPath(command.argv[0], cwd) \in Dir \cup {Here}
    BY <1>4, <2>1
  <2> QED
    BY <1>2, <1>3, <2>2, <2>3 DEF Started
<1> HIDE DEF new
<1>7. /\ child' \in Seq(Started \cup Remains)
      /\ DOMAIN child = 1 .. Len(child) /\ Len(child) \in Nat
      /\ DOMAIN child' = DOMAIN child \cup {n} /\ n \notin DOMAIN child
      /\ child'[n] = new /\ \A c \in DOMAIN child : child'[c] = child[c]
  BY <1>1, <1>2, <1>6, AppendProperties, LenProperties
<1>8. TypeOK'
  BY <1>1, <1>2, <1>7 DEF TypeOK
<1>9. CommandParsed' /\ CdObeyed' /\ OutputRestored'
  BY <1>1, <1>2 DEF CommandParsed, CdObeyed, OutputRestored
<1>10. ChildrenAsTyped'
  BY <1>2, <1>5, <1>7 DEF ChildrenAsTyped
<1>11. Balance'
  <2>1. new.state = "forked" /\ new.background = command.runsInBackground
    BY DEF new
  <2>2. Unreaped(child)' = Unreaped(child) \cup {n} /\ n \notin Unreaped(child)
    BY <1>7, <2>1 DEF Unreaped
  <2>3. /\ IsFiniteSet(Unreaped(child)) /\ Cardinality(Unreaped(child)) \in Nat
        /\ IsFiniteSet(Background(child)) /\ Cardinality(Background(child)) \in Nat
    BY ChildrenFinite DEF Inv
  <2>4. Cardinality(Unreaped(child)') = Cardinality(Unreaped(child)) + 1
    BY <2>2, <2>3, FS_AddElement
  <2>5. Cardinality(Unreaped(child)) <= Cardinality(Background(child))
    BY <1>1, <1>2, <2>3 DEF Balance
  <2>6. CASE command.runsInBackground
    <3>1. Background(child)' = Background(child) \cup {n} /\ n \notin Background(child)
      BY <1>7, <2>1, <2>6 DEF Background
    <3>2. Cardinality(Background(child)') = Cardinality(Background(child)) + 1
      BY <3>1, <2>3, FS_AddElement
    <3> QED
      BY <1>1, <2>3, <2>4, <2>5, <2>6, <3>2 DEF Balance
  <2>7. CASE ~ command.runsInBackground
    <3>1. Background(child)' = Background(child)
      BY <1>7, <2>1, <2>7 DEF Background
    <3> QED
      BY <1>1, <2>3, <2>4, <2>5, <2>7, <3>1 DEF Balance
  <2> QED
    BY <2>6, <2>7
<1> QED
  BY <1>8, <1>9, <1>10, <1>11 DEF Inv

\* What is left of a child has the type of that.
LEMMA GoneRemains ==
  ASSUME NEW r \in Started \cup Remains, NEW state \in {"ended", "reaped"}
  PROVE  /\ Gone(r, state) \in Remains
         /\ Gone(r, state).state = state
         /\ Gone(r, state).background = r.background
         /\ Gone(r, state) \notin Started
BY DEF Gone, Started, Remains

\* wait reaps one child, whichever (miniShell.c:102-105).
LEMMA WaitInv ==
  ASSUME Inv, Wait
  PROVE  Inv'
<1>1. /\ main = "wait" /\ main' = "prompt"
      /\ line' = line /\ command' = command /\ stdout' = stdout /\ cwd' = cwd
  BY DEF Wait
<1>2. /\ stdout = Terminal /\ Balance /\ ChildrenAsTyped
      /\ child \in Seq(Started \cup Remains)
  BY <1>1 DEF Inv, TypeOK, OutputRestored
<1>3. CommandParsed' /\ CdObeyed' /\ OutputRestored'
  BY <1>1, <1>2 DEF CommandParsed, CdObeyed, OutputRestored
<1>4. /\ DOMAIN child = 1 .. Len(child) /\ Len(child) \in Nat
      /\ \A c \in DOMAIN child : child[c] \in Started \cup Remains
      /\ IsFiniteSet(Unreaped(child)) /\ Cardinality(Unreaped(child)) \in Nat
      /\ IsFiniteSet(Background(child)) /\ Cardinality(Background(child)) \in Nat
  BY ChildrenFinite DEF Inv
<1>5. ASSUME NEW c \in Reapable, child' = [child EXCEPT ![c] = Gone(@, "reaped")]
      PROVE  TypeOK' /\ ChildrenAsTyped' /\ Balance'
  <2>1. c \in DOMAIN child /\ child[c].state = "ended"
    BY <1>5 DEF Reapable, Children
  <2> DEFINE x == Gone(child[c], "reaped")
  <2>2. /\ x \in Remains /\ x.state = "reaped" /\ x.background = child[c].background
        /\ x \notin Started
    BY <1>4, <2>1, GoneRemains
  <2>3. child' = [child EXCEPT ![c] = x]
    BY <1>5
  <2> HIDE DEF x
  <2>4. /\ child' \in Seq(Started \cup Remains)
        /\ DOMAIN child' = DOMAIN child /\ child'[c] = x
        /\ \A d \in DOMAIN child : d # c => child'[d] = child[d]
    BY <1>2, <1>4, <2>1, <2>2, <2>3, ExceptSeq
  <2>5. TypeOK'
    BY <1>1, <2>4 DEF Inv, TypeOK
  <2>6. ChildrenAsTyped'
    BY <1>2, <2>2, <2>4 DEF ChildrenAsTyped
  <2>7. Unreaped(child)' = Unreaped(child) \ {c} /\ c \in Unreaped(child)
    BY <2>1, <2>2, <2>4 DEF Unreaped
  <2>8. Background(child)' = Background(child)
    BY <2>1, <2>2, <2>4 DEF Background
  <2>9. Cardinality(Unreaped(child)') = Cardinality(Unreaped(child)) - 1
    BY <1>4, <2>7, FS_RemoveElement
  <2>10. Balance'
    BY <1>1, <1>2, <1>4, <2>8, <2>9 DEF Balance
  <2> QED
    BY <2>5, <2>6, <2>10
<1>6. ASSUME DOMAIN child = Children("reaped"), UNCHANGED child
      PROVE  TypeOK' /\ ChildrenAsTyped' /\ Balance'
  <2>1. Unreaped(child)' = {} /\ Background(child)' = Background(child)
    BY <1>6 DEF Unreaped, Background, Children
  <2>2. Balance'
    BY <1>1, <1>4, <2>1, FS_EmptySet DEF Balance
  <2>3. TypeOK' /\ ChildrenAsTyped'
    BY <1>1, <1>2, <1>6 DEF Inv, TypeOK, ChildrenAsTyped
  <2> QED
    BY <2>2, <2>3
<1>7. TypeOK' /\ ChildrenAsTyped' /\ Balance'
  BY <1>5, <1>6 DEF Wait
<1> QED
  BY <1>3, <1>7 DEF Inv

\* A child that changes and is not reaped by it changes nothing of the balance.
LEMMA ChildChanges ==
  ASSUME Inv, NEW c \in DOMAIN child, child[c].state # "reaped",
         NEW x \in Started \cup Remains, x.state # "reaped",
         x.background = child[c].background, x \in Started => AsTyped(x),
         child' = [child EXCEPT ![c] = x],
         UNCHANGED << main, line, command, stdout, stdoutCopy, cwd >>
  PROVE  Inv'
<1>1. child \in Seq(Started \cup Remains) /\ DOMAIN child = 1 .. Len(child) /\ ChildrenAsTyped
  BY LenProperties DEF Inv, TypeOK
<1>2. /\ child' \in Seq(Started \cup Remains)
      /\ DOMAIN child' = DOMAIN child /\ child'[c] = x
      /\ \A d \in DOMAIN child : d # c => child'[d] = child[d]
  BY <1>1, LenProperties, ExceptSeq
<1>3. TypeOK'
  BY <1>2 DEF Inv, TypeOK
<1>4. CommandParsed' /\ OutputRestored' /\ CdObeyed'
  BY DEF Inv, CommandParsed, OutputRestored, CdObeyed
<1>5. ChildrenAsTyped'
  BY <1>1, <1>2 DEF ChildrenAsTyped
<1>6. Unreaped(child)' = Unreaped(child)
  BY <1>2 DEF Unreaped
<1>7. Background(child)' = Background(child)
  BY <1>2 DEF Background
<1>8. Balance'
  BY <1>6, <1>7 DEF Inv, Balance
<1> QED
  BY <1>3, <1>4, <1>5, <1>8 DEF Inv

LEMMA ProcessInv ==
  ASSUME Inv, NEW c \in DOMAIN child, process(c)
  PROVE  Inv'
<1>1. child[c] \in Started \cup Remains /\ ChildrenAsTyped
  BY ChildrenFinite DEF Inv
<1>2. CASE OpenFile(c)
  <2>1. PICK output \in {child[c].stdout} \cup ({child[c].file} \ {NULL}) :
          child' = [child EXCEPT ![c].state = "opened", ![c].stdout = output]
    BY <1>2 DEF OpenFile
  <2>2. child[c].state = "forked" /\ UNCHANGED << main, line, command, stdout, stdoutCopy, cwd >>
    BY <1>2 DEF OpenFile
  <2>3. child[c] \in Started /\ AsTyped(child[c])
    BY <1>1, <2>2 DEF Started, Remains, ChildrenAsTyped
  <2> DEFINE x == [child[c] EXCEPT !.state = "opened", !.stdout = output]
  <2>4. child' = [child EXCEPT ![c] = x]
    BY <2>1
  <2>5. x \in Started /\ x.state = "opened" /\ x.background = child[c].background
    BY <2>3 DEF Started
  <2>6. AsTyped(x)
    BY <2>3 DEF AsTyped, FoundFirst, Started
  <2> HIDE DEF x
  <2> QED
    BY <2>2, <2>4, <2>5, <2>6, ChildChanges
<1>3. CASE Exec(c)
  <2>1. /\ child[c].state = "opened" /\ UNCHANGED << main, line, command, stdout, stdoutCopy, cwd >>
        /\ child' = [child EXCEPT ![c] = [child[c] EXCEPT !.state = "runs"]]
    BY <1>3 DEF Exec, Becomes
  <2>2. child[c] \in Started /\ AsTyped(child[c])
    BY <1>1, <2>1 DEF Started, Remains, ChildrenAsTyped
  <2> DEFINE x == [child[c] EXCEPT !.state = "runs"]
  <2>3. x \in Started /\ x.state = "runs" /\ x.background = child[c].background
    BY <2>2 DEF Started
  <2>4. AsTyped(x)
    BY <2>2 DEF AsTyped, FoundFirst, Started
  <2> HIDE DEF x
  <2> QED
    BY <2>1, <2>3, <2>4, ChildChanges DEF x
<1>4. CASE ExecFails(c) \/ End(c)
  <2>1. /\ child[c].state \in {"opened", "runs"}
        /\ UNCHANGED << main, line, command, stdout, stdoutCopy, cwd >>
        /\ child' = [child EXCEPT ![c] = Gone(child[c], "ended")]
    BY <1>4 DEF ExecFails, End, Becomes
  <2> QED
    BY <1>1, <2>1, GoneRemains, ChildChanges
<1> QED
  BY <1>2, <1>3, <1>4 DEF process

\* Ctrl-C: nothing is asked of the shell any more, and no child is started anew.
LEMMA InterruptInv ==
  ASSUME Inv, Interrupt
  PROVE  Inv'
<1>1. PICK survivors \in SUBSET Children("runs") :
        child' = [c \in DOMAIN child |->
                    IF child[c].state = "reaped" \/ c \in survivors
                    THEN child[c] ELSE Gone(child[c], "ended")]
  BY DEF Interrupt
<1>2. main' = "exit" /\ command' = command /\ cwd' = cwd
  BY DEF Interrupt
<1>3. /\ DOMAIN child = 1 .. Len(child) /\ Len(child) \in Nat /\ ChildrenAsTyped
      /\ \A c \in DOMAIN child : child[c] \in Started \cup Remains
  BY ChildrenFinite DEF Inv
<1>4. /\ DOMAIN child' = DOMAIN child
      /\ \A c \in DOMAIN child :
           child'[c] = child[c] \/ (child'[c] \in Remains /\ child'[c] \notin Started)
  BY <1>1, <1>3, GoneRemains
<1>5. child' \in Seq(Started \cup Remains)
  <2>1. child' \in [1 .. Len(child) -> Started \cup Remains]
    BY <1>1, <1>3, GoneRemains
  <2> QED
    BY <1>3, <2>1
<1>6. TypeOK'
  BY <1>2, <1>5 DEF Inv, TypeOK
<1>7. ChildrenAsTyped'
  BY <1>3, <1>4 DEF ChildrenAsTyped
<1> QED
  BY <1>2, <1>6, <1>7 DEF Inv, CommandParsed, OutputRestored, CdObeyed, Balance

-----------------------------------------------------------------------------
(***************************************************************************)
(* Theorems                                                                *)
(***************************************************************************)
\* The inductive invariant: the command is that of its line, children are started
\* as typed, and those not waited for balance (miniShell.c, readCommand.c).
THEOREM Invariance == Spec => []Inv
<1>1. ASSUME Inv, [Next]_vars
      PROVE  Inv'
  <2>1. CASE UNCHANGED vars
    BY <1>1, <2>1 DEF vars, Inv, TypeOK, CommandParsed, OutputRestored, CdObeyed,
                      ChildrenAsTyped, Balance, Unreaped, Background
  <2>2. CASE Next
    <3>1. ASSUME NEW c \in DOMAIN child, process(c) PROVE Inv'
      BY <1>1, <3>1, ProcessInv
    <3>2. CASE Over
      BY <2>1, <3>2 DEF Over
    <3> QED
      BY <1>1, <2>2, <3>1, <3>2, ReadCommandInv, RedirectInv, ExecuteInv, RestoreInv, NoChildInv,
         ForkInv, WaitInv, InterruptInv DEF Next
  <2> QED
    BY <1>1, <2>1, <2>2
<1> QED
  BY InitInv, <1>1, PTL DEF Spec

\* Programs run with the words of their line, their output goes where that line
\* says, and cd leads where it says (readCommand.c:33-83, externalCommands.c:12-85,
\* lookupPath.c:14-26), for every line that leaves room for its nulls.
THEOREM LinesObeyed == Spec => []RunsAsTyped
<1>1. Inv => RunsAsTyped
  <2> SUFFICES ASSUME Inv PROVE RunsAsTyped
    OBVIOUS
  <2>1. main \notin {"prompt", "exit"} =>
          /\ Typed(Arguments(command), command.redirectFileName, command.runsInBackground) = line
          /\ command.argv[command.argc] = NULL
    BY FirstWord DEF Inv, CommandParsed
  <2>2. main = "execute" => stdout \in {Terminal} \cup ({command.redirectFileName} \ {NULL})
    BY DEF Inv, OutputRestored
  <2>3. main = "restore" /\ line[1] \in ChangesDir => cwd \in Led(Arguments(command))
    BY FirstWord DEF Inv, CommandParsed, CdObeyed
  <2>4. ASSUME NEW c \in DOMAIN child \ (Children("ended") \cup Children("reaped"))
        PROVE  AsTyped(child[c])
    <3>1. child[c] \in Started \cup Remains
      BY ChildrenFinite DEF Inv
    <3>2. child[c] \in Started
      BY <3>1 DEF Remains, Children
    <3> QED
      BY <3>2 DEF Inv, ChildrenAsTyped
  <2> QED
    BY <2>1, <2>2, <2>3, <2>4 DEF RunsAsTyped, AsTyped
<1> QED
  BY Invariance, <1>1, PTL

\* At the prompt no more children wait to be waited for than commands were given
\* for the background (miniShell.c:101-105), whichever children wait returned for.
THEOREM ChildrenBounded == Spec => []UnreapedBounded
<1>1. Inv => UnreapedBounded
  <2> SUFFICES ASSUME Inv, main = "prompt"
               PROVE  Cardinality(DOMAIN child \ Children("reaped"))
                        <= Cardinality({c \in DOMAIN child : child[c].background})
    BY DEF UnreapedBounded
  <2>1. DOMAIN child \ Children("reaped") = Unreaped(child)
    BY DEF Children, Unreaped
  <2>2. {c \in DOMAIN child : child[c].background} = Background(child)
    BY DEF Background
  <2>3. Cardinality(Background(child)) \in Nat
    BY ChildrenFinite DEF Inv
  <2>4. Cardinality(Unreaped(child)) <= Cardinality(Background(child))
    BY <2>3 DEF Inv, Balance
  <2> QED
    BY <2>1, <2>2, <2>4
<1> QED
  BY Invariance, <1>1, PTL

-----------------------------------------------------------------------------
(***************************************************************************)
(* When the prompt means that the command before it is over                *)
(***************************************************************************)
\* No background command has been waited for by mistake: by wait(2), which a command
\* in the foreground called for itself.
BackgroundLeftAlone == \A c \in Children("reaped") : ~ child[c].background

\* Each command in the foreground has been waited for.
ForegroundReaped == \A c \in DOMAIN child : child[c].background \/ child[c].state = "reaped"

\* As the children that are left are no more than the background commands, and these
\* are among them, they are these.
LEMMA BalanceExact ==
  Inv /\ main = "prompt" /\ BackgroundLeftAlone => ForegroundReaped
<1> SUFFICES ASSUME Inv, main = "prompt", BackgroundLeftAlone,
                    NEW c \in DOMAIN child, child[c].state # "reaped"
             PROVE  child[c].background
  BY DEF ForegroundReaped
<1>1. /\ IsFiniteSet(Unreaped(child)) /\ Cardinality(Unreaped(child)) \in Nat
      /\ Cardinality(Background(child)) \in Nat
  BY ChildrenFinite DEF Inv
<1>2. Background(child) \in SUBSET Unreaped(child)
  BY DEF BackgroundLeftAlone, Children, Background, Unreaped
<1>3. Cardinality(Unreaped(child)) <= Cardinality(Background(child))
  BY <1>1 DEF Inv, Balance
<1>4. Cardinality(Background(child)) <= Cardinality(Unreaped(child))
  BY <1>1, <1>2, FS_Subset
<1>5. Cardinality(Unreaped(child)) = Cardinality(Background(child))
  BY <1>1, <1>3, <1>4
<1>6. Unreaped(child) = Background(child)
  BY <1>1, <1>2, <1>5, FS_Subset
<1> QED
  BY <1>6 DEF Unreaped, Background

\* A line that asks for the background, as checkAndSetRunsInBackground reads it.
AsksForBackground(words) == Len(words) >= 2 /\ words[Len(words)] = "&"

\* Only such a line makes a command that runs in the background.
LEMMA BackgroundAsked ==
  ASSUME NEW words, NEW c, Parsed(words, c), c.runsInBackground
  PROVE  AsksForBackground(words)
<1>1. words \in Seq(Word) /\ Len(words) \in Nat
  BY DEF Parsed, IsLine
<1>2. PICK m \in 1 .. Len(words) :
        /\ Typed(SubSeq(words, 1, m), c.redirectFileName, c.runsInBackground) = words
        /\ c.redirectFileName \in Word \cup {NULL}
  BY DEF Parsed, Holds, command_t
<1> DEFINE front == SubSeq(words, 1, m)
           file  == IF c.redirectFileName = NULL THEN << >> ELSE << ">", c.redirectFileName >>
           cut   == front \o file
<1>3. front \in Seq(Word) /\ Len(front) = m
  BY <1>1
<1>4. file \in Seq(Word) /\ Len(file) \in Nat
  BY <1>2, WordAssumption
<1>5. words = cut \o << "&" >>
  BY <1>2 DEF Typed
<1> HIDE DEF front, file
<1>6. cut \in Seq(Word) /\ Len(cut) = m + Len(file)
  BY <1>3, <1>4, ConcatProperties
<1> HIDE DEF cut
<1>7. words = Append(cut, "&") /\ "&" \in Word
  BY <1>5, <1>6, WordAssumption
<1>8. Len(words) = Len(cut) + 1 /\ words[Len(cut) + 1] = "&"
  BY <1>6, <1>7, AppendProperties
<1> QED
  BY <1>4, <1>6, <1>8 DEF AsksForBackground

\* Without such lines there are no such children.
NoBackground ==
  /\ main \notin {"prompt", "exit"} => line \in Line
  /\ \A c \in DOMAIN child : ~ child[c].background

LEMMA NextNoBackground ==
  ASSUME \A words \in Line : ~ AsksForBackground(words), Inv, NoBackground, [Next]_vars
  PROVE  NoBackground'
<1>1. /\ DOMAIN child = 1 .. Len(child) /\ Len(child) \in Nat
      /\ \A c \in DOMAIN child : child[c] \in Started \cup Remains
      /\ child \in Seq(Started \cup Remains)
  BY ChildrenFinite DEF Inv, TypeOK
<1>2. CASE ReadCommand
  BY <1>2 DEF ReadCommand, NoBackground
<1>3. CASE Redirect \/ Execute \/ Restore \/ Exit \/ NotFound \/ ForkFails \/ UNCHANGED vars
  BY <1>3 DEF Redirect, Execute, Restore, Exit, NotFound, ForkFails, Forking, vars, NoBackground
<1>4. CASE Fork
  <2>1. /\ main = "dispatch" /\ line' = line
        /\ child' = Append(child, [state |-> "forked", line |-> line, stdout |-> stdout, cwd |-> cwd,
                                   path |-> lookupPath(command.argv[0], cwd),
                                   arguments |-> Arguments(command),
                                   file |-> command.redirectFileName,
                                   background |-> command.runsInBackground])
    BY <1>4 DEF Fork, Forking
  <2>2. ~ command.runsInBackground /\ line \in Line
    <3>1. line \in Line /\ Parsed(line, command)
      BY <2>1 DEF NoBackground, Inv, CommandParsed
    <3> QED
      BY <3>1, BackgroundAsked
  <2>3. \A c \in DOMAIN child' : c \in DOMAIN child \/ c = Len(child) + 1
    BY <1>1, <2>1
  <2>4. ASSUME NEW c \in DOMAIN child' PROVE ~ child'[c].background
    BY <1>1, <2>1, <2>2, <2>3 DEF NoBackground
  <2> QED
    BY <2>1, <2>2, <2>4 DEF NoBackground
<1>5. CASE Wait
  <2>1. main' = "prompt" /\ (child' = child \/ \E c \in DOMAIN child : child' = [child EXCEPT ![c] = Gone(@, "reaped")])
    BY <1>5 DEF Wait, Reapable, Children
  <2> QED
    BY <2>1 DEF NoBackground, Gone
<1>6. ASSUME NEW c \in DOMAIN child, process(c) PROVE NoBackground'
  <2>1. PICK x : child' = [child EXCEPT ![c] = x] /\ x.background = child[c].background
    <3>1. CASE OpenFile(c)
      <4>1. PICK output : child' = [child EXCEPT ![c].state = "opened", ![c].stdout = output]
        BY <3>1 DEF OpenFile
      <4>2. child[c] \in Started
        BY <1>1, <3>1 DEF OpenFile, Remains
      <4>3. [child[c] EXCEPT !.state = "opened", !.stdout = output].background = child[c].background
        BY <4>2 DEF Started
      <4> QED
        BY <4>1, <4>3
    <3>2. CASE Exec(c)
      <4>1. child[c] \in Started
        BY <1>1, <3>2 DEF Exec, Becomes, Remains
      <4>2. [child[c] EXCEPT !.state = "runs"].background = child[c].background
        BY <4>1 DEF Started
      <4> QED
        BY <3>2, <4>2 DEF Exec, Becomes
    <3>3. CASE ExecFails(c) \/ End(c)
      BY <3>3 DEF ExecFails, End, Becomes, Gone
    <3> QED
      BY <1>6, <3>1, <3>2, <3>3 DEF process
  <2>2. main' = main /\ line' = line
    BY <1>6 DEF process, OpenFile, Exec, ExecFails, End, Becomes
  <2> QED
    BY <2>1, <2>2 DEF NoBackground
<1>7. CASE Interrupt
  <2>1. main' = "exit" /\ \E survivors \in SUBSET Children("runs") :
          child' = [c \in DOMAIN child |-> IF child[c].state = "reaped" \/ c \in survivors
                                           THEN child[c] ELSE Gone(child[c], "ended")]
    BY <1>7 DEF Interrupt
  <2> QED
    BY <2>1 DEF NoBackground, Gone
<1>8. CASE Over
  BY <1>3, <1>8 DEF Over
<1> QED
  BY <1>2, <1>3, <1>4, <1>5, <1>6, <1>7, <1>8 DEF Next

\* The prompt comes while a command in the foreground still runs only if a wait
\* returned for a background command instead (miniShell.c:101-105): until then every
\* command in the foreground has been waited for by the next prompt.
THEOREM OnlyBackgroundOvertaken ==
  Spec => [](main = "prompt" /\ BackgroundLeftAlone => ForegroundReaped)
BY Invariance, BalanceExact, PTL

\* So without background commands the comment of miniShell.c:103 is right: at the
\* prompt the children have terminated.
THEOREM ForegroundOverAlone ==
  ASSUME \A words \in Line : ~ AsksForBackground(words)
  PROVE  Spec => []ForegroundOver
<1> DEFINE Asked == \E words \in Line : AsksForBackground(words)
<1>1. ~ Asked
  OBVIOUS
<1>2. Init => NoBackground
  BY DEF Init, NoBackground
<1>3. Inv /\ NoBackground /\ [Next]_vars => NoBackground'
  BY NextNoBackground
<1>4. Inv /\ NoBackground => ForegroundOver
  <2> SUFFICES ASSUME Inv, NoBackground, main = "prompt"
               PROVE  \A c \in DOMAIN child : child[c].background \/ child[c].state \in {"ended", "reaped"}
    BY DEF ForegroundOver
  <2>1. ForegroundReaped
    BY BalanceExact DEF NoBackground, BackgroundLeftAlone, Children
  <2> QED
    BY <2>1 DEF ForegroundReaped
<1> QED
  BY <1>2, <1>3, <1>4, Invariance, PTL DEF Spec
=============================================================================
