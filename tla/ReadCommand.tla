------------------------------ MODULE ReadCommand ------------------------------
(***************************************************************************)
(* readCommand of Assignment2/miniShell/readCommand: a line becomes a      *)
(* command_t.  A line is the sequence of its words; what strsep does with  *)
(* the blanks between them is left out.  The array argv is a function of   *)
(* its indices, of which each line overwrites only the first few.          *)
(***************************************************************************)
EXTENDS Integers, Sequences

CONSTANTS Word,        \* the words lines are made of, "&" and ">" among them
          TooLong,     \* those longer than MAX_PROG_LENGTH
          MAX_ARGS     \* the elements of argv

NULL == ""             \* the null pointer, and the empty word that ends a line
Leftover == "..."      \* an element of argv that was never set

ASSUME WordAssumption == {"&", ">"} \subseteq Word /\ Word \cap {NULL, Leftover} = {}
ASSUME TooLongAssumption == TooLong \subseteq Word
ASSUME MaxArgsAssumption == MAX_ARGS \in Nat /\ MAX_ARGS >= 2

\* The lines that leave room for the two nulls that parseCommand sets behind
\* the words: shorter than argv by two.
IsLine(line) == line \in Seq(Word) /\ Len(line) <= MAX_ARGS - 2

command_t ==
  [argc : 0 .. MAX_ARGS - 2,
   argv : [0 .. MAX_ARGS - 1 -> Word \cup {NULL, Leftover}],
   runsInBackground : BOOLEAN,
   redirectFileName : Word \cup {NULL}]

\* The words of a line in argv, and the two nulls behind them.
parseCommand(line, command) ==
  [command EXCEPT
     !.argc = Len(line),
     !.argv = [k \in DOMAIN command.argv |->
                 IF k < Len(line) THEN line[k + 1]
                 ELSE IF k <= Len(line) + 1 THEN NULL ELSE command.argv[k]]]

\* The last word is cut off: argc goes down, and the null that execv stops at
\* moves with it.  Fault: the null is set where it was already.
CutBehind(command) ==
  [command EXCEPT !.argv[command.argc] = NULL, !.argc = @ - 1]
deleteLastArgument(command) ==
  [command EXCEPT !.argv[command.argc - 1] = NULL, !.argc = @ - 1]

checkAndSetRunsInBackground(command) ==
  IF command.argc >= 2 /\ command.argv[command.argc - 1] = "&"
  THEN [deleteLastArgument(command) EXCEPT !.runsInBackground = TRUE]
  ELSE [command EXCEPT !.runsInBackground = FALSE]

\* It looks at the command that checkAndSetRunsInBackground left.
checkAndSetRedirect(command) ==
  IF command.argc >= 3 /\ command.argv[command.argc - 2] = ">"
  THEN [deleteLastArgument(deleteLastArgument(command)) EXCEPT
          !.redirectFileName = command.argv[command.argc - 1]]
  ELSE [command EXCEPT !.redirectFileName = NULL]

\* A line of no words (-1), and one whose first word is too long (-2): of the
\* latter only that word has been stored.
Readable(line) == line # << >> /\ line[1] \notin TooLong

readCommand(line, command) ==
  IF Readable(line)
  THEN checkAndSetRedirect(checkAndSetRunsInBackground(parseCommand(line, command)))
  ELSE IF line = << >> THEN command ELSE [command EXCEPT !.argv[0] = line[1]]

\* What execv makes of argv: the elements before the first null.
Arguments(command) ==
  LET nulls == {k \in DOMAIN command.argv : command.argv[k] = NULL}
      end   == CHOOSE k \in nulls : \A m \in nulls : k <= m
  IN  [k \in 1 .. end |-> command.argv[k - 1]]
=============================================================================
