------------------------------- MODULE MiniShell -------------------------------
(***************************************************************************)
(* Assignment2/miniShell: the loop that reads a command, executes it       *)
(* itself (pwd, cd, echo) or looks it up and forks a child for it, and     *)
(* waits for a child unless the command runs in the background.            *)
(*                                                                         *)
(* Of the file descriptors only the standard output is kept: what it is    *)
(* open on, in the shell and in each child.  Names are compared by prefix  *)
(* in the code (strncmp); the sets of names below stand for the words that *)
(* pass each comparison.  At the end of the input the buffer of a line is  *)
(* left as malloc gave it: blank, or a name that nobody typed and that is  *)
(* found nowhere.  Lines of both kinds stand for it.                       *)
(***************************************************************************)
EXTENDS ReadCommand, FiniteSets, SequencesExt

CONSTANTS BuiltIn,       \* the names isExternalCommand executes itself
          ChangesDir,    \* those among them that it takes for cd
          Quit,          \* exit and quit
          Dir,           \* the directories
          Home,          \* the one that ~ stands for, where the shell starts
          Named,         \* the directory that a word names, for those that do
          PATH,          \* the directories of that variable, in their order
          Entries,       \* the names that each directory holds
          Line,          \* the lines that may be typed
          MaxChildren,   \* a bound on the children: fork fails beyond it
          Terminal

ASSUME NamesAssumption == BuiltIn \cup Quit \subseteq Word /\ ChangesDir \subseteq BuiltIn
ASSUME DirAssumption ==
  /\ Home \in Dir
  /\ DOMAIN Named \subseteq Word /\ \A word \in DOMAIN Named : Named[word] \in Dir
  /\ PATH \in Seq(Dir)
  /\ Entries \in [Dir -> SUBSET Word]
ASSUME LineAssumption == \A words \in Line : IsLine(words)
ASSUME MaxChildrenAssumption == MaxChildren \in Nat
ASSUME TerminalAssumption == Terminal \notin Word

VARIABLES main,        \* where the loop stands: "prompt", "external", "execute",
                       \* "restore", "dispatch", "wait" or "exit"
          line,        \* the line that was read last
          command,
          stdout,      \* what the standard output of the shell is open on
          stdoutCopy,  \* isExternalCommand: what it was open on before
          cwd,         \* the working directory of the shell
          child        \* the children in the order they were forked

vars == << main, line, command, stdout, stdoutCopy, cwd, child >>

Init ==
  /\ main = "prompt"
  /\ line = << >>
  /\ command = [argc |-> 0, argv |-> [k \in 0 .. MAX_ARGS - 1 |-> Leftover],
                runsInBackground |-> FALSE, redirectFileName |-> NULL]
  /\ stdout = Terminal
  /\ stdoutCopy = Terminal
  /\ cwd = Home
  /\ child = << >>

-----------------------------------------------------------------------------
(***************************************************************************)
(* The shell                                                               *)
(***************************************************************************)

\* The prompt, and a line.  Without a command to execute there is another one.
ReadCommand ==
  /\ main = "prompt"
  /\ \E words \in Line :
       /\ line' = words
       /\ command' = readCommand(words, command)
       /\ main' = IF Readable(words) THEN "external" ELSE "prompt"
  /\ UNCHANGED << stdout, stdoutCopy, cwd, child >>

\* isExternalCommand: the output is redirected, also for a name that turns out
\* not to be one of the shell's own.  A file that cannot be opened changes nothing.
Redirect ==
  /\ main = "external"
  /\ IF command.redirectFileName = NULL
     THEN UNCHANGED << stdout, stdoutCopy >>
     ELSE stdoutCopy' = stdout /\ stdout' \in {stdout, command.redirectFileName}
  /\ main' = "execute"
  /\ UNCHANGED << line, command, cwd, child >>

\* changeDirectory asks a shell for the directory it is in after cd: that is the
\* old one when dir is no directory, and the home directory without a dir.
changeDirectory(dir) ==
  cwd' = IF dir = NULL THEN Home ELSE IF dir \in DOMAIN Named THEN Named[dir] ELSE cwd

\* The command itself, in the shell: what it prints is left out.  The shell waits
\* for it even with an "&".
Execute ==
  /\ main = "execute"
  /\ IF command.argv[0] \in ChangesDir THEN changeDirectory(command.argv[1]) ELSE UNCHANGED cwd
  /\ main' = "restore"
  /\ UNCHANGED << line, command, stdout, stdoutCopy, child >>

Restore ==
  /\ main = "restore"
  /\ stdout' = IF command.redirectFileName = NULL THEN stdout ELSE stdoutCopy
  /\ main' = IF command.argv[0] \in BuiltIn THEN "prompt" ELSE "dispatch"
  /\ UNCHANGED << line, command, stdoutCopy, cwd, child >>

Exit ==
  /\ main = "dispatch"
  /\ command.argv[0] \in Quit
  /\ main' = "exit"
  /\ UNCHANGED << line, command, stdout, stdoutCopy, cwd, child >>

\* lookupPath: the first directory of the PATH, and then of ".", that holds the
\* name.
Here == "."
Places == Append(PATH, Here)
checkFileInDir(place, name, dir) == name \in Entries[IF place = Here THEN dir ELSE place]
NOT_FOUND == "FILENOTFOUND"
lookupPath(name, dir) ==
  LET k == SelectInSeq(Places, LAMBDA place : checkFileInDir(place, name, dir))
  IN  IF k = 0 THEN NOT_FOUND ELSE Places[k]

NotFound ==
  /\ main = "dispatch"
  /\ command.argv[0] \notin Quit
  /\ lookupPath(command.argv[0], cwd) = NOT_FOUND
  /\ main' = "prompt"
  /\ UNCHANGED << line, command, stdout, stdoutCopy, cwd, child >>

\* Whether the shell waits for a child before its next prompt.  Fault: the
\* condition is the wrong way round.
WaitsInBackground == command.runsInBackground
Waits == ~ command.runsInBackground

Forking ==
  /\ main = "dispatch"
  /\ command.argv[0] \notin Quit
  /\ lookupPath(command.argv[0], cwd) # NOT_FOUND
  /\ main' = IF Waits THEN "wait" ELSE "prompt"
  /\ UNCHANGED << line, command, stdout, stdoutCopy, cwd >>

\* The child is a copy of the shell, its working directory included; of its command
\* it keeps what execv will take and where the output is to go.  It is "forked",
\* then its file is "opened", then it "runs" the program or has "ended", and at
\* last it is "reaped".
Fork ==
  /\ Forking
  /\ Len(child) < MaxChildren
  /\ child' = Append(child, [state |-> "forked", line |-> line, stdout |-> stdout, cwd |-> cwd,
                             path |-> lookupPath(command.argv[0], cwd),
                             arguments |-> Arguments(command),
                             file |-> command.redirectFileName,
                             background |-> command.runsInBackground])

\* fork returns -1, which is taken for the pid of a child.
ForkFails == Forking /\ UNCHANGED child

\* The children that wait(2) may return for.
\* Fault: the shell waits until all of its children have ended.
Children(state) == {c \in DOMAIN child : child[c].state = state}
ReapableAtLast == IF DOMAIN child = Children("ended") \cup Children("reaped") THEN Children("ended") ELSE {}
Reapable == Children("ended")

\* Nothing is left of a child that has ended but its end, and how it was started.
Gone(started, state) == [state |-> state, background |-> started.background]

\* wait(&status): for any child, and not at all if there is none.
Wait ==
  /\ main = "wait"
  /\ \/ \E c \in Reapable : child' = [child EXCEPT ![c] = Gone(@, "reaped")]
     \/ DOMAIN child = Children("reaped") /\ UNCHANGED child
  /\ main' = "prompt"
  /\ UNCHANGED << line, command, stdout, stdoutCopy, cwd >>

-----------------------------------------------------------------------------
(***************************************************************************)
(* A child                                                                 *)
(***************************************************************************)
Becomes(c, from, to) ==
  /\ child[c].state = from
  /\ child' = [child EXCEPT ![c] = to]
  /\ UNCHANGED << main, line, command, stdout, stdoutCopy, cwd >>

\* The child redirects its own output; the file may not open.
OpenFile(c) ==
  /\ child[c].state = "forked"
  /\ LET file == child[c].file
     IN  \E output \in {child[c].stdout} \cup ({file} \ {NULL}) :
           child' = [child EXCEPT ![c].state = "opened", ![c].stdout = output]
  /\ UNCHANGED << main, line, command, stdout, stdoutCopy, cwd >>

\* execv succeeds or fails; the program ends, or never does.
Exec(c) == Becomes(c, "opened", [child[c] EXCEPT !.state = "runs"])
ExecFails(c) == Becomes(c, "opened", Gone(child[c], "ended"))
End(c) == Becomes(c, "runs", Gone(child[c], "ended"))

process(c) == OpenFile(c) \/ Exec(c) \/ ExecFails(c) \/ End(c)

\* Ctrl-C: the shell exits wherever it is, and so does a child that has its
\* handler still; a program may survive.
Interrupt ==
  /\ main # "exit"
  /\ main' = "exit"
  /\ \E survivors \in SUBSET Children("runs") :
       child' = [c \in DOMAIN child |->
                   IF child[c].state = "reaped" \/ c \in survivors
                   THEN child[c] ELSE Gone(child[c], "ended")]
  /\ UNCHANGED << line, command, stdout, stdoutCopy, cwd >>

\* The shell has exited; what its children do is not its business any more.
Over == main = "exit" /\ UNCHANGED vars

Next ==
  \/ ReadCommand \/ Redirect \/ Execute \/ Restore
  \/ Exit \/ NotFound \/ Fork \/ ForkFails \/ Wait
  \/ main # "exit" /\ \E c \in DOMAIN child : process(c)
  \/ Interrupt
  \/ Over

\* wait(2) returns when it can; nobody need type anything, and no program need end.
Spec == Init /\ [][Next]_vars /\ WF_vars(Wait)

-----------------------------------------------------------------------------
(***************************************************************************)
(* Properties                                                              *)
(***************************************************************************)

\* A command with what was cut off its end put back.
Typed(arguments, file, background) ==
  arguments \o (IF file = NULL THEN << >> ELSE << ">", file >>) \o (IF background THEN << "&" >> ELSE << >>)

\* Where cd leads with these arguments: home, if there is none but its name.
Led(arguments) ==
  IF Len(arguments) = 1 THEN {Home}
  ELSE IF arguments[2] \in DOMAIN Named THEN {Named[arguments[2]]} ELSE Dir

\* The place where a child found its program holds the name, and none before it does.
FoundFirst(started) ==
  \E k \in DOMAIN Places :
    /\ started.path = Places[k]
    /\ checkFileInDir(Places[k], started.line[1], started.cwd)
    /\ \A j \in 1 .. k - 1 : ~ checkFileInDir(Places[j], started.line[1], started.cwd)

\* A program gets the words of its line, no word of it lost or left over from
\* an earlier line, whatever was cut off the end (readCommand.c:35-65), and argv
\* ends where deleteLastArgument requires (readCommand.c:71).  Its output, and
\* that of a command of the shell itself, goes where its own line says, and never
\* to the file of an earlier line (externalCommands.c:12-44, miniShell.c:82-90).
\* It is the program that the first place in the order of the PATH has under the
\* typed name, and cd leads where its line says, without a word left over from
\* an earlier line (lookupPath.c:14-26, externalCommands.c:51-85).
RunsAsTyped ==
  /\ main \notin {"prompt", "exit"} =>
       /\ Typed(Arguments(command), command.redirectFileName, command.runsInBackground) = line
       /\ command.argv[command.argc] = NULL
  /\ main = "execute" => stdout \in {Terminal} \cup ({command.redirectFileName} \ {NULL})
  /\ main = "restore" /\ line[1] \in ChangesDir => cwd \in Led(Arguments(command))
  /\ \A c \in DOMAIN child \ (Children("ended") \cup Children("reaped")) :
       /\ Typed(child[c].arguments, child[c].file, child[c].background) = child[c].line
       /\ child[c].stdout \in {Terminal} \cup ({child[c].file} \ {NULL})
       /\ FoundFirst(child[c])

\* The children that the shell has not waited for are at the prompt no more than
\* the background commands it was given: each command in the foreground makes
\* up for its own child, though wait may return for another (miniShell.c:104).
UnreapedBounded ==
  main = "prompt" =>
    Cardinality(DOMAIN child \ Children("reaped"))
      <= Cardinality({c \in DOMAIN child : child[c].background})

\* When the command in the foreground has ended there is a prompt, whatever runs
\* in the background and however often wait returned for another child before.
WaitReturns ==
  (main = "wait" /\ \E c \in Children("ended") : ~ child[c].background) ~> main # "wait"

\* miniShell.c:103: "Wait for children to terminate".  So at the prompt no
\* command in the foreground still runs.
ForegroundOver ==
  main = "prompt" =>
    \A c \in DOMAIN child :
      child[c].background \/ child[c].state \in {"ended", "reaped"}
=============================================================================
