# A verification project for the EECE 315 programs

The repository holds the programs of four assignments on operating systems. They are
small C programs, and what is hard in them is what is hard in an operating system:
threads and locks, processes that end when they please, queues and tables of fixed size,
two programs that talk over a socket or a pipe. This directory models them in TLA+, checks
the models with TLC and proves with TLAPS, for every value of the constants, what TLC
checks on small ones, as far as it is safety.

## 1. The system and its parts

The programs do not call each other; interaction is within each of them.

| | Component | State | Operations | Interaction | What makes it correct |
|-|-|-|-|-|-|
| A | Process dispatcher, `Assignment5/dispatcher` (`hostd.c`, `queue/`, `resources/`) | dispatcher list, four ready queues, process on the processor, five resource tables, PCBs, time | read the job file; per tick: admit arrivals (allocate, refuse), run one process (dispatch, preempt, demote, end) | calls on shared lists and tables | a process is at one place and in order; resources are given back, never shared; real time goes first |
| B | Dining philosophers, `Assignment3/Philosophers/Basic` | a mutex per fork, meals per thread | pick up, eat, return; create, join, destroy | threads, mutexes | exclusion, no deadlock, everyone is served |
| C | Animated philosophers, `Assignment3/Philosophers/Animated` (`philos.c`, `anim.py`, `make.py`) | B, `sock_lock`, the socket pair, what is drawn | B with a report for each fork; request, draw, give up; the window is closed | threads; request and reply between two processes; timeout | the picture is the truth, the timeout is no false alarm, both end |
| D | Virtual memory manager, `Assignment4/VirtualMemoryManager` | page table, TLB, address cursor, counts | translate, load a page, replace in TLB and table; threads with a shared cursor | threads, two locks | translations are right, FIFO replacement, each address is handled, it ends |
| E | Sudoku, `Assignment3/Sudoku` | board; number arrays with the findings of threads | test; shuffle, rotate, blank; main does both | threads joined by the main thread, findings polled | the verdict is that of the rules; a puzzle obeys them |
| F | Mini shell, `Assignment2/miniShell` | the command read, the standard output, the directory, children | read and parse, redirect, built-ins, search the PATH, fork, exec, wait, Ctrl-C | processes, `wait` | a program gets what was typed; the prompt returns when it should |
| G | Socket and pipe demos, `Assignment5/sockets` | a connection or pipe, the bytes or messages in it | set up, connect, one request, one reply, disconnect, clean up | two processes, either of which may be killed | who ends well was served; everything is given back once; nobody is left waiting who need not be |
| H | Fibonacci thread, `Assignment2/ProgrammingProblem4_26` | an array | fill, print | one thread | what is printed is the sequence; the array is long enough |
| I | System monitor, `Assignment4/OSBehavior` | none of its own | read `/proc`, print | none | not modelled: pure input and output |
| J | Demos, drivers, in-lab exercises, models and textures | | | | not modelled |

Hard behaviour, with the lines where it bites, is listed under `hazards` in
`PROJECT.json`. In short: lists whose empty form is a node and whose first node may lack
its mark (A); attempts that get three of five resources (A); lists consumed and rebuilt in
every tick (A); threads in a circle of locks (B); reports that cross a lock order and a
timeout, and a window that is closed while reports are to come (C); a cache that is not
told of evictions, two threads that miss the same page, and an unlocked loop test (D);
early returns with other threads at work (E); `wait` returning for another child (F); a
stream that arrives in pieces, a connection that breaks, a dozen ways out with something to
undo on most of them, and the question who disconnects first (G); the last element of an
array (H).

## 2. Modules

| Module | Models | Composes | Theorems in |
|-|-|-|-|
| `PCBQueue` | `queue.c` as the dispatcher uses it | | `QueueResourceProofs` |
| `HostResources` | `resources.c`, the PCBIO part of `pcb.h` | | `QueueResourceProofs` |
| `Lifecycle` | abstract: the life of a process | | |
| `Dispatcher` | `hostd.c`, `readFile.c`, `pcb.c` | `PCBQueue`, `HostResources`; refines `Lifecycle` | `DispatcherProofs` |
| `Dining` | abstract: meals with neither forks nor threads | | |
| `Philosophers` | Basic `philos.c` | refines `Dining` | `PhilosophersProofs` |
| `AnimatedPhilosophers` | Animated `philos.c`, `anim.py` | extends and refines `Philosophers` | `AnimatedPhilosophersProofs` |
| `ReplacementQueue` | abstract: a queue of items with room for so many | | |
| `VirtualMemory` | `vmm.c` | both tables refine `ReplacementQueue` | `VirtualMemoryProofs` |
| `SudokuBoard` | the array copies of `sudoku.c`, the rule of the game | | `SudokuProofs` |
| `SudokuTest` | `testSudokuString` and its threads | `SudokuBoard` | `SudokuProofs` |
| `SudokuGenerator` | `generateSudokuPuzzle` | `SudokuBoard` | `SudokuProofs` |
| `Sudoku` | `main` of `sudoku.c` | `SudokuTest`, `SudokuGenerator` | `SudokuProofs` |
| `ReadCommand` | `readCommand.c` | | `MiniShellProofs` |
| `MiniShell` | `miniShell.c`, `externalCommands.c` | `ReadCommand` | `MiniShellProofs` |
| `Exchange` | abstract: one request, one reply | | |
| `Sockets` | `server.c`, `client.c` | refines `Exchange` | `DemosProofs` |
| `Pipes` | `serverp.c`, `clientp.c` | refines `Exchange` | `DemosProofs` |
| `FibSeq` | `FibSeq.c` | | `DemosProofs` |
| `Demos` | the three of them, each left to itself | `Sockets`, `Pipes`, `FibSeq` | `DemosProofs` |
| `MCPrograms` | these three and the shell, each left to itself | `MCMiniShell`, `Demos` | |
| other `MC...` | values for TLC | | |

Operators keep the names of the functions they translate; `map` in `PROJECT.json` gives
the lines. Operators whose comment begins with "Fault" are not part of a model: each is a
plausible bug, put next to the definition it would replace, and `mutants` names the
property that notices it.

### A. Dispatcher

A queue is the sequence of its nodes, from the node that the pointer designates. The code
knows two empty queues, the NULL pointer and a node without a process, and treats them
differently (`doProcessing` looks at the first queue whose pointer is not NULL, even if it
carries nothing); both are kept. `enqueueProcess` overwrites a first node that is not
marked `isHead`, as the code does.

`alloc` has the five tables; a PCB has the needs, and what it has and where, which
`freeHostResources` trusts. `readFile` is `ReadLine` and `EndOfFile`. A call of
`updateDispatcher` is `BeginUpdate`, one `PutBack`, `Admit` or `Refuse` per turn of its
loop, and `EndUpdate`. `doProcessing` and the increment of the time are one step, one
action for each branch of its first half: `Preempt`, `Continue`, `DispatchRealTime`,
`DispatchUser`, `Idle`; its second half is `RunProcess`. `Close` is `closeSystem`.

`Lifecycle` says what becomes of a process with no queue, resource or clock in sight: it is
read, waits, becomes ready, and is given units of time until it ends; what joins the ready
processes may cost one other of its class, and that one only, its place.

Assumed of the input: lines are well formed, eight numbers that are not negative, and the
priority is 0 to 3. Nothing is assumed of the sizes of the tables, of the number of
processes, or of the order of the arrivals.

### B and C. Philosophers

One program counter per thread, and for each mutex who holds it. In C a lock operation, a
`zmq_recv` with its `zmq_send`, and a frame of `anim.py` are steps. Time is a number of
units: only the sleeps of eating and thinking take time, between the bounds of
`constants.h` inclusive, and so may the pauses of `anim.py`. `Tick` happens when nothing
can be done without it. This is the ideal of a fast computer: on a slow one the timeout may
strike earlier, and no bound on `RCVTIMEO` would be right. The window may be closed when
`anim.py` draws; then nobody answers the philosophers any more, and they come to rest
wherever they are (`Stuck`).

### D. Virtual memory manager

Of an address the page number is kept, and of a frame the page in it. The entries in use
of a table are a sequence with the ages the code keeps. A thread's loop test (`Enter`,
`Leave`), which is made with no lock, and its fetch under `cursorLock` are separate steps. So
are the two halves of the section under `pageTableLock`: `LookUp` waits for the mutex, takes
it and searches the tables, `TranslateFetched` works with what was found then (`looked`) and
unlocks; without the mutex two threads would load one page twice, and the fault `NotWaiting`
shows it. `main`, when it translates alone, does both at once (`Translate`). Past the end
of the list the address is any.

### E. Sudoku

A board is a function of cells, with blocks of any size. In the test the threads run in
any order, from creation; the main thread creates, joins and collects in the order of the
code. In the generator `rand()` is a choice. A draw of a cell drawn before has no effect,
so a draw is always of a new cell; that there is one is the property `CellLeft`. `main` tests
its given strings and then generates a puzzle and tests that; in `Sudoku` this last test is
one step with the result that `ResultRight` promises.

### F. Mini shell

A line is a sequence of words. `argv` is kept as the array it is, with what earlier lines
left behind, as the deletions work on its end. The built-in commands are steps of the
shell, `cd` among them; children are processes with their own copy of the command, of the
directory and of the standard output, and they run the file that the first directory of the
PATH with such a name holds. A fork, an open or an exec may fail. Programs may run for ever.

### G. Sockets and pipes

Both programs are followed from their first call: the arguments of the client, `WSAStartup`,
`getaddrinfo`, `socket`, then `bind`, `listen` and `accept` of the server and the client's
tries of one address after the other. Each of these may fail, each failure is an alternative
of its own action, and it does what the code does then and no more: nothing after a failing
`WSAStartup` or the usage message, `WSACleanup` after a failing `getaddrinfo`, an end at once
when the client's `socket` fails though addresses are left, nothing at all when `accept`
fails. `winsock` and `lists` count what each program has started and obtained less what it
has undone, `listener` is the server's listening socket, `socket` the one it has accepted and
the one of the client.

Of a TCP stream the numbers of bytes sent and read at either end are kept; `recv` returns
any piece of what is under way. A connection may be reset at any moment, and either process
may be killed. The pipe holds at most a request and a
reply; `FlushFileBuffers` waits until the other end has read, `DisconnectNamedPipe` throws
away what it has not. A `ReadFile` that fails is repeated for ever, as in the code.

### H. Fibonacci

The array has one element more than in the code, to show what is stored there.

## 3. Runs

Bounds are as small as lets every action happen and every property be broken by its fault.

| Run | Question | Bounds |
|-|-|-|
| `disp` | are processes where they belong, in order, with their resources; is real time first; is the life of a process that of `Lifecycle`? | ten kinds of lines, files of up to four, nine ticks; tables of the sizes of `pcb.h` but four cells of memory |
| `disp_lost` | is every process somewhere? (it is not) | the same |
| `disp_cells` | is a cell in use never marked free? (it may be) | the same |
| `philos` | accounting, deadlock, destruction, refinement of `Dining` with its liveness | five philosophers, two meals, as in the code |
| `anim` | picture, timeout, refinement of `Philosophers`, termination | four philosophers, of whom two can eat at once; one meal; sleeps of 0 to 2 units |
| `vmm` | loaded once, TLB and table agree, FIFO of both, cursor, termination | three frames, two entries, four pages, up to four addresses, three threads |
| `vmm_stale` | is a TLB hit right? (not after an eviction) | longer lists, two threads |
| `sudoku` | verdict, no use after free, termination; a cell is left to draw; the puzzle obeys the rules | nine boards of 4 x 4; 3, 2 and 1 threads; seven cells blanked, one shuffle or none |
| `sudoku_blanks` | does only a filled board get the result of a solution? (no) | the same |
| `programs` | F: words, output, file, directory, children, prompt. G and H: who ends well was served; everything undone once; the sequence; everyone ends | nine lines, three children, four directories of which two in the PATH; the sizes of the code: messages of 21 bytes, buffers of 80, an array of 20; two addresses |
| `shell_wait` | is the foreground command over at the prompt? (not always) | as the shell in `programs` |
| `fib_overrun` | is the array long enough? (not for the argument 20) | as the other programs in `programs` |

Why they are enough. Four processes let a queue have a head, a successor and an arrival
while one runs, and real time arrivals at ticks 0 and 2 find real time and user processes in
mid-slice; nine ticks are more than the quanta 1 + 2 + 3 and a return to the first
queue; a memory of four cells can be fragmented in both windows. With two TLB entries and
three frames each table fills and replaces, the TLB holds two entries for one page, and
three threads pass the unlocked test together. With four philosophers there are
neighbours and strangers. The boards break the rule in a row only, in a column only, in
blocks only and nearly everywhere, and the threads get unequal shares of the lines; blanking
seven of sixteen cells with draws of four digits makes draws in vain necessary. Three
children let `wait` return for another child twice in a row. Where the numbers of the code
are small, they are used. And nearly all of these properties are proved for every
value of the constants (section 4): the runs show that the formulas mean what they should,
and their faults that they are not empty. The dispatcher run has `CHECK_DEADLOCK FALSE`,
because the program ends; the other models have an explicit final stutter, so a deadlock is
an error in them.

### Findings

* `NoProcessLost`: `enqueueProcess` (`queue.c:25`) overwrites the process of a first node
  that is not marked. Dequeuing moves the pointer to such a node whenever a queue had two.
  Whatever is enqueued next replaces the process there, which never runs again and keeps
  its resources. Proved: there is no other way to lose a process (`LostOnlyOverwritten`),
  and a lost one stays lost (`LostStaysLost`).
* `ZeroMeansUnused`: a refused attempt leaves the start and count of what it had
  (`resources.c:230`). A later attempt that misses that resource frees the same cells once
  more, though another process may have them by then. With one kind of resource per
  process this cannot happen (`ZeroRightSingleKind` and `ExclusiveUse`, proved).
* `TranslationRight`: an eviction leaves the TLB as it is, so a hit may name a frame that
  holds another page (`vmm.c:282`). For pages that are loaded the TLB is right (`TLBAgrees`).
  With the real table sizes the shipped address file does not hit a stale entry. Proved: a
  hit is right until there are more faults than frames (`RightUntilEviction`), and always if
  there is a frame for every page (`RightWhenPagesFit`).
* `ForegroundOver`: `wait` (`miniShell.c:104`) returns for a background child too. Proved: as
  long as it never did, each foreground command is over at the prompt
  (`OnlyBackgroundOvertaken`), so the comment is right for lines without a `&`
  (`ForegroundOverAlone`).
* `ArrayKept`: for the argument 20, which `main` accepts although its message excludes it
  (`FibSeq.c:42`), the thread stores one element past its array (`FibSeq.c:19`). Proved: for
  every other argument it does not (`ArrayKeptBelow`).
* `SolutionsOnly`: `sudoku.c:45` promises 1 for a valid solution and 0 for everything else, and
  `main` asks for a solution (`sudoku.c:17`); but `isValid` passes over blanks
  (`sudoku.c:306`), so a board that is not filled, even one with no digit at all, is called
  correct. What the code does decide is that no digit is repeated: `ResultRight` says so,
  proved for every board (`VerdictRight`), and on a board without blanks that is what line 45
  promises. The generator relies on the blanks being passed over (`sudoku.c:155`).

Seen while reading, not checked:

* C: the fork with the higher number is taken first, against the comment of `philos.c:90`
  (the order is global either way, so no deadlock follows); the text "n has eaten" of
  `anim.py:105` counts the bowl of the next philosopher.
* E: a string that has not 81 characters gets -1, of which `sudoku.c:45` does not speak.
* F: at the end of its input the shell parses the old buffer again (`readCommand.c:95` does
  not look at the result of `fgets`); names that merely begin with `cd`, `pwd`, `echo`,
  `exit` or `quit` are taken for these.
* G: the server answers each piece with the beginning of its text, so the reply is garbled
  when the message arrives in pieces; the client returns 0 also when receiving failed; a
  silent network leaves `recv` waiting for ever; from `accept` on the server never closes its
  listening socket; a pipe client that is gone before the
  server waits for it leaves the server waiting; a failing `ReadFile` is repeated for ever.
* A: `queueDemo.c` enqueues numbers where `queue.c` takes PCBs by now, and pushes back
  dequeued nodes whose `next` still leads into the list.

### Fairness

* `Philosophers`, `AnimatedPhilosophers`, `VirtualMemory`, `Sudoku` (its test): weak fairness
  of each thread and of the main thread. The system runs a thread that can run. A mutex need
  not be fair, and none is assumed to be (weak fairness does not help a thread that finds the
  mutex free now and then only): a philosopher may be passed over as long as
  others want the fork, but their meals are limited.
* `AnimatedPhilosophers` also: `anim.py` draws its frames, and time passes.
* `MiniShell`: only that `wait` returns when it can. No program need end, nobody need type.
* `Demos`, `MCPrograms`: weak fairness of each of the four programs of G, of what the server
  does but for a failing `accept`, which may as well wait. Nothing makes connections break or
  processes die, and nothing keeps them from it.
* `Dispatcher`, the generator, `FibSeq`: no liveness is asked. Waiting processes may starve
  in the dispatcher (a real time process is looked at only in the tick that admits one; lower
  queues wait for the first), and nothing in the code promises otherwise. That they do is
  proved (`RealTimeStranded`, `UsersNeedFirst`).

## 4. Proofs

All theorems hold for every value of the constants that the named assumptions allow. Every
safety property of a passing run is a theorem. Hardly any is inductive by itself; what has
to be added is said below.

**Queues and tables** (`QueueResourceProofs`). Enqueue and dequeue keep the type and the
shape `WellFormed` of a queue and change the processes in it as expected; the case of the
overwritten head is one of them. `FirstFitCorrect` says that the search returns the lowest
sufficient run in its window, or -1 if there is none, when no cell carries the asking pid;
two lemmas say what an attempt and a release do to a cell.

**Dispatcher** (`DispatcherProofs`). The invariant is

    Inv == TypeOK /\ WaitLists /\ PlacedOnce /\ RealTimeReady /\ TimeLeft /\ AllRead

`WaitLists` gives the shapes of the lists that `updateDispatcher` consumes and builds, and
ties its counter to what is left; without it neither the pointers nor `PlacedOnce` survive
a turn. `RealTimeReady` says that an admission in this tick left a process in the real time
queue, which `Preempt` follows without a test. `AllRead` says that no process is anywhere
before it was read: so a new one is nowhere. The steps of `doProcessing` are reduced to one
lemma about the process chosen (`ChosenEffect`), from which each property takes what it
needs. The facts about cells rest on a second invariant, `CellsOwned`: a marked cell
belongs to an admitted process that has it on record and lies in the window of its
priority. It is preserved although `freeHostResources` trusts stale records, because
those can only unmark cells. `ExclusiveUse` is the converse, for processes that need one
kind of resource each: a refused attempt then obtained nothing, so the records of waiting
processes are empty, and no release is of another's cells. `LifeImplemented` maps every step
to a step of `Lifecycle` or none; it rests on the invariant and on lemmas that an enqueue
loses at most the process at the head of the queue it was made on.

What becomes of time is a matter of single steps: `TimeAccounted` says that the time a
process has left changes by one unit only, in a tick in which no other process gets any, and
`EndsWhenSpent` that none is freed earlier, but by `closeSystem`. The starvation that the code
allows is proved too. `UsersNeedFirst`: without a line of priority 1 the queue of
priority 1 stays the one empty node that `initSystem` made, so its pointer is not NULL, no
lower queue is the first one, and no user process ever gets a unit.
`RealTimeStranded`: when no real time process waits to be admitted and the last admission is
past, no step touches the real time queue. `LostOnlyOverwritten` compares the places of all
processes before and after each step: a process leaves the queues and the processor by its
end, or because it stood at an unmarked head when another was enqueued there; once nowhere
it stays nowhere (`LostStaysLost`), as no step takes a process from anywhere but a place.

**Philosophers** (`PhilosophersProofs`). `Inv` adds to `TypeOK` and `ForksAccounted` how far
the loops of `main` and of the philosophers are. `DeadlockFree`: suppose all at the table
wait; take the lowest fork that is awaited; its holder waits for a lower one, as the higher
fork is taken first, which contradicts the choice. `Implementation`: every step is a step of
`Dining` or changes nothing of it, and two philosophers that share a fork never eat together.
`ProgressUntilExit` is what a proof of termination needs besides fairness: each thread has a
number of steps left (five for each meal and one for its departure; two for each thread and
two more for `main`), every step is one step of one thread and takes nothing from
the others, and until `main` has returned there is a thread that can take one. So every run
of n philosophers with m meals has n(5m + 1) + 2n + 2 steps.

**Animated philosophers** (`AnimatedPhilosophersProofs`). `BasicImplemented` is a step
simulation. By it the theorems of `PhilosophersProofs`, taken in by `INSTANCE` with the
program counters of the basic program, hold of the animated one (`ForksDeadlockFree`). On top
of them `AnimInv` proves the picture and the timeout. `Drawn` says what is drawn once the
reply under way has arrived, by how many forks each philosopher has reported; a step of
a philosopher is either silent or a report of one fork, whose mutex it holds, so no other
has reported that fork. `Patience` is the argument for the timeout: when time begins to pass
after a request, all philosophers wait or sleep; as long as the request is not answered
nobody begins a new sleep, since every sleep follows a report or the loop, and the loop is
left at once; so the sleeps, at most half of the timeout, are over when half of it is left.
If all are awake and all still wait, with a request there to be answered, they can only wait
for forks, and that contradicts `DeadlockFree` unless all have gone. Hence `SilenceMeansDone`.

**Virtual memory** (`VirtualMemoryProofs`). `Inv == TypeOK /\ Tables /\ Progress /\ Held`.
`Held` is what the mutex is for: one thread at most is in the section, and the tables are
still as it has found them, so its second half completes a translation
(`HolderTranslates`); without it `Tables`, which holds `PagesOnce` and `TLBAgrees`, would not
be kept. `Progress` counts: once the list is used up, the cursor and the threads that have passed the test but
not fetched are together ahead of it by one less than the number of threads at most
(`CursorBounded`). `RankedTables` adds that the ages in a table are exactly 1 to the number
of its entries. So the entry that the code looks for, with the highest age, is the first to have
come, and replacing it moves every other one place ahead: the tables are queues
(`OldestPageEvicted`, `OldestTranslationReplaced`). For the statistics `Counted` follows
each translation by its kind, a hit of the TLB, a hit of the page table or a fault, and
counts the threads that have advanced the cursor but not translated yet: faults,
hits and these threads together are never more than the cursor says (`StatisticsTrue`), so
the printed rates are right but for what was read past the list (`RatesTrue`). Until the
first eviction every fault takes a free frame, so the TLB never names a frame that was used
again (`RightUntilEviction`). `StepsAreBounded`: every step of `main` or of a thread
makes a natural number smaller, four for each address the cursor can still pass, up to four
for each thread, by where it stands, and one for the free mutex; no order of the threads can
keep the program running. This is the safety half of `Finishes`.

**Sudoku** (`SudokuProofs`). `Loops` says which threads each loop of `testNumberArrays` has
passed, from which `FreedSafely`; `Findings` that every line with a duplicate was found or is
still ahead of its thread, and that what was found is one; `RuleByLines` ties rows, columns
and blocks to the rule of the game, by lemmas on division and remainder (`VerdictRight`). In
the generator swaps within a band and the rotation keep a solved board solved; `Counted`
counts the cells by digit and in all, so if no cell were left to draw there would be exactly
one of each digit, fewer than are to remain (`AlwaysCellLeft`, `PuzzleCorrect`).

**Mini shell** (`MiniShellProofs`). `CommandParsed`: `argv` holds the words that remain and a
null, and what was cut off its end put back gives the line. `OutputRestored`, `CdObeyed` and
`ChildrenAsTyped` carry that through redirection, the built-in commands and the fork
(`LinesObeyed`). `Balance`: while the shell waits, the unreaped children are one more than the
background commands at most (`ChildrenBounded`), whichever of them `wait` returns for. Turned
around: as long as all background children are left, the children at the prompt
are these and no others (`OnlyBackgroundOvertaken`).

**Sockets, pipes, Fibonacci** (`DemosProofs`). `SocketInv` orders the four counts of bytes
and says which of them are complete when a side is shut; it also says, by where each program
stands, how often it has started Winsock, whether it has an address list and which sockets
there are (`Balanced`, `SocketsByPlace`), from which `CleanedUpOnce` follows on every way out,
the ones before and after a failing `WSAStartup` included. `PipeInv` does it for
the two messages; `FibInv` says how far the array is filled. From these
`ExchangeImplemented`, `CleanedUp` and `SequenceRight`. The element behind the array is stored
exactly when the thread comes past it, for which the argument must be `MAX_COUNT`
(`ArrayKeptBelow`).

**Model-checked only.** Liveness: the fairness part of `ImplementsDining`, and `BothEnd`,
`Finishes`, `Returns`, `WaitReturns`, `ProgramsEnd`; it is out of the prover's reach. Of
`ImplementsDining` and `Finishes` what does not need fairness is proved. The properties that
the runs find violated are of course no theorems; the conditions under which
each of them holds, or the one way to violate it, are (see the findings). Ages,
paths, counts and searches are defined by choice and by bounded quantifiers, so no module
needs a recursive operator.

## 5. Not modelled

* The system monitor: it reads `/proc` and prints, with no state between two readings.
* `pushbackQueueElement` and `terminateQueueElement` of `queue.c`, which only `queueDemo.c`
  calls, and `AddPage` of `vmm.c`, which nobody calls.
* Output, wording and the 3D scene; the contents of files, pages and messages; malformed
  input; files that cannot be read; what the C library does with memory.
* In the shell the splitting of characters into words. Directories do not change while it runs.
* In the sockets, a network that goes silent without a reset.

## 6. Plan

Everything the first plan named is done: the core (A) and B with their proofs; C to F checked
and then proved; G and H modelled, checked and proved. What could follow:

1. The list of `queue.c` with its pointers, so that pushing back a dequeued node, whose `next`
   is kept, can be stated; today the sequence has no way to be cyclic.
2. Liveness of the dispatcher under assumptions on the job file (no real time arrival after
   some tick), which the code does not state but a user might want.
3. A slow computer in C: steps that take time, and for which delays the timeout still holds.
