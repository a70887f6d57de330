----------------------------- MODULE Philosophers -----------------------------
(***************************************************************************)
(* The dining philosophers of Assignment3/Philosophers/Basic/philos.c: one *)
(* thread per philosopher, one mutex per fork, and a main thread that      *)
(* creates the philosophers, joins them and destroys the mutexes.          *)
(***************************************************************************)
EXTENDS Integers

CONSTANTS NPHILOSOPHERS, NMEALS

\* make.py:15 asserts that there are at least two philosophers.
ASSUME NPhilosophersAssumption == NPHILOSOPHERS \in Nat /\ NPHILOSOPHERS >= 2
ASSUME NMealsAssumption == NMEALS \in Nat

Philosopher == 0 .. NPHILOSOPHERS - 1
Fork == Philosopher
Nobody == -1                       \* the holder of an unlocked mutex

VARIABLES pc,           \* where each philosopher thread stands
          mealsEaten,   \* the loop counter of each philosopher
          lock,         \* the thread that holds each fork's mutex
          main,         \* which of its loops main is in
          i             \* the loop counter of main

vars == << pc, mealsEaten, lock, main, i >>

TypeOK ==
  /\ pc \in [Philosopher -> {"new", "loop", "first", "second", "eat", "right", "gone"}]
  /\ mealsEaten \in [Philosopher -> 0 .. NMEALS]
  /\ lock \in [Fork -> Philosopher \cup {Nobody}]
  /\ main \in {"create", "join", "exit"}
  /\ i \in 0 .. NPHILOSOPHERS

Init ==
  /\ pc = [n \in Philosopher |-> "new"]
  /\ mealsEaten = [n \in Philosopher |-> 0]
  /\ lock = [f \in Fork |-> Nobody]
  /\ main = "create"
  /\ i = 0

leftfork(n) == n
rightfork(n) == (n + 1) % NPHILOSOPHERS

\* pickup_forks: the fork that is locked first, and the one locked while
\* holding it.  The comparison takes the higher number first.
\* Fault: every philosopher starts with the left fork.
AlwaysLeft(n) == leftfork(n)
FirstFork(n) == IF leftfork(n) > rightfork(n) THEN leftfork(n) ELSE rightfork(n)
SecondFork(n) == IF FirstFork(n) = leftfork(n) THEN rightfork(n) ELSE leftfork(n)

-----------------------------------------------------------------------------
(***************************************************************************)
(* A philosopher                                                           *)
(***************************************************************************)

GoesTo(n, label) == pc' = [pc EXCEPT ![n] = label]

\* The loop test, and the thinking before a meal.  Fault: one meal more.
ThinkOnceMore(n) ==
  /\ pc[n] = "loop"
  /\ mealsEaten[n] <= NMEALS
  /\ GoesTo(n, "first")
  /\ UNCHANGED << mealsEaten, lock, main, i >>
Think(n) ==
  /\ pc[n] = "loop"
  /\ mealsEaten[n] < NMEALS
  /\ GoesTo(n, "first")
  /\ UNCHANGED << mealsEaten, lock, main, i >>

Depart(n) ==
  /\ pc[n] = "loop"
  /\ mealsEaten[n] = NMEALS
  /\ GoesTo(n, "gone")
  /\ UNCHANGED << mealsEaten, lock, main, i >>

\* pthread_mutex_lock.  Fault: the lock is taken whoever holds it.
LockAnyway(n, f) == lock' = [lock EXCEPT ![f] = n]
LockFork(n, f) == lock[f] = Nobody /\ lock' = [lock EXCEPT ![f] = n]

TakeFirst(n) ==
  /\ pc[n] = "first"
  /\ LockFork(n, FirstFork(n))
  /\ GoesTo(n, "second")
  /\ UNCHANGED << mealsEaten, main, i >>

TakeSecond(n) ==
  /\ pc[n] = "second"
  /\ LockFork(n, SecondFork(n))
  /\ GoesTo(n, "eat")
  /\ UNCHANGED << mealsEaten, main, i >>

\* return_forks: the left fork, then the right one; and the loop increment.
ReturnLeft(n) ==
  /\ pc[n] = "eat"
  /\ lock' = [lock EXCEPT ![leftfork(n)] = Nobody]
  /\ GoesTo(n, "right")
  /\ UNCHANGED << mealsEaten, main, i >>

\* Fault: the right fork is never returned.
KeepRight(n) ==
  /\ pc[n] = "right"
  /\ mealsEaten' = [mealsEaten EXCEPT ![n] = @ + 1]
  /\ GoesTo(n, "loop")
  /\ UNCHANGED << lock, main, i >>

ReturnRight(n) ==
  /\ pc[n] = "right"
  /\ lock' = [lock EXCEPT ![rightfork(n)] = Nobody]
  /\ mealsEaten' = [mealsEaten EXCEPT ![n] = @ + 1]
  /\ GoesTo(n, "loop")
  /\ UNCHANGED << main, i >>

philosopher(n) ==
  Think(n) \/ Depart(n) \/ TakeFirst(n) \/ TakeSecond(n) \/ ReturnLeft(n) \/ ReturnRight(n)

-----------------------------------------------------------------------------
(***************************************************************************)
(* The main thread                                                         *)
(***************************************************************************)

Create ==
  /\ main = "create"
  /\ i < NPHILOSOPHERS
  /\ GoesTo(i, "loop")
  /\ i' = i + 1
  /\ UNCHANGED << mealsEaten, lock, main >>

StartJoining ==
  /\ main = "create"
  /\ i = NPHILOSOPHERS
  /\ main' = "join"
  /\ i' = 0
  /\ UNCHANGED << pc, mealsEaten, lock >>

\* What pthread_join waits for.  Fault: it does not wait.
NoWait(n) == TRUE
Ended(n) == pc[n] = "gone"

Join ==
  /\ main = "join"
  /\ i < NPHILOSOPHERS
  /\ Ended(i)
  /\ i' = i + 1
  /\ UNCHANGED << pc, mealsEaten, lock, main >>

\* All mutexes are destroyed and main returns.
DestroyForks ==
  /\ main = "join"
  /\ i = NPHILOSOPHERS
  /\ main' = "exit"
  /\ UNCHANGED << pc, mealsEaten, lock, i >>

mainThread == Create \/ StartJoining \/ Join \/ DestroyForks

\* main has returned: the program is over.
Over == main = "exit" /\ UNCHANGED vars

Next == (\E n \in Philosopher : philosopher(n)) \/ mainThread \/ Over

\* A thread that can run does run.  A mutex need not be fair: nothing is asked
\* of which waiter gets it.
Fairness == WF_vars(mainThread) /\ \A n \in Philosopher : WF_vars(philosopher(n))

Spec == Init /\ [][Next]_vars /\ Fairness

-----------------------------------------------------------------------------
(***************************************************************************)
(* Properties                                                              *)
(***************************************************************************)

\* The forks a philosopher holds, as its program counter tells.
HeldBy(n) ==
  CASE pc[n] = "second" -> {FirstFork(n)}
    [] pc[n] = "eat"    -> {FirstFork(n), SecondFork(n)}
    [] pc[n] = "right"  -> {rightfork(n)}
    [] OTHER            -> {}

\* The mutex of a fork is held by exactly the philosopher that is between
\* taking it and returning it, so a thread only unlocks what it holds
\* (philos.c:103-122): no two philosophers use one fork, none is leaked.
ForksAccounted ==
  \A f \in Fork, n \in Philosopher : lock[f] = n <=> f \in HeldBy(n)

\* The fork a philosopher asks for next.
Awaits(n, f) ==
  \/ pc[n] = "first" /\ f = FirstFork(n)
  \/ pc[n] = "second" /\ f = SecondFork(n)

Blocked(n) == \E f \in Fork : Awaits(n, f) /\ lock[f] # Nobody

Seated(n) == pc[n] \notin {"new", "gone"}

\* The philosophers at the table are never all waiting for forks: the order in
\* which pickup_forks locks (philos.c:88-101) excludes a cycle.
NoDeadlock == (\E n \in Philosopher : Seated(n)) => \E n \in Philosopher : Seated(n) /\ ~ Blocked(n)

\* When the mutexes are destroyed (philos.c:54-57) none is held and nobody will
\* lock one again.
DestroyedUnused ==
  main = "exit" => \A n \in Philosopher : pc[n] = "gone" /\ lock[n] = Nobody

\* The abstract program, of which this one is an implementation: two
\* philosophers that share a fork never eat at once, each has NMEALS meals.
ForksOf(n) == {leftfork(n), rightfork(n)}
Conflict == {pair \in Philosopher \X Philosopher :
               pair[1] # pair[2] /\ ForksOf(pair[1]) \cap ForksOf(pair[2]) # {}}

Abstract ==
  INSTANCE Dining WITH
    eating <- {n \in Philosopher : pc[n] = "eat"},
    meals  <- [n \in Philosopher |-> mealsEaten[n] + IF pc[n] = "right" THEN 1 ELSE 0]

\* The program implements Dining, the promise that everyone is served in the
\* end included: with bounded meals an unfair mutex cannot starve anyone for ever.
ImplementsDining == Abstract!Spec
=============================================================================
