-------------------------------- MODULE Dining --------------------------------
(***************************************************************************)
(* What the dining programs of Assignment3/Philosophers promise, with no   *)
(* forks in sight: philosophers eat NMEALS meals each, no two of them that *)
(* share a fork eat at the same time, and everyone is served in the end.   *)
(***************************************************************************)
EXTENDS Integers

CONSTANTS Philosopher, NMEALS,
          Conflict        \* the pairs of philosophers that share a fork

VARIABLES eating,         \* the philosophers at a meal
          meals           \* the meals each one has finished

vars == << eating, meals >>

Init ==
  /\ eating = {}
  /\ meals = [n \in Philosopher |-> 0]

StartMeal(n) ==
  /\ n \notin eating
  /\ meals[n] < NMEALS
  /\ \A m \in eating : << n, m >> \notin Conflict
  /\ eating' = eating \cup {n}
  /\ UNCHANGED meals

FinishMeal(n) ==
  /\ n \in eating
  /\ eating' = eating \ {n}
  /\ meals' = [meals EXCEPT ![n] = @ + 1]

Next == \E n \in Philosopher : StartMeal(n) \/ FinishMeal(n)

Safety == Init /\ [][Next]_vars

\* Every philosopher has had all meals, and is done.
Served == eating = {} /\ \A n \in Philosopher : meals[n] = NMEALS

Spec == Safety /\ <>[]Served
=============================================================================
