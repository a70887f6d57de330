-------------------------- MODULE PhilosophersProofs --------------------------
(***************************************************************************)
(* Proofs about Philosophers, for every number of philosophers and meals.  *)
(***************************************************************************)
EXTENDS Philosophers, TLAPS, WellFoundedInduction

\* The right fork of all but the last philosopher is the next one.
LEMMA RightForkValue ==
  ASSUME NEW n \in Philosopher
  PROVE  rightfork(n) = IF n = NPHILOSOPHERS - 1 THEN 0 ELSE n + 1
BY NPhilosophersAssumption DEF Philosopher, rightfork

\* A philosopher's forks are two, and the first one taken has the higher number.
LEMMA ForkOrder ==
  ASSUME NEW n \in Philosopher
  PROVE  /\ FirstFork(n) \in Fork
         /\ SecondFork(n) \in Fork
         /\ SecondFork(n) < FirstFork(n)
         /\ leftfork(n) \in Fork
         /\ rightfork(n) \in Fork
         /\ leftfork(n) # rightfork(n)
         /\ \/ FirstFork(n) = leftfork(n) /\ SecondFork(n) = rightfork(n)
            \/ FirstFork(n) = rightfork(n) /\ SecondFork(n) = leftfork(n)
BY RightForkValue, NPhilosophersAssumption
DEF FirstFork, SecondFork, leftfork, Fork, Philosopher

\* The two forks of a philosopher are not the same.
LEMMA FirstAndSecond == \A n \in Philosopher : FirstFork(n) # SecondFork(n)
BY ForkOrder, NPhilosophersAssumption DEF Fork, Philosopher

-----------------------------------------------------------------------------
\* Where main is tells which philosophers were created and which have ended.
MainAccounted ==
  /\ main = "create" => \A n \in Philosopher : pc[n] = "new" <=> n >= i
  /\ main # "create" => \A n \in Philosopher : pc[n] # "new"
  /\ main = "join" => \A n \in Philosopher : n < i => pc[n] = "gone"
  /\ main = "exit" => \A n \in Philosopher : pc[n] = "gone"

\* Who is past the loop test has a meal to come.
MealsLeft ==
  \A n \in Philosopher : pc[n] \in {"first", "second", "eat", "right"} => mealsEaten[n] < NMEALS

Inv == TypeOK /\ ForksAccounted /\ MealsLeft /\ MainAccounted

\* The invariant holds when main has initialized the mutexes.
LEMMA InitInv == Init => Inv
BY NPhilosophersAssumption, NMealsAssumption
DEF Init, Inv, TypeOK, ForksAccounted, MealsLeft, MainAccounted, HeldBy, Philosopher, Fork, Nobody

\* The invariant is inductive.
LEMMA NextInv == Inv /\ [Next]_vars => Inv'
<1> SUFFICES ASSUME Inv, [Next]_vars PROVE Inv'
  OBVIOUS
<1> USE NPhilosophersAssumption, NMealsAssumption DEF Inv, Philosopher, Fork, Nobody
<1>1. ASSUME NEW n \in Philosopher, Think(n) PROVE Inv'
  BY <1>1 DEF Think, GoesTo, TypeOK, ForksAccounted, MealsLeft, MainAccounted, HeldBy
<1>2. ASSUME NEW n \in Philosopher, Depart(n) PROVE Inv'
  BY <1>2 DEF Depart, GoesTo, TypeOK, ForksAccounted, MealsLeft, MainAccounted, HeldBy
<1>3. ASSUME NEW n \in Philosopher, TakeFirst(n) PROVE Inv'
  <2>1. /\ TypeOK'
        /\ MealsLeft'
        /\ MainAccounted'
    BY <1>3, ForkOrder DEF TakeFirst, LockFork, GoesTo, TypeOK, MealsLeft, MainAccounted
  <2>2. \A m \in Philosopher \ {n} : HeldBy(m)' = HeldBy(m)
    BY <1>3 DEF TakeFirst, LockFork, GoesTo, TypeOK, HeldBy
  <2>3. HeldBy(n) = {} /\ HeldBy(n)' = {FirstFork(n)}
    BY <1>3 DEF TakeFirst, LockFork, GoesTo, TypeOK, HeldBy
  <2>4. ForksAccounted'
    <3> SUFFICES ASSUME NEW f \in Fork, NEW m \in Philosopher
                 PROVE  lock'[f] = m <=> f \in HeldBy(m)'
      BY DEF ForksAccounted
    <3>1. lock[f] = m <=> f \in HeldBy(m)
      BY DEF ForksAccounted
    <3>2. lock[f] = n <=> f \in HeldBy(n)
      BY DEF ForksAccounted
    <3>3. /\ f \in {FirstFork(n), SecondFork(n)} <=> f = leftfork(n) \/ f = rightfork(n)
          /\ FirstFork(n) # SecondFork(n)
          /\ leftfork(n) # rightfork(n)
          /\ FirstFork(n) \in Fork /\ SecondFork(n) \in Fork
          /\ leftfork(n) \in Fork /\ rightfork(n) \in Fork
      BY ForkOrder, FirstAndSecond
    <3>8. n # Nobody /\ m # Nobody
      OBVIOUS
    <3>7. lock'[f] = IF f = FirstFork(n) THEN n ELSE lock[f]
      BY <1>3 DEF TakeFirst, LockFork, TypeOK
    <3>6. lock[FirstFork(n)] = Nobody
      BY <1>3 DEF TakeFirst, LockFork
    <3>4. CASE m = n
      BY <2>3, <3>2, <3>3, <3>4, <3>6, <3>7, <3>8
    <3>5. CASE m # n
      BY <2>2, <2>3, <3>1, <3>2, <3>3, <3>5, <3>6, <3>7, <3>8
    <3> QED
      BY <3>4, <3>5
  <2> QED
    BY <2>1, <2>4
<1>4. ASSUME NEW n \in Philosopher, TakeSecond(n) PROVE Inv'
  <2>1. /\ TypeOK'
        /\ MealsLeft'
        /\ MainAccounted'
    BY <1>4, ForkOrder DEF TakeSecond, LockFork, GoesTo, TypeOK, MealsLeft, MainAccounted
  <2>2. \A m \in Philosopher \ {n} : HeldBy(m)' = HeldBy(m)
    BY <1>4 DEF TakeSecond, LockFork, GoesTo, TypeOK, HeldBy
  <2>3. HeldBy(n) = {FirstFork(n)} /\ HeldBy(n)' = {FirstFork(n), SecondFork(n)}
    BY <1>4 DEF TakeSecond, LockFork, GoesTo, TypeOK, HeldBy
  <2>4. ForksAccounted'
    <3> SUFFICES ASSUME NEW f \in Fork, NEW m \in Philosopher
                 PROVE  lock'[f] = m <=> f \in HeldBy(m)'
      BY DEF ForksAccounted
    <3>1. lock[f] = m <=> f \in HeldBy(m)
      BY DEF ForksAccounted
    <3>2. lock[f] = n <=> f \in HeldBy(n)
      BY DEF ForksAccounted
    <3>3. /\ f \in {FirstFork(n), SecondFork(n)} <=> f = leftfork(n) \/ f = rightfork(n)
          /\ FirstFork(n) # SecondFork(n)
          /\ leftfork(n) # rightfork(n)
          /\ FirstFork(n) \in Fork /\ SecondFork(n) \in Fork
          /\ leftfork(n) \in Fork /\ rightfork(n) \in Fork
      BY ForkOrder, FirstAndSecond
    <3>8. n # Nobody /\ m # Nobody
      OBVIOUS
    <3>7. lock'[f] = IF f = SecondFork(n) THEN n ELSE lock[f]
      BY <1>4 DEF TakeSecond, LockFork, TypeOK
    <3>6. lock[SecondFork(n)] = Nobody
      BY <1>4 DEF TakeSecond, LockFork
    <3>4. CASE m = n
      BY <2>3, <3>2, <3>3, <3>4, <3>6, <3>7, <3>8
    <3>5. CASE m # n
      BY <2>2, <2>3, <3>1, <3>2, <3>3, <3>5, <3>6, <3>7, <3>8
    <3> QED
      BY <3>4, <3>5
  <2> QED
    BY <2>1, <2>4
<1>5. ASSUME NEW n \in Philosopher, ReturnLeft(n) PROVE Inv'
  <2>1. /\ TypeOK'
        /\ MealsLeft'
        /\ MainAccounted'
    BY <1>5, ForkOrder DEF ReturnLeft, GoesTo, TypeOK, MealsLeft, MainAccounted
  <2>2. \A m \in Philosopher \ {n} : HeldBy(m)' = HeldBy(m)
    BY <1>5 DEF ReturnLeft, GoesTo, TypeOK, HeldBy
  <2>3. HeldBy(n) = {FirstFork(n), SecondFork(n)} /\ HeldBy(n)' = {rightfork(n)}
    BY <1>5 DEF ReturnLeft, GoesTo, TypeOK, HeldBy
  <2>4. ForksAccounted'
    <3> SUFFICES ASSUME NEW f \in Fork, NEW m \in Philosopher
                 PROVE  lock'[f] = m <=> f \in HeldBy(m)'
      BY DEF ForksAccounted
    <3>1. lock[f] = m <=> f \in HeldBy(m)
      BY DEF ForksAccounted
    <3>2. lock[f] = n <=> f \in HeldBy(n)
      BY DEF ForksAccounted
    <3>3. /\ f \in {FirstFork(n), SecondFork(n)} <=> f = leftfork(n) \/ f = rightfork(n)
          /\ FirstFork(n) # SecondFork(n)
          /\ leftfork(n) # rightfork(n)
          /\ FirstFork(n) \in Fork /\ SecondFork(n) \in Fork
          /\ leftfork(n) \in Fork /\ rightfork(n) \in Fork
      BY ForkOrder, FirstAndSecond
    <3>8. n # Nobody /\ m # Nobody
      OBVIOUS
    <3>7. lock'[f] = IF f = leftfork(n) THEN Nobody ELSE lock[f]
      BY <1>5 DEF ReturnLeft, TypeOK
    <3>4. CASE m = n
      BY <2>3, <3>2, <3>3, <3>4, <3>7, <3>8
    <3>5. CASE m # n
      BY <2>2, <2>3, <3>1, <3>2, <3>3, <3>5, <3>7, <3>8
    <3> QED
      BY <3>4, <3>5
  <2> QED
    BY <2>1, <2>4
<1>6. ASSUME NEW n \in Philosopher, ReturnRight(n) PROVE Inv'
  <2>a. mealsEaten[n] < NMEALS /\ mealsEaten[n] \in 0 .. NMEALS
    BY <1>6 DEF ReturnRight, MealsLeft, TypeOK
  <2>b. TypeOK'
    <3>1. mealsEaten[n] + 1 \in 0 .. NMEALS
      BY <2>a
    <3> QED
      BY <1>6, <3>1 DEF ReturnRight, GoesTo, TypeOK
  <2>1. /\ TypeOK'
        /\ MealsLeft'
        /\ MainAccounted'
    BY <1>6, <2>b DEF ReturnRight, GoesTo, TypeOK, MealsLeft, MainAccounted
  <2>2. \A m \in Philosopher \ {n} : HeldBy(m)' = HeldBy(m)
    BY <1>6 DEF ReturnRight, GoesTo, TypeOK, HeldBy
  <2>3. HeldBy(n) = {rightfork(n)} /\ HeldBy(n)' = {}
    BY <1>6 DEF ReturnRight, GoesTo, TypeOK, HeldBy
  <2>4. ForksAccounted'
    <3> SUFFICES ASSUME NEW f \in Fork, NEW m \in Philosopher
                 PROVE  lock'[f] = m <=> f \in HeldBy(m)'
      BY DEF ForksAccounted
    <3>1. lock[f] = m <=> f \in HeldBy(m)
      BY DEF ForksAccounted
    <3>2. lock[f] = n <=> f \in HeldBy(n)
      BY DEF ForksAccounted
    <3>3. /\ f \in {FirstFork(n), SecondFork(n)} <=> f = leftfork(n) \/ f = rightfork(n)
          /\ FirstFork(n) # SecondFork(n)
          /\ leftfork(n) # rightfork(n)
          /\ FirstFork(n) \in Fork /\ SecondFork(n) \in Fork
          /\ leftfork(n) \in Fork /\ rightfork(n) \in Fork
      BY ForkOrder, FirstAndSecond
    <3>8. n # Nobody /\ m # Nobody
      OBVIOUS
    <3>7. lock'[f] = IF f = rightfork(n) THEN Nobody ELSE lock[f]
      BY <1>6 DEF ReturnRight, TypeOK
    <3>4. CASE m = n
      BY <2>3, <3>2, <3>3, <3>4, <3>7, <3>8
    <3>5. CASE m # n
      BY <2>2, <2>3, <3>1, <3>2, <3>3, <3>5, <3>7, <3>8
    <3> QED
      BY <3>4, <3>5
  <2> QED
    BY <2>1, <2>4
<1>7. CASE Create
  BY <1>7 DEF Create, GoesTo, TypeOK, ForksAccounted, MealsLeft, MainAccounted, HeldBy
<1>8. CASE StartJoining
  BY <1>8 DEF StartJoining, TypeOK, ForksAccounted, MealsLeft, MainAccounted, HeldBy
<1>9. CASE Join
  BY <1>9 DEF Join, Ended, TypeOK, ForksAccounted, MealsLeft, MainAccounted, HeldBy
<1>10. CASE DestroyForks
  BY <1>10 DEF DestroyForks, TypeOK, ForksAccounted, MealsLeft, MainAccounted, HeldBy
<1>11. CASE Over \/ UNCHANGED vars
  BY <1>11 DEF Over, vars, TypeOK, ForksAccounted, MealsLeft, MainAccounted, HeldBy
<1> QED
  BY <1>1, <1>2, <1>3, <1>4, <1>5, <1>6, <1>7, <1>8, <1>9, <1>10, <1>11
  DEF Next, philosopher, mainThread


\* The inductive invariant, from which the theorems below follow.
THEOREM Invariance == Spec => []Inv
BY InitInv, NextInv, PTL DEF Spec

\* Every variable keeps its type for every number of philosophers and meals: in
\* particular no philosopher eats more than NMEALS times (philos.c:68).
THEOREM TypeCorrect == Spec => []TypeOK
BY Invariance, PTL DEF Inv

\* A fork is locked by exactly the philosopher that has picked it up and not put
\* it down, so neighbours never eat together (philos.c:88-122).
THEOREM ForksAlwaysAccounted == Spec => []ForksAccounted
BY Invariance, PTL DEF Inv

\* What DestroyedUnused needs of the invariant.
LEMMA DestroyedUnusedFollows == Inv => DestroyedUnused
BY DEF Inv, TypeOK, ForksAccounted, MainAccounted, DestroyedUnused, HeldBy, Fork

\* No mutex is destroyed while a philosopher may still use it (philos.c:52-57).
THEOREM NeverUsedAfterDestroy == Spec => []DestroyedUnused
BY Invariance, DestroyedUnusedFollows, PTL

-----------------------------------------------------------------------------

\* Among the forks of a set that is not empty there is a least one.
LEMMA LeastFork ==
  ASSUME NEW S, S \subseteq Fork, S # {}
  PROVE  \E f \in S : \A g \in S : f <= g
<1>1. S \subseteq Nat
  BY NPhilosophersAssumption DEF Fork, Philosopher
<1> DEFINE Less == {pair \in Nat \X Nat : pair[1] < pair[2]}
<1>2. IsWellFoundedOn(Less, Nat)
  BY NatLessThanWellFounded DEF OpToRel
<1> HIDE DEF Less
<1>3. PICK f \in S : \A g \in S : ~ (<< g, f >> \in Less)
  BY <1>1, <1>2, WFMin
<1>4. \A g \in S : ~ (g < f)
  BY <1>1, <1>3 DEF Less
<1> QED
  BY <1>1, <1>4

\* Whoever holds a fork that is waited for either can run or itself waits for a
\* lower fork that is held; so the lowest such fork has a holder that can run.
LEMMA NoDeadlockFollows == Inv => NoDeadlock
<1> SUFFICES ASSUME Inv, NEW n \in Philosopher, Seated(n),
                    \A m \in Philosopher : Seated(m) => Blocked(m)
             PROVE  FALSE
  BY DEF NoDeadlock
<1> DEFINE Wanted == {f \in Fork : lock[f] # Nobody /\ \E m \in Philosopher : Awaits(m, f)}
<1>1. Wanted # {}
  BY DEF Blocked
<1>2. PICK f \in Wanted : \A g \in Wanted : f <= g
  BY <1>1, LeastFork
<1>3. PICK m \in Philosopher : lock[f] = m
  BY <1>2 DEF Inv, TypeOK
<1>4. f \in HeldBy(m)
  BY <1>3 DEF Inv, ForksAccounted
<1>5. pc[m] \in {"second", "eat", "right"}
  BY <1>4 DEF HeldBy, Inv, TypeOK
<1>6. Blocked(m)
  BY <1>5 DEF Seated
<1>7. pc[m] = "second" /\ SecondFork(m) \in Wanted
  BY <1>5, <1>6, ForkOrder DEF Blocked, Awaits
<1>8. f = FirstFork(m)
  BY <1>4, <1>7 DEF HeldBy
<1> QED
  BY <1>2, <1>7, <1>8, ForkOrder, NPhilosophersAssumption DEF Fork, Philosopher

\* The philosophers never all wait: as long as one has meals to eat, one of them
\* can move (philos.c:88-101), for every number of philosophers.
THEOREM DeadlockFree == Spec => []NoDeadlock
BY Invariance, NoDeadlockFollows, PTL
-----------------------------------------------------------------------------
(***************************************************************************)
(* Every step of the program is a step of Dining, or none.                 *)
(***************************************************************************)

Eating == {n \in Philosopher : pc[n] = "eat"}
Meals == [n \in Philosopher |-> mealsEaten[n] + IF pc[n] = "right" THEN 1 ELSE 0]

\* A step of the program that the abstract table does not see.
LEMMA Stutter ==
  ASSUME TypeOK, NEW n \in Philosopher, NEW label,
         GoesTo(n, label), UNCHANGED mealsEaten,
         pc[n] \notin {"eat", "right"}, label \notin {"eat", "right"}
  PROVE  UNCHANGED << Eating, Meals >>
BY DEF TypeOK, GoesTo, Eating, Meals

\* A philosopher that has just locked its second fork has no eating neighbour,
\* as that one would hold the fork they share.
LEMMA NoNeighbourEats ==
  ASSUME Inv, NEW n \in Philosopher, TakeSecond(n), NEW m \in Eating
  PROVE  << n, m >> \notin Conflict
<1> USE DEF Inv, Eating
<1>1. lock[SecondFork(n)] = Nobody /\ pc[n] = "second"
  BY DEF TakeSecond, LockFork
<1>2. lock[FirstFork(n)] = n
  BY <1>1, ForkOrder DEF ForksAccounted, HeldBy
<1>3. lock[leftfork(m)] = m /\ lock[rightfork(m)] = m
  BY ForkOrder DEF ForksAccounted, HeldBy
<1>4. m # Nobody /\ m \in Philosopher
  BY DEF Philosopher, Nobody
<1>5. << n, m >>[1] = n /\ << n, m >>[2] = m
  OBVIOUS
<1>6. ASSUME n # m, NEW f \in ForksOf(n), f \in ForksOf(m) PROVE FALSE
  BY <1>1, <1>2, <1>3, <1>4, <1>6, ForkOrder DEF ForksOf
<1> QED
  BY <1>5, <1>6 DEF Conflict

\* Every step of the program is a step of Dining or a stutter.
LEMMA StepSimulation == Inv /\ [Next]_vars => [Abstract!Next]_(Abstract!vars)
<1> SUFFICES ASSUME Inv, [Next]_vars
             PROVE  \/ \E n \in Philosopher : Abstract!StartMeal(n) \/ Abstract!FinishMeal(n)
                    \/ UNCHANGED << Eating, Meals >>
  BY DEF Abstract!Next, Abstract!vars, Eating, Meals
<1> USE DEF Inv
<1>1. ASSUME NEW n \in Philosopher, Think(n) PROVE UNCHANGED << Eating, Meals >>
  BY <1>1, Stutter DEF Think
<1>2. ASSUME NEW n \in Philosopher, Depart(n) PROVE UNCHANGED << Eating, Meals >>
  BY <1>2, Stutter DEF Depart
<1>3. ASSUME NEW n \in Philosopher, TakeFirst(n) PROVE UNCHANGED << Eating, Meals >>
  BY <1>3, Stutter DEF TakeFirst
<1>4. ASSUME NEW n \in Philosopher, TakeSecond(n) PROVE Abstract!StartMeal(n)
  <2>1. n \notin Eating /\ Eating' = Eating \cup {n}
    BY <1>4 DEF TakeSecond, GoesTo, TypeOK, Eating
  <2>2. Meals' = Meals /\ Meals[n] < NMEALS
    BY <1>4, NMealsAssumption DEF TakeSecond, GoesTo, TypeOK, MealsLeft, Meals
  <2>3. \A m \in Eating : << n, m >> \notin Conflict
    BY <1>4, NoNeighbourEats
  <2> QED
    BY <2>1, <2>2, <2>3 DEF Abstract!StartMeal, Eating, Meals
<1>5. ASSUME NEW n \in Philosopher, ReturnLeft(n) PROVE Abstract!FinishMeal(n)
  <2>1. n \in Eating /\ Eating' = Eating \ {n}
    BY <1>5 DEF ReturnLeft, GoesTo, TypeOK, Eating
  <2>2. Meals' = [Meals EXCEPT ![n] = @ + 1]
    <3>1. Meals[n] = mealsEaten[n] /\ mealsEaten[n] \in Nat
      BY <1>5, NMealsAssumption DEF ReturnLeft, TypeOK, Meals
    <3>2. \A m \in Philosopher : Meals'[m] = IF m = n THEN Meals[n] + 1 ELSE Meals[m]
      BY <1>5, <3>1 DEF ReturnLeft, GoesTo, TypeOK, Meals
    <3> QED
      BY <3>2 DEF Meals
  <2> QED
    BY <2>1, <2>2 DEF Abstract!FinishMeal, Eating, Meals
<1>6. ASSUME NEW n \in Philosopher, ReturnRight(n) PROVE UNCHANGED << Eating, Meals >>
  <2>1. Eating' = Eating
    BY <1>6 DEF ReturnRight, GoesTo, TypeOK, Eating
  <2>2. Meals' = Meals
    BY <1>6 DEF ReturnRight, GoesTo, TypeOK, Meals
  <2> QED
    BY <2>1, <2>2
<1>7. CASE Create
  <2>1. i \in Philosopher /\ pc[i] = "new"
    BY <1>7, NPhilosophersAssumption DEF Create, TypeOK, MainAccounted, Philosopher
  <2> QED
    BY <1>7, <2>1, Stutter DEF Create
<1>8. CASE StartJoining \/ Join \/ DestroyForks \/ Over \/ UNCHANGED vars
  BY <1>8 DEF StartJoining, Join, DestroyForks, Over, vars, Eating, Meals
<1> QED
  BY <1>1, <1>2, <1>3, <1>4, <1>5, <1>6, <1>7, <1>8 DEF Next, philosopher, mainThread

\* The program implements the safety of Dining: no two neighbours eat at the same
\* time and every meal is counted once (philos.c:63-122).
THEOREM Implementation == Spec => Abstract!Safety
<1>1. Init => Abstract!Init
  BY NMealsAssumption DEF Init, Abstract!Init
<1> QED
  BY <1>1, Invariance, StepSimulation, PTL DEF Spec, Abstract!Safety

-----------------------------------------------------------------------------
(***************************************************************************)
(* Why the program comes to its end                                        *)
(***************************************************************************)

\* The steps that a philosopher still has to take: five for each meal, and its departure.
StepsOf(n) ==
  CASE pc[n] = "gone"             -> 0
    [] pc[n] \in {"new", "loop"}  -> 5 * (NMEALS - mealsEaten[n]) + 1
    [] pc[n] = "first"            -> 5 * (NMEALS - mealsEaten[n])
    [] pc[n] = "second"           -> 5 * (NMEALS - mealsEaten[n]) - 1
    [] pc[n] = "eat"              -> 5 * (NMEALS - mealsEaten[n]) - 2
    [] pc[n] = "right"            -> 5 * (NMEALS - mealsEaten[n]) - 3

\* Those of main: its two loops, and what comes after each.
StepsOfMain ==
  CASE main = "create" -> 2 * NPHILOSOPHERS - i + 2
    [] main = "join"   -> NPHILOSOPHERS - i + 1
    [] main = "exit"   -> 0

StepsKnown ==
  /\ \A n \in Philosopher : StepsOf(n) \in 0 .. 5 * NMEALS + 1
  /\ StepsOfMain \in 0 .. 2 * NPHILOSOPHERS + 2

\* A step is one of those of one thread, and takes nothing from the others.
StepOfOne ==
  \/ /\ StepsOfMain' = StepsOfMain - 1
     /\ \A n \in Philosopher : StepsOf(n)' = StepsOf(n)
  \/ /\ StepsOfMain' = StepsOfMain
     /\ \E n \in Philosopher :
          /\ StepsOf(n)' = StepsOf(n) - 1
          /\ \A m \in Philosopher \ {n} : StepsOf(m)' = StepsOf(m)

\* A philosopher that nothing keeps from its next step, and main when nothing does.
Able(n) ==
  \/ pc[n] \in {"loop", "eat", "right"}
  \/ pc[n] = "first" /\ lock[FirstFork(n)] = Nobody
  \/ pc[n] = "second" /\ lock[SecondFork(n)] = Nobody

MainAble == main = "create" \/ (main = "join" /\ (i = NPHILOSOPHERS \/ Ended(i)))

SomeoneAble == main = "exit" \/ MainAble \/ \E n \in Philosopher : Able(n)

\* The steps that are left are as many as the counters say.
LEMMA StepsKnownFollows == Inv => StepsKnown
<1> SUFFICES ASSUME Inv PROVE StepsKnown
  OBVIOUS
<1>1. NMEALS \in Nat /\ NPHILOSOPHERS \in Nat
  BY NPhilosophersAssumption, NMealsAssumption
<1>2. ASSUME NEW n \in Philosopher PROVE StepsOf(n) \in 0 .. 5 * NMEALS + 1
  <2> DEFINE k == NMEALS - mealsEaten[n]
  <2>1. /\ pc[n] \in {"new", "loop", "first", "second", "eat", "right", "gone"}
        /\ mealsEaten[n] \in 0 .. NMEALS
    BY DEF Inv, TypeOK
  <2>2. k \in Nat /\ k <= NMEALS
    BY <1>1, <2>1
  <2>3. pc[n] \in {"first", "second", "eat", "right"} => k # 0
    BY <1>1, <2>1 DEF Inv, MealsLeft
  <2>4. StepsOf(n) = CASE pc[n] = "gone"             -> 0
                       [] pc[n] \in {"new", "loop"}  -> 5 * k + 1
                       [] pc[n] = "first"            -> 5 * k
                       [] pc[n] = "second"           -> 5 * k - 1
                       [] pc[n] = "eat"              -> 5 * k - 2
                       [] pc[n] = "right"            -> 5 * k - 3
    BY DEF StepsOf
  <2> HIDE DEF k
  <2> QED
    BY <1>1, <2>1, <2>2, <2>3, <2>4
<1>3. StepsOfMain \in 0 .. 2 * NPHILOSOPHERS + 2
  BY <1>1 DEF Inv, TypeOK, StepsOfMain
<1> QED
  BY <1>2, <1>3 DEF StepsKnown

\* A step of a philosopher is one of its own.
LEMMA PhilosopherStep ==
  ASSUME Inv, NEW n \in Philosopher, philosopher(n)
  PROVE  StepOfOne
<1>1. NMEALS \in Nat
  BY NMealsAssumption
<1>2. /\ mealsEaten \in [Philosopher -> 0 .. NMEALS]
      /\ pc \in [Philosopher -> {"new", "loop", "first", "second", "eat", "right", "gone"}]
  BY DEF Inv, TypeOK
<1>3. UNCHANGED << main, i >>
  BY DEF philosopher, Think, Depart, TakeFirst, TakeSecond, ReturnLeft, ReturnRight
<1>4. StepsOfMain' = StepsOfMain
  BY <1>3 DEF StepsOfMain
<1>5. \A m \in Philosopher \ {n} : pc'[m] = pc[m] /\ mealsEaten'[m] = mealsEaten[m]
  BY <1>2 DEF philosopher, Think, Depart, TakeFirst, TakeSecond, ReturnLeft, ReturnRight, GoesTo
<1>6. \A m \in Philosopher \ {n} : StepsOf(m)' = StepsOf(m)
  BY <1>5 DEF StepsOf
<1>7. StepsOf(n)' = StepsOf(n) - 1
  <2>1. CASE mealsEaten'[n] = mealsEaten[n] /\ << pc[n], pc'[n] >> \in
               {<< "loop", "first" >>, << "first", "second" >>, << "second", "eat" >>, << "eat", "right" >>}
    BY <1>1, <1>2, <2>1 DEF StepsOf
  <2>2. CASE mealsEaten[n] = NMEALS /\ pc[n] = "loop" /\ pc'[n] = "gone"
    BY <1>1, <2>2 DEF StepsOf
  <2>3. CASE mealsEaten'[n] = mealsEaten[n] + 1 /\ pc[n] = "right" /\ pc'[n] = "loop"
    BY <1>1, <1>2, <2>3 DEF StepsOf
  <2>4. CASE Think(n) \/ TakeFirst(n) \/ TakeSecond(n) \/ ReturnLeft(n)
    BY <1>2, <2>1, <2>4 DEF Think, TakeFirst, TakeSecond, ReturnLeft, GoesTo
  <2>5. CASE Depart(n)
    BY <1>2, <2>2, <2>5 DEF Depart, GoesTo
  <2>6. CASE ReturnRight(n)
    BY <1>2, <2>3, <2>6 DEF ReturnRight, GoesTo
  <2> QED
    BY <2>4, <2>5, <2>6 DEF philosopher
<1> QED
  BY <1>4, <1>6, <1>7 DEF StepOfOne

\* A step of main is one of its own; the creation of a thread is not a step of that thread.
LEMMA MainStep ==
  ASSUME Inv, mainThread
  PROVE  StepOfOne
<1>1. NPHILOSOPHERS \in Nat /\ i \in Nat
  BY NPhilosophersAssumption DEF Inv, TypeOK
<1>2. StepsOfMain' = StepsOfMain - 1
  BY <1>1 DEF mainThread, Create, StartJoining, Join, DestroyForks, StepsOfMain
<1>3. ASSUME NEW n \in Philosopher PROVE StepsOf(n)' = StepsOf(n)
  <2>1. mealsEaten' = mealsEaten
    BY DEF mainThread, Create, StartJoining, Join, DestroyForks
  <2>2. pc'[n] = pc[n] \/ (pc[n] = "new" /\ pc'[n] = "loop")
    <3>1. CASE Create
      <4>1. i \in Philosopher /\ pc[i] = "new"
        BY <1>1, <3>1 DEF Create, Inv, MainAccounted, Philosopher
      <4>2. pc' = [pc EXCEPT ![i] = "loop"]
        BY <3>1 DEF Create, GoesTo
      <4>3. DOMAIN pc = Philosopher /\ pc = [m \in Philosopher |-> pc[m]]
        BY DEF Inv, TypeOK
      <4>4. pc'[n] = IF n = i THEN "loop" ELSE pc[n]
        BY <4>2, <4>3
      <4> QED
        BY <4>1, <4>4
    <3>2. CASE StartJoining \/ Join \/ DestroyForks
      <4>1. pc' = pc
        BY <3>2 DEF StartJoining, Join, DestroyForks
      <4> QED
        BY <4>1
    <3> QED
      BY <3>1, <3>2 DEF mainThread
  <2> QED
    BY <2>1, <2>2 DEF StepsOf
<1> QED
  BY <1>2, <1>3 DEF StepOfOne

\* Until main has returned somebody can go on: main, or a philosopher at the table
\* that does not wait for a fork.
LEMMA SomeoneAbleFollows == Inv => SomeoneAble
<1> SUFFICES ASSUME Inv PROVE SomeoneAble
  OBVIOUS
<1>1. main \in {"create", "join", "exit"} /\ i \in 0 .. NPHILOSOPHERS
  BY DEF Inv, TypeOK
<1>2. CASE main \in {"create", "exit"} \/ MainAble
  BY <1>2 DEF SomeoneAble, MainAble
<1>3. CASE main = "join" /\ ~ MainAble
  <2>1. i # NPHILOSOPHERS /\ ~ Ended(i)
    BY <1>3 DEF MainAble
  <2>2. i \in Philosopher
    BY <1>1, <2>1, NPhilosophersAssumption DEF Philosopher
  <2>3. Seated(i)
    BY <1>3, <2>1, <2>2 DEF Inv, MainAccounted, Ended, Seated
  <2>4. PICK n \in Philosopher : Seated(n) /\ ~ Blocked(n)
    BY <2>2, <2>3, NoDeadlockFollows DEF NoDeadlock
  <2>5. pc[n] \in {"loop", "first", "second", "eat", "right"}
    BY <2>4 DEF Inv, TypeOK, Seated
  <2>6. FirstFork(n) \in Fork /\ SecondFork(n) \in Fork
    BY ForkOrder
  <2>7. Able(n)
    BY <2>4, <2>5, <2>6 DEF Blocked, Awaits, Able
  <2> QED
    BY <2>7 DEF SomeoneAble
<1> QED
  BY <1>1, <1>2, <1>3

NearerToTheEnd == []StepsKnown /\ [][StepOfOne]_vars /\ []SomeoneAble

\* However the mutexes choose among those who wait, the program comes nearer to its end
\* with every step: a thread has so many steps left, each step is one of them, and until
\* main has returned there is a thread that can take one (philos.c:38-57, 62-122).
THEOREM ProgressUntilExit == Spec => NearerToTheEnd
<1>1. Inv /\ [Next]_vars => [StepOfOne]_vars
  BY PhilosopherStep, MainStep DEF Next, Over
<1> QED
  BY <1>1, StepsKnownFollows, SomeoneAbleFollows, Invariance, PTL DEF Spec, NearerToTheEnd
=============================================================================
