----------------------- MODULE AnimatedPhilosophersProofs -----------------------
(***************************************************************************)
(* With its reports left out the animated program is the basic one, for    *)
(* every number of philosophers and meals and every length of the sleeps.  *)
(* What is drawn agrees with it, and the timeout of anim.py is long enough.*)
(***************************************************************************)
EXTENDS AnimatedPhilosophers, TLAPS

\* Where the threads of the animated program stand.
Label == {"new", "loop", "think", "first", "sock1", "report1", "second", "sock2", "report2",
          "eat", "sock3", "left", "right", "gone"}

\* The types of what both programs have; a philosopher that thinks has a meal to come.
Inv ==
  /\ pc \in [Philosopher -> Label]
  /\ i \in 0 .. NPHILOSOPHERS
  /\ \A n \in Philosopher : pc[n] = "think" => mealsEaten[n] < NMEALS

\* The invariant holds when main has initialized the mutexes.
LEMMA InitInv == AnimatedInit => Inv
BY NPhilosophersAssumption DEF AnimatedInit, Init, Inv, Label, Philosopher

\* A step from one label to another keeps the invariant.
LEMMA GoesToInv ==
  ASSUME Inv, NEW n \in Philosopher, NEW label \in Label, GoesTo(n, label),
         label = "think" => mealsEaten[n] < NMEALS,
         \A m \in Philosopher : m # n => mealsEaten'[m] = mealsEaten[m],
         label = "think" => mealsEaten' = mealsEaten,
         i' \in 0 .. NPHILOSOPHERS
  PROVE  Inv'
BY DEF Inv, GoesTo

\* pc as the basic program has it.
BasicLabel(label) ==
  CASE label = "think"                               -> "loop"
    [] label \in {"sock1", "report1"}                -> "second"
    [] label \in {"sock2", "report2", "sock3", "left"} -> "eat"
    [] OTHER                                         -> label
BasicPc == [n \in Philosopher |-> BasicLabel(pc[n])]

\* A step of a thread is one of the same thread there.
LEMMA GoesToBasic ==
  ASSUME Inv, NEW n \in Philosopher, NEW label, GoesTo(n, label)
  PROVE  BasicPc' = [BasicPc EXCEPT ![n] = BasicLabel(label)]
BY DEF Inv, GoesTo, BasicPc

\* The variables of the basic program.
LEMMA BasicUnchanged == UNCHANGED << BasicPc, mealsEaten, lock, main, i >> => UNCHANGED Basic!vars
BY DEF Basic!vars, BasicPc, BasicLabel

-----------------------------------------------------------------------------
(***************************************************************************)
(* The invariant                                                           *)
(***************************************************************************)

\* What a philosopher does keeps the invariant.
LEMMA PhilosopherInv ==
  ASSUME Inv, NEW n \in Philosopher, animatedPhilosopher(n)
  PROVE  Inv'
<1> USE DEF Label
<1>0. i \in 0 .. NPHILOSOPHERS
  BY DEF Inv
<1>1. CASE BeginThinking(n)
  BY <1>0, <1>1, GoesToInv DEF BeginThinking
<1>2. CASE EndThinking(n)
  BY <1>0, <1>2, GoesToInv DEF EndThinking
<1>3. CASE PickUp(n, FirstFork(n), "first", "sock1") \/ PickUp(n, SecondFork(n), "second", "sock2")
  BY <1>0, <1>3, GoesToInv DEF PickUp
<1>4. CASE \/ LockSocket(n, "sock1", "report1") \/ LockSocket(n, "sock2", "report2")
           \/ LockSocket(n, "sock3", "left")
  BY <1>0, <1>4, GoesToInv DEF LockSocket
<1>5. CASE ReportFirst(n)
  BY <1>0, <1>5, GoesToInv DEF ReportFirst
<1>6. CASE ReportSecond(n)
  BY <1>0, <1>6, GoesToInv DEF ReportSecond
<1>7. CASE EndEating(n)
  BY <1>0, <1>7, GoesToInv DEF EndEating
<1>8. CASE PutDownLeft(n)
  BY <1>0, <1>8, GoesToInv DEF PutDownLeft
<1>9. CASE PutDownRight(n)
  BY <1>0, <1>9, GoesToInv DEF PutDownRight
<1>10. CASE Depart(n)
  BY <1>0, <1>10, GoesToInv DEF Depart
<1> QED
  BY <1>1, <1>2, <1>3, <1>4, <1>5, <1>6, <1>7, <1>8, <1>9, <1>10 DEF animatedPhilosopher

\* What main does keeps the invariant.
LEMMA MainInv == Inv /\ mainThread => Inv'
<1> SUFFICES ASSUME Inv, mainThread PROVE Inv'
  OBVIOUS
<1> USE NPhilosophersAssumption
<1>1. CASE Create
  <2>1. i \in Philosopher /\ i' \in 0 .. NPHILOSOPHERS
    BY <1>1 DEF Create, Inv, Philosopher
  <2> QED
    BY <1>1, <2>1, GoesToInv DEF Create, Label
<1>2. CASE StartJoining
  BY <1>2 DEF StartJoining, Inv
<1>3. CASE Join
  BY <1>3 DEF Join, Inv
<1>4. CASE DestroyForks
  BY <1>4 DEF DestroyForks, Inv
<1> QED
  BY <1>1, <1>2, <1>3, <1>4 DEF mainThread

\* All other steps leave the program alone.
LEMMA OtherSteps ==
  ASSUME \/ LoseReply \/ anim \/ CloseWindow \/ Tick \/ AnimatedOver \/ UNCHANGED allVars
  PROVE  UNCHANGED vars
BY DEF LoseReply, anim, Ask, Animate, GiveUp, CloseWindow, Tick, AnimatedOver, allVars

\* The invariant is inductive.
LEMMA NextInv == Inv /\ [AnimatedNext]_allVars => Inv'
<1>1. Inv /\ UNCHANGED vars => Inv'
  BY DEF Inv, vars
<1> QED
  BY <1>1, PhilosopherInv, MainInv, OtherSteps DEF AnimatedNext

-----------------------------------------------------------------------------
(***************************************************************************)
(* The step simulation                                                     *)
(***************************************************************************)

\* The basic program's operators are those that the animated one has from it.
LEMMA SameForks ==
  /\ Basic!Philosopher = Philosopher /\ Basic!Nobody = Nobody
  /\ \A n \in Philosopher : /\ Basic!FirstFork(n) = FirstFork(n)
                            /\ Basic!SecondFork(n) = SecondFork(n)
                            /\ Basic!leftfork(n) = leftfork(n)
                            /\ Basic!rightfork(n) = rightfork(n)
BY DEF Basic!Philosopher, Philosopher, Basic!Nobody, Nobody, Basic!FirstFork, FirstFork,
       Basic!SecondFork, SecondFork, Basic!leftfork, leftfork, Basic!rightfork, rightfork

\* Where a philosopher stands there, and where it goes.
LEMMA BasicPcValue ==
  ASSUME NEW n \in Philosopher
  PROVE  BasicPc[n] = BasicLabel(pc[n])
BY DEF BasicPc

LEMMA BasicGoesTo ==
  ASSUME Inv, NEW n \in Philosopher, NEW label, GoesTo(n, label)
  PROVE  Basic!GoesTo(n, BasicLabel(label))
BY GoesToBasic DEF Basic!GoesTo, BasicPc, BasicLabel

\* From one label to another of the same meaning is no step there.
LEMMA StaysBasic ==
  ASSUME Inv, NEW n \in Philosopher, NEW label, GoesTo(n, label),
         BasicLabel(label) = BasicLabel(pc[n]), UNCHANGED << mealsEaten, lock, main, i >>
  PROVE  UNCHANGED Basic!vars
<1>1. BasicPc' = BasicPc
  BY GoesToBasic DEF BasicPc
<1> QED
  BY <1>1, BasicUnchanged

\* What a philosopher does is a step of that philosopher there, or none.
LEMMA PhilosopherStep ==
  ASSUME Inv, NEW n \in Philosopher, animatedPhilosopher(n)
  PROVE  Basic!philosopher(n) \/ UNCHANGED Basic!vars
<1>1. CASE BeginThinking(n)
  BY <1>1, StaysBasic DEF BeginThinking, BasicLabel
<1>2. CASE EndThinking(n)
  <2>1. BasicLabel("first") = "first" /\ BasicPc[n] = "loop" /\ mealsEaten[n] < NMEALS
    BY <1>2, BasicPcValue DEF EndThinking, BasicLabel, Inv
  <2>2. Basic!GoesTo(n, "first")
    BY <1>2, <2>1, BasicGoesTo DEF EndThinking
  <2> QED
    BY <1>2, <2>1, <2>2 DEF EndThinking, Basic!philosopher, Basic!Think, BasicPc, BasicLabel
<1>3. CASE PickUp(n, FirstFork(n), "first", "sock1")
  <2>1. BasicLabel("sock1") = "second" /\ BasicPc[n] = "first"
    BY <1>3, BasicPcValue DEF PickUp, BasicLabel
  <2>2. Basic!GoesTo(n, "second") /\ Basic!LockFork(n, Basic!FirstFork(n))
    BY <1>3, <2>1, BasicGoesTo, SameForks DEF PickUp, LockFork, Basic!LockFork
  <2> QED
    BY <1>3, <2>1, <2>2 DEF PickUp, Basic!philosopher, Basic!TakeFirst, BasicPc, BasicLabel
<1>4. CASE PickUp(n, SecondFork(n), "second", "sock2")
  <2>1. BasicLabel("sock2") = "eat" /\ BasicPc[n] = "second"
    BY <1>4, BasicPcValue DEF PickUp, BasicLabel
  <2>2. Basic!GoesTo(n, "eat") /\ Basic!LockFork(n, Basic!SecondFork(n))
    BY <1>4, <2>1, BasicGoesTo, SameForks DEF PickUp, LockFork, Basic!LockFork
  <2> QED
    BY <1>4, <2>1, <2>2 DEF PickUp, Basic!philosopher, Basic!TakeSecond, BasicPc, BasicLabel
<1>5. CASE \/ LockSocket(n, "sock1", "report1") \/ LockSocket(n, "sock2", "report2")
           \/ LockSocket(n, "sock3", "left")
  BY <1>5, StaysBasic DEF LockSocket, BasicLabel
<1>6. CASE ReportFirst(n)
  BY <1>6, StaysBasic DEF ReportFirst, BasicLabel
<1>7. CASE ReportSecond(n)
  BY <1>7, StaysBasic DEF ReportSecond, BasicLabel
<1>8. CASE EndEating(n)
  BY <1>8, StaysBasic DEF EndEating, BasicLabel
<1>9. CASE PutDownLeft(n)
  <2>1. BasicLabel("right") = "right" /\ BasicPc[n] = "eat"
    BY <1>9, BasicPcValue DEF PutDownLeft, BasicLabel
  <2>2. Basic!GoesTo(n, "right")
    BY <1>9, <2>1, BasicGoesTo DEF PutDownLeft
  <2> QED
    BY <1>9, <2>1, <2>2, SameForks
    DEF PutDownLeft, Basic!philosopher, Basic!ReturnLeft, Basic!Nobody, Nobody, BasicPc, BasicLabel
<1>10. CASE PutDownRight(n)
  <2>1. BasicLabel("loop") = "loop" /\ BasicPc[n] = "right"
    BY <1>10, BasicPcValue DEF PutDownRight, BasicLabel
  <2>2. Basic!GoesTo(n, "loop")
    BY <1>10, <2>1, BasicGoesTo DEF PutDownRight
  <2> QED
    BY <1>10, <2>1, <2>2, SameForks
    DEF PutDownRight, Basic!philosopher, Basic!ReturnRight, Basic!Nobody, Nobody, BasicPc, BasicLabel
<1>11. CASE Depart(n)
  <2>1. BasicLabel("gone") = "gone" /\ BasicPc[n] = "loop"
    BY <1>11, BasicPcValue DEF Depart, BasicLabel
  <2>2. Basic!GoesTo(n, "gone")
    BY <1>11, <2>1, BasicGoesTo DEF Depart
  <2> QED
    BY <1>11, <2>1, <2>2 DEF Depart, Basic!philosopher, Basic!Depart, BasicPc, BasicLabel
<1> QED
  BY <1>1, <1>2, <1>3, <1>4, <1>5, <1>6, <1>7, <1>8, <1>9, <1>10, <1>11 DEF animatedPhilosopher

\* What main does is a step of main there.
LEMMA MainStep == Inv /\ mainThread => Basic!mainThread
<1> SUFFICES ASSUME Inv, mainThread PROVE Basic!mainThread
  OBVIOUS
<1>1. UNCHANGED pc => UNCHANGED BasicPc
  BY DEF BasicPc
<1>2. CASE Create
  <2>1. i \in Philosopher
    BY <1>2, NPhilosophersAssumption DEF Create, Inv, Philosopher
  <2>2. Basic!GoesTo(i, "loop")
    <3>1. BasicLabel("loop") = "loop"
      BY DEF BasicLabel
    <3> QED
      BY <1>2, <2>1, <3>1, BasicGoesTo DEF Create
  <2> QED
    BY <1>2, <2>2 DEF Create, Basic!mainThread, Basic!Create
<1>3. CASE StartJoining
  BY <1>1, <1>3 DEF StartJoining, Basic!mainThread, Basic!StartJoining, BasicPc, BasicLabel
<1>4. CASE Join
  <2>1. i \in Philosopher
    BY <1>4, NPhilosophersAssumption DEF Join, Inv, Philosopher
  <2>2. BasicPc[i] = "gone"
    BY <1>4, <2>1, BasicPcValue DEF Join, Ended, BasicLabel
  <2> QED
    BY <1>1, <1>4, <2>2 DEF Join, Basic!mainThread, Basic!Join, Basic!Ended, BasicPc, BasicLabel
<1>5. CASE DestroyForks
  BY <1>1, <1>5 DEF DestroyForks, Basic!mainThread, Basic!DestroyForks, BasicPc, BasicLabel
<1> QED
  BY <1>2, <1>3, <1>4, <1>5 DEF mainThread

\* Every step is a step of the basic program, or none.
LEMMA StepSimulation == Inv /\ [AnimatedNext]_allVars => [Basic!Next]_(Basic!vars)
<1> SUFFICES ASSUME Inv, [AnimatedNext]_allVars PROVE [Basic!Next]_(Basic!vars)
  OBVIOUS
<1>1. UNCHANGED vars => UNCHANGED Basic!vars
  <2>1. UNCHANGED pc => UNCHANGED BasicPc
    BY DEF BasicPc
  <2> QED
    BY <2>1, BasicUnchanged DEF vars
<1>2. ASSUME NEW n \in Philosopher, animatedPhilosopher(n)
      PROVE  [Basic!Next]_(Basic!vars)
  BY <1>2, PhilosopherStep, SameForks DEF Basic!Next
<1>3. CASE mainThread
  BY <1>3, MainStep DEF Basic!Next
<1> QED
  BY <1>1, <1>2, <1>3, OtherSteps DEF AnimatedNext

\* The initial states are initial states there.
LEMMA InitSimulation == AnimatedInit => Basic!Init
<1>1. AnimatedInit => BasicPc = [n \in Philosopher |-> "new"]
  BY DEF AnimatedInit, Init, BasicPc, BasicLabel
<1> QED
  BY <1>1
  DEF AnimatedInit, Init, Basic!Init, BasicPc, BasicLabel, Basic!Philosopher, Philosopher,
      Basic!Fork, Fork, Basic!Nobody, Nobody

-----------------------------------------------------------------------------

\* The invariant of the animated program.
THEOREM Invariance == AnimatedSpec => []Inv
BY InitInv, NextInv, PTL DEF AnimatedSpec

\* The animated program implements the basic one: the reports, the socket and the
\* window (Animated/philos.c:118-165) change nothing of what the philosophers do.
THEOREM BasicImplemented == AnimatedSpec => ImplementsBasic
BY Invariance, InitSimulation, StepSimulation, PTL DEF AnimatedSpec, ImplementsBasic

\* What is proved of the basic program holds of the animated one.
Proved == INSTANCE PhilosophersProofs WITH pc <- BasicPc

\* Its initial states and its steps are those that Basic has.
LEMMA SameInit == Basic!Init => Proved!Init
BY DEF Basic!Init, Proved!Init, BasicPc, BasicLabel, Basic!Philosopher, Proved!Philosopher,
       Basic!Fork, Proved!Fork, Basic!Nobody, Proved!Nobody, Philosopher

LEMMA SameNext == [Basic!Next]_(Basic!vars) => [Proved!Next]_(Proved!vars)
BY DEF Basic!Next, Proved!Next, Basic!vars, Proved!vars, BasicPc, BasicLabel,
       Basic!Philosopher, Proved!Philosopher, Philosopher,
       Basic!Fork, Proved!Fork, Basic!Nobody, Proved!Nobody,
       Basic!philosopher, Proved!philosopher, Basic!GoesTo, Proved!GoesTo,
       Basic!Think, Proved!Think, Basic!Depart, Proved!Depart,
       Basic!LockFork, Proved!LockFork, Basic!TakeFirst, Proved!TakeFirst,
       Basic!TakeSecond, Proved!TakeSecond, Basic!ReturnLeft, Proved!ReturnLeft,
       Basic!ReturnRight, Proved!ReturnRight,
       Basic!FirstFork, Proved!FirstFork, Basic!SecondFork, Proved!SecondFork,
       Basic!leftfork, Proved!leftfork, Basic!rightfork, Proved!rightfork,
       Basic!mainThread, Proved!mainThread, Basic!Create, Proved!Create,
       Basic!StartJoining, Proved!StartJoining, Basic!Join, Proved!Join, Basic!Ended, Proved!Ended,
       Basic!DestroyForks, Proved!DestroyForks, Basic!Over, Proved!Over

\* Taking turns at the socket does not make the philosophers wait for each other's forks
\* in a circle.
THEOREM ForksDeadlockFree == AnimatedSpec => []Proved!NoDeadlock
<1>1. Proved!Init => Proved!Inv
  BY Proved!InitInv, NPhilosophersAssumption, NMealsAssumption
<1>2. Proved!Inv /\ [Proved!Next]_(Proved!vars) => Proved!Inv'
  BY Proved!NextInv, NPhilosophersAssumption, NMealsAssumption
<1>3. Proved!Inv => Proved!NoDeadlock
  BY Proved!NoDeadlockFollows, NPhilosophersAssumption, NMealsAssumption
<1> QED
  BY <1>1, <1>2, <1>3, SameInit, SameNext, BasicImplemented, PTL DEF ImplementsBasic

-----------------------------------------------------------------------------
(***************************************************************************)
(* What is drawn, and the timeout                                          *)
(***************************************************************************)

\* What a philosopher reports.
Message == [fork : Fork, philosopher : Philosopher, up : BOOLEAN]

\* Where a philosopher holds sock_lock.
Reporting == {"report1", "report2", "left", "right"}

AllGone == \A n \in Philosopher : pc[n] = "gone"

\* The types of what the reports and the clock have.
Types ==
  /\ sleep \in [Philosopher -> 0 .. ACTIME_UPPER]
  /\ timeout \in 0 .. RCVTIMEO
  /\ client \in {"idle", "waiting", "done", "closed"}
  /\ reply = {} \/ \E message \in Message : reply = {message}
  /\ forkUp \in [Fork -> Int]
  /\ bowls \in [Bowl -> [num_up : Int, meals : Int]]

\* Who sleeps thinks or eats, and sock_lock is held by who reports.
Places ==
  /\ \A n \in Philosopher : /\ sleep[n] > 0 => pc[n] \in {"think", "eat"}
                            /\ sockLock = n <=> pc[n] \in Reporting
  /\ sockLock \in Philosopher \cup {Nobody}

\* A request is answered once, and there is none while anim.py draws.
Turns ==
  /\ request => reply = {}
  /\ client \in {"idle", "closed"} => ~ request /\ reply = {}
  /\ client = "waiting" => request \/ reply # {} \/ main = "exit"
  /\ client = "done" => AllGone

\* While a request is not answered every philosopher that sleeps has done so since the
\* request or longer: none begins to, but at the very moment of the request.  So the
\* sleeps are over when half of the timeout is, and then all have gone.
Patience ==
  request /\ client = "waiting" =>
    \/ timeout = RCVTIMEO
    \/ \A n \in Philosopher : pc[n] \notin {"new", "loop"} /\ sleep[n] + ACTIME_UPPER <= timeout
    \/ AllGone

\* How many forks a philosopher has reported, by where it stands.
Phase(label) ==
  CASE label \in {"second", "sock2", "report2"} -> "one"
    [] label \in {"eat", "sock3", "left"}       -> "both"
    [] label = "right"                          -> "right"
    [] OTHER                                    -> "none"

Up(phase) == CASE phase = "none" -> 0 [] phase = "both" -> 2 [] OTHER -> 1
Served(phase) == IF phase \in {"both", "right"} THEN 1 ELSE 0
Reported(n, phase) ==
  CASE phase = "one"   -> {FirstFork(n)}
    [] phase = "both"  -> {FirstFork(n), SecondFork(n)}
    [] phase = "right" -> {rightfork(n)}
    [] OTHER           -> {}

\* What is drawn of fork n and of the bowl of philosopher n.
Drawn ==
  main # "exit" =>
    \A n \in Philosopher :
      /\ ForksDrawn[n] = (IF \E m \in Philosopher : n \in Reported(m, Phase(pc[m])) THEN 1 ELSE 0)
      /\ BowlsDrawn[BowlOf(n)].num_up = Up(Phase(pc[n]))
      /\ BowlsDrawn[BowlOf(n)].meals = mealsEaten[n] + Served(Phase(pc[n]))

AnimInv == Inv /\ Proved!Inv /\ Types /\ Places /\ Turns /\ Patience /\ Drawn

\* The bounds of the sleeps.
LEMMA Bounds ==
  /\ ACTIME_LOWER \in Nat /\ ACTIME_UPPER \in Nat \ {0}
  /\ RCVTIMEO = ACTIME_UPPER + ACTIME_UPPER /\ RCVTIMEO \in Nat
  /\ ACTIME_LOWER .. ACTIME_UPPER \subseteq 0 .. ACTIME_UPPER
BY ActimeAssumption DEF RCVTIMEO

\* Every bowl is that of one philosopher.
LEMMA BowlsApart ==
  /\ \A n \in Philosopher : BowlOf(n) \in Bowl
  /\ \A m, n \in Philosopher : BowlOf(m) = BowlOf(n) => m = n
<1>1. \A n \in Philosopher : BowlOf(n) = IF n = NPHILOSOPHERS - 1 THEN 0 ELSE n + 1
  BY NPhilosophersAssumption DEF BowlOf, Philosopher
<1> QED
  BY <1>1, NPhilosophersAssumption DEF Philosopher, Bowl

\* The forks of a philosopher.
LEMMA Forks ==
  ASSUME NEW n \in Philosopher
  PROVE  /\ FirstFork(n) \in Fork /\ SecondFork(n) \in Fork
         /\ leftfork(n) \in Fork /\ rightfork(n) \in Fork
         /\ FirstFork(n) # SecondFork(n) /\ leftfork(n) # rightfork(n)
         /\ {FirstFork(n), SecondFork(n)} = {leftfork(n), rightfork(n)}
<1>1. rightfork(n) = IF n = NPHILOSOPHERS - 1 THEN 0 ELSE n + 1
  BY NPhilosophersAssumption DEF rightfork, Philosopher
<1> QED
  BY <1>1, NPhilosophersAssumption
  DEF FirstFork, SecondFork, leftfork, Fork, Philosopher

\* What is known of the basic program, in terms of the animated one.
LEMMA FromBasic ==
  ASSUME Inv, Proved!Inv
  PROVE  /\ mealsEaten \in [Philosopher -> 0 .. NMEALS]
         /\ lock \in [Fork -> Philosopher \cup {Nobody}]
         /\ main = "exit" => AllGone
         /\ main = "create" /\ i < NPHILOSOPHERS => i \in Philosopher /\ pc[i] = "new"
         /\ \A n \in Philosopher : \A f \in Reported(n, Phase(pc[n])) : f \in Fork /\ lock[f] = n
         /\ \A n \in Philosopher :
              /\ pc[n] \in {"sock1", "report1"} => lock[FirstFork(n)] = n
              /\ pc[n] \in {"sock2", "report2"} => lock[SecondFork(n)] = n
<1>1. /\ Proved!Philosopher = Philosopher /\ Proved!Fork = Fork /\ Proved!Nobody = Nobody
      /\ \A n \in Philosopher : /\ Proved!FirstFork(n) = FirstFork(n)
                                /\ Proved!SecondFork(n) = SecondFork(n)
                                /\ Proved!rightfork(n) = rightfork(n)
  BY DEF Proved!Philosopher, Philosopher, Proved!Fork, Fork, Proved!Nobody, Nobody,
         Proved!FirstFork, FirstFork, Proved!SecondFork, SecondFork,
         Proved!leftfork, leftfork, Proved!rightfork, rightfork
<1>2. Proved!TypeOK /\ Proved!ForksAccounted /\ Proved!MainAccounted
  BY DEF Proved!Inv
<1>3. mealsEaten \in [Philosopher -> 0 .. NMEALS] /\ lock \in [Fork -> Philosopher \cup {Nobody}]
  BY <1>1, <1>2 DEF Proved!TypeOK
<1>4. \A n \in Philosopher : /\ BasicPc[n] = BasicLabel(pc[n]) /\ pc[n] \in Label
  BY BasicPcValue DEF Inv
<1>5. main = "exit" => AllGone
  <2>1. main = "exit" => \A n \in Philosopher : BasicPc[n] = "gone"
    BY <1>1, <1>2 DEF Proved!MainAccounted, BasicPc, BasicLabel
  <2> QED
    BY <1>4, <2>1 DEF AllGone, BasicLabel, Label
<1>6. main = "create" /\ i < NPHILOSOPHERS => i \in Philosopher /\ pc[i] = "new"
  <2>1. i \in 0 .. NPHILOSOPHERS
    BY DEF Inv
  <2>2. i < NPHILOSOPHERS => i \in Philosopher
    BY <2>1, NPhilosophersAssumption DEF Philosopher
  <2>3. main = "create" /\ i < NPHILOSOPHERS => BasicPc[i] = "new"
    BY <1>1, <1>2, <2>1, <2>2 DEF Proved!MainAccounted, BasicPc, BasicLabel
  <2> QED
    BY <1>4, <2>2, <2>3 DEF BasicLabel, Label
<1>7. ASSUME NEW n \in Philosopher, NEW f \in Fork
      PROVE  lock[f] = n <=> f \in (CASE BasicPc[n] = "second" -> {FirstFork(n)}
                                      [] BasicPc[n] = "eat"    -> {FirstFork(n), SecondFork(n)}
                                      [] BasicPc[n] = "right"  -> {rightfork(n)}
                                      [] OTHER                 -> {})
  BY <1>1, <1>2 DEF Proved!ForksAccounted, Proved!HeldBy, BasicPc, BasicLabel
<1>8. \A n \in Philosopher : \A f \in Reported(n, Phase(pc[n])) : f \in Fork /\ lock[f] = n
  BY <1>4, <1>7, Forks DEF Reported, Phase, BasicLabel, Label
<1>9. \A n \in Philosopher :
         /\ pc[n] \in {"sock1", "report1"} => lock[FirstFork(n)] = n
         /\ pc[n] \in {"sock2", "report2"} => lock[SecondFork(n)] = n
  BY <1>4, <1>7, Forks DEF BasicLabel
<1> QED
  BY <1>3, <1>5, <1>6, <1>8, <1>9

\* What is known of the basic program stays known.
LEMMA ProvedNext ==
  ASSUME Inv, Proved!Inv, [AnimatedNext]_allVars
  PROVE  Inv' /\ Proved!Inv'
<1>1. Proved!Inv /\ [Proved!Next]_(Proved!vars) => Proved!Inv'
  BY Proved!NextInv, NPhilosophersAssumption, NMealsAssumption
<1> QED
  BY <1>1, NextInv, StepSimulation, SameNext

-----------------------------------------------------------------------------
(***************************************************************************)
(* The kinds of steps                                                      *)
(***************************************************************************)

\* A step without a report leaves what is reported alone; only who was between two
\* meals begins to sleep.
Silent(n, label) ==
  /\ GoesTo(n, label)
  /\ UNCHANGED << mealsEaten, request, reply >>
  /\ Phase(label) = Phase(pc[n])
  /\ label # "new"
  /\ pc[n] # "loop" => UNCHANGED sleep /\ label # "loop"

\* The meals eaten when a report is made, by what its bowl had counted before and after.
Gain(before, after) == Served(before) - Served(after) + IF Up(after) = 2 THEN 1 ELSE 0

\* A report says that one more fork was taken or that one less is held, and with the
\* second fork taken a meal begins.
Speaks(n, label, f, up) ==
  LET before == Phase(pc[n])
      after  == Phase(label)
  IN  /\ GoesTo(n, label)
      /\ Report(n, f, up)
      /\ lock[f] = n
      /\ f \in Reported(n, before) <=> ~ up
      /\ Reported(n, after) = IF up THEN Reported(n, before) \cup {f} ELSE Reported(n, before) \ {f}
      /\ Up(after) = Up(before) + IF up THEN 1 ELSE -1
      /\ mealsEaten' = [mealsEaten EXCEPT ![n] = @ + Gain(before, after)]

\* What each phase counts.
LEMMA Counts ==
  /\ Up("none") = 0 /\ Up("one") = 1 /\ Up("both") = 2 /\ Up("right") = 1
  /\ Served("none") = 0 /\ Served("one") = 0 /\ Served("both") = 1 /\ Served("right") = 1
  /\ Gain("none", "one") = 0 /\ Gain("one", "both") = 0
  /\ Gain("both", "right") = 0 /\ Gain("right", "none") = 1
  /\ \A n : /\ Reported(n, "none") = {} /\ Reported(n, "one") = {FirstFork(n)}
            /\ Reported(n, "both") = {FirstFork(n), SecondFork(n)}
            /\ Reported(n, "right") = {rightfork(n)}
<1>1. /\ Up("none") = 0 /\ Up("one") = 1 /\ Up("both") = 2 /\ Up("right") = 1
      /\ Served("none") = 0 /\ Served("one") = 0 /\ Served("both") = 1 /\ Served("right") = 1
  BY DEF Up, Served
<1> QED
  BY <1>1 DEF Gain, Reported

\* Every step of a philosopher is of one of these kinds, and none is made by who has gone.
LEMMA Acts ==
  ASSUME Inv, Proved!Inv, Types, NEW n \in Philosopher, animatedPhilosopher(n)
  PROVE  /\ pc[n] # "gone"
         /\ UNCHANGED << main, i, display >>
         /\ UNCHANGED sleep \/ Sleep(n)
         /\ \E label \in Label :
              Silent(n, label) \/ \E f \in Fork, up \in BOOLEAN : Speaks(n, label, f, up)
<1>0. /\ mealsEaten \in [Philosopher -> 0 .. NMEALS]
      /\ \A m \in Philosopher : \A f \in Reported(m, Phase(pc[m])) : lock[f] = m
      /\ pc[n] \in {"sock1", "report1"} => lock[FirstFork(n)] = n
      /\ pc[n] \in {"sock2", "report2"} => lock[SecondFork(n)] = n
  BY FromBasic
<1> USE DEF Label, display
<1>1. CASE BeginThinking(n)
  <2>1. Silent(n, "think")
    BY <1>1 DEF BeginThinking, Silent, Phase
  <2> QED
    BY <1>1, <2>1 DEF BeginThinking
<1>2. CASE EndThinking(n)
  <2>1. Silent(n, "first")
    BY <1>2 DEF EndThinking, Silent, Phase, animation
  <2> QED
    BY <1>2, <2>1 DEF EndThinking, animation
<1>3. CASE PickUp(n, FirstFork(n), "first", "sock1")
  <2>1. Silent(n, "sock1")
    BY <1>3 DEF PickUp, Silent, Phase, animation
  <2> QED
    BY <1>3, <2>1 DEF PickUp, animation
<1>4. CASE PickUp(n, SecondFork(n), "second", "sock2")
  <2>1. Silent(n, "sock2")
    BY <1>4 DEF PickUp, Silent, Phase, animation
  <2> QED
    BY <1>4, <2>1 DEF PickUp, animation
<1>5. ASSUME NEW waits, NEW holds, LockSocket(n, waits, holds),
             << waits, holds >> \in {<< "sock1", "report1" >>, << "sock2", "report2" >>, << "sock3", "left" >>}
      PROVE  Silent(n, holds) /\ holds \in Label /\ pc[n] # "gone" /\ UNCHANGED << main, i, display, sleep >>
  BY <1>5 DEF LockSocket, Silent, Phase
<1>6. CASE EndEating(n)
  <2>1. Silent(n, "sock3")
    BY <1>6 DEF EndEating, Silent, Phase, animation
  <2> QED
    BY <1>6, <2>1 DEF EndEating, animation
<1>7. CASE Depart(n) /\ UNCHANGED animation
  <2>1. Silent(n, "gone")
    BY <1>7 DEF Depart, Silent, Phase, animation
  <2> QED
    BY <1>7, <2>1 DEF Depart, animation
<1>8. CASE ReportFirst(n)
  <2>1. Phase(pc[n]) = "none" /\ Phase("second") = "one" /\ lock[FirstFork(n)] = n
    BY <1>0, <1>8 DEF ReportFirst, Phase
  <2>2. mealsEaten' = [mealsEaten EXCEPT ![n] = @ + 0]
    BY <1>0, <1>8 DEF ReportFirst
  <2>3. Speaks(n, "second", FirstFork(n), TRUE)
    <3>1. GoesTo(n, "second") /\ Report(n, FirstFork(n), TRUE) /\ lock[FirstFork(n)] = n
      BY <1>8, <2>1, <2>2 DEF ReportFirst
    <3>2. /\ FirstFork(n) \in Reported(n, Phase(pc[n])) <=> ~ TRUE
          /\ Reported(n, Phase("second")) = IF TRUE THEN Reported(n, Phase(pc[n])) \cup {FirstFork(n)}
                                             ELSE Reported(n, Phase(pc[n])) \ {FirstFork(n)}
      BY <2>1, <2>2, Forks, Counts
    <3>3. Up(Phase("second")) = Up(Phase(pc[n])) + IF TRUE THEN 1 ELSE -1
      BY <2>1, <2>2, Counts
    <3>4. mealsEaten' = [mealsEaten EXCEPT ![n] = @ + Gain(Phase(pc[n]), Phase("second"))]
      BY <2>1, <2>2, Counts
    <3> QED
      BY <3>1, <3>2, <3>3, <3>4 DEF Speaks
  <2> QED
    BY <1>8, <2>3, Forks DEF ReportFirst
<1>9. CASE ReportSecond(n)
  <2>1. Phase(pc[n]) = "one" /\ Phase("eat") = "both" /\ lock[SecondFork(n)] = n
    BY <1>0, <1>9 DEF ReportSecond, Phase
  <2>2. mealsEaten' = [mealsEaten EXCEPT ![n] = @ + 0]
    BY <1>0, <1>9 DEF ReportSecond
  <2>3. Speaks(n, "eat", SecondFork(n), TRUE)
    <3>1. GoesTo(n, "eat") /\ Report(n, SecondFork(n), TRUE) /\ lock[SecondFork(n)] = n
      BY <1>9, <2>1, <2>2 DEF ReportSecond
    <3>2. /\ SecondFork(n) \in Reported(n, Phase(pc[n])) <=> ~ TRUE
          /\ Reported(n, Phase("eat")) = IF TRUE THEN Reported(n, Phase(pc[n])) \cup {SecondFork(n)}
                                             ELSE Reported(n, Phase(pc[n])) \ {SecondFork(n)}
      BY <2>1, <2>2, Forks, Counts
    <3>3. Up(Phase("eat")) = Up(Phase(pc[n])) + IF TRUE THEN 1 ELSE -1
      BY <2>1, <2>2, Counts
    <3>4. mealsEaten' = [mealsEaten EXCEPT ![n] = @ + Gain(Phase(pc[n]), Phase("eat"))]
      BY <2>1, <2>2, Counts
    <3> QED
      BY <3>1, <3>2, <3>3, <3>4 DEF Speaks
  <2> QED
    BY <1>9, <2>3, Forks DEF ReportSecond
<1>10. CASE PutDownLeft(n)
  <2>1. Phase(pc[n]) = "both" /\ Phase("right") = "right"
    BY <1>10 DEF PutDownLeft, Phase
  <2>2. mealsEaten' = [mealsEaten EXCEPT ![n] = @ + 0]
    BY <1>0, <1>10 DEF PutDownLeft
  <2>3. /\ Reported(n, "both") = {leftfork(n), rightfork(n)} /\ lock[leftfork(n)] = n
        /\ Reported(n, "right") = {rightfork(n)}
    BY <1>0, <2>1, Forks DEF Reported
  <2>4. Speaks(n, "right", leftfork(n), FALSE)
    <3>1. GoesTo(n, "right") /\ Report(n, leftfork(n), FALSE) /\ lock[leftfork(n)] = n
      BY <1>10, <2>1, <2>2, <2>3 DEF PutDownLeft
    <3>2. /\ leftfork(n) \in Reported(n, Phase(pc[n])) <=> ~ FALSE
          /\ Reported(n, Phase("right")) = IF FALSE THEN Reported(n, Phase(pc[n])) \cup {leftfork(n)}
                                             ELSE Reported(n, Phase(pc[n])) \ {leftfork(n)}
      BY <2>1, <2>2, <2>3, Forks, Counts
    <3>3. Up(Phase("right")) = Up(Phase(pc[n])) + IF FALSE THEN 1 ELSE -1
      BY <2>1, <2>2, <2>3, Counts
    <3>4. mealsEaten' = [mealsEaten EXCEPT ![n] = @ + Gain(Phase(pc[n]), Phase("right"))]
      BY <2>1, <2>2, <2>3, Counts
    <3> QED
      BY <3>1, <3>2, <3>3, <3>4 DEF Speaks
  <2> QED
    BY <1>10, <2>4, Forks DEF PutDownLeft
<1>11. CASE PutDownRight(n)
  <2>1. Phase(pc[n]) = "right" /\ Phase("loop") = "none"
    BY <1>11 DEF PutDownRight, Phase
  <2>2. mealsEaten' = [mealsEaten EXCEPT ![n] = @ + 1]
    BY <1>11 DEF PutDownRight
  <2>3. Reported(n, "right") = {rightfork(n)} /\ lock[rightfork(n)] = n /\ Reported(n, "none") = {}
    BY <1>0, <2>1 DEF Reported
  <2>4. Speaks(n, "loop", rightfork(n), FALSE)
    <3>1. GoesTo(n, "loop") /\ Report(n, rightfork(n), FALSE) /\ lock[rightfork(n)] = n
      BY <1>11, <2>1, <2>2, <2>3 DEF PutDownRight
    <3>2. /\ rightfork(n) \in Reported(n, Phase(pc[n])) <=> ~ FALSE
          /\ Reported(n, Phase("loop")) = IF FALSE THEN Reported(n, Phase(pc[n])) \cup {rightfork(n)}
                                             ELSE Reported(n, Phase(pc[n])) \ {rightfork(n)}
      BY <2>1, <2>2, <2>3, Forks, Counts
    <3>3. Up(Phase("loop")) = Up(Phase(pc[n])) + IF FALSE THEN 1 ELSE -1
      BY <2>1, <2>2, <2>3, Counts
    <3>4. mealsEaten' = [mealsEaten EXCEPT ![n] = @ + Gain(Phase(pc[n]), Phase("loop"))]
      BY <2>1, <2>2, <2>3, Counts
    <3> QED
      BY <3>1, <3>2, <3>3, <3>4 DEF Speaks
  <2> QED
    BY <1>11, <2>4, Forks DEF PutDownRight
<1> QED
  BY <1>1, <1>2, <1>3, <1>4, <1>5, <1>6, <1>7, <1>8, <1>9, <1>10, <1>11 DEF animatedPhilosopher

\* sock_lock is held between its lock and unlock calls, and who eats or thinks sleeps.
LEMMA PlacesKept ==
  ASSUME Inv, Types, Places, NEW n \in Philosopher, animatedPhilosopher(n)
  PROVE  Places'
<1>0. /\ pc \in [Philosopher -> Label] /\ sleep \in [Philosopher -> 0 .. ACTIME_UPPER]
      /\ Nobody \notin Philosopher
  BY DEF Inv, Types, Nobody, Philosopher
<1> USE DEF Places, Reporting, GoesTo
<1>1. CASE BeginThinking(n)
  BY <1>0, <1>1 DEF BeginThinking, Sleep
<1>2. CASE EndThinking(n) \/ EndEating(n)
  BY <1>0, <1>2 DEF EndThinking, EndEating, animation
<1>3. CASE PickUp(n, FirstFork(n), "first", "sock1") \/ PickUp(n, SecondFork(n), "second", "sock2")
  BY <1>0, <1>3 DEF PickUp, animation
<1>4. CASE \/ LockSocket(n, "sock1", "report1") \/ LockSocket(n, "sock2", "report2")
           \/ LockSocket(n, "sock3", "left")
  BY <1>0, <1>4 DEF LockSocket
<1>5. CASE ReportFirst(n)
  BY <1>0, <1>5 DEF ReportFirst
<1>6. CASE ReportSecond(n)
  BY <1>0, <1>6 DEF ReportSecond, Sleep
<1>7. CASE PutDownLeft(n)
  BY <1>0, <1>7 DEF PutDownLeft
<1>8. CASE PutDownRight(n)
  BY <1>0, <1>8 DEF PutDownRight
<1>9. CASE Depart(n) /\ UNCHANGED animation
  BY <1>0, <1>9 DEF Depart, animation
<1> QED
  BY <1>1, <1>2, <1>3, <1>4, <1>5, <1>6, <1>7, <1>8, <1>9 DEF animatedPhilosopher

\* A philosopher keeps to the turns, and while a request waits none begins to sleep.
LEMMA PhilosopherKeeps ==
  ASSUME Inv, Proved!Inv, Types, Turns, Patience, NEW n \in Philosopher, animatedPhilosopher(n)
  PROVE  Types' /\ Turns' /\ Patience'
<1>1. /\ pc[n] # "gone" /\ ~ AllGone /\ main # "exit"
      /\ UNCHANGED << main, i, client, timeout, forkUp, bowls >>
      /\ UNCHANGED sleep \/ Sleep(n)
  BY Acts, FromBasic DEF AllGone, display
<1>2. pc \in [Philosopher -> Label]
  BY DEF Inv
<1>3. PICK label \in Label :
        Silent(n, label) \/ \E f \in Fork, up \in BOOLEAN : Speaks(n, label, f, up)
  BY Acts
<1>4. sleep' \in [Philosopher -> 0 .. ACTIME_UPPER]
  BY <1>1, Bounds DEF Types, Sleep
<1>5. CASE Silent(n, label)
  <2>1. Types' /\ Turns'
    BY <1>1, <1>4, <1>5 DEF Types, Turns, Silent
  <2>2. Patience'
    BY <1>1, <1>2, <1>5 DEF Patience, Silent, GoesTo
  <2> QED
    BY <2>1, <2>2
<1>6. ASSUME NEW f \in Fork, NEW up \in BOOLEAN, Speaks(n, label, f, up)
      PROVE  Types' /\ Turns' /\ Patience'
  <2>1. request /\ ~ request' /\ reply' = {[fork |-> f, philosopher |-> n, up |-> up]}
    BY <1>6 DEF Speaks, Report
  <2>2. [fork |-> f, philosopher |-> n, up |-> up] \in Message
    BY DEF Message
  <2>3. client = "waiting"
    BY <1>1, <2>1 DEF Types, Turns
  <2> QED
    BY <1>1, <1>4, <2>1, <2>2, <2>3 DEF Types, Turns, Patience
<1> QED
  BY <1>3, <1>5, <1>6

-----------------------------------------------------------------------------
(***************************************************************************)
(* The picture                                                             *)
(***************************************************************************)

\* A step without a report leaves the picture as it is.
LEMMA SilentDraws ==
  ASSUME Inv, Proved!Inv, Drawn, NEW n \in Philosopher, NEW label,
         main # "exit", Silent(n, label), UNCHANGED << main, forkUp, bowls >>
  PROVE  Drawn'
<1>1. \A m \in Philosopher : Phase(pc'[m]) = Phase(pc[m])
  BY DEF Inv, Silent, GoesTo
<1>2. ForksDrawn' = ForksDrawn /\ BowlsDrawn' = BowlsDrawn /\ mealsEaten' = mealsEaten
  BY DEF Silent, ForksDrawn, BowlsDrawn, AnimFork, AnimBowl
<1>3. \A m \in Philosopher : Reported(m, Phase(pc[m]))' = Reported(m, Phase(pc[m]))
  BY <1>1 DEF Reported, FirstFork, SecondFork, leftfork, rightfork
<1> QED
  BY <1>1, <1>2, <1>3 DEF Drawn

\* A report changes the picture by what it says.
LEMMA ReportDraws ==
  ASSUME Inv, Proved!Inv, Types, Turns, Drawn, NEW n \in Philosopher, NEW label,
         NEW f \in Fork, NEW up \in BOOLEAN,
         main # "exit", Speaks(n, label, f, up), UNCHANGED << main, forkUp, bowls >>
  PROVE  Drawn'
<1> DEFINE message == [fork |-> f, philosopher |-> n, up |-> up]
           before == Phase(pc[n])
           after == Phase(label)
<1>1. reply = {} /\ reply' = {message}
  BY DEF Speaks, Report, Turns
<1>2. /\ ForksDrawn = forkUp /\ BowlsDrawn = bowls
      /\ ForksDrawn' = AnimFork(message) /\ BowlsDrawn' = AnimBowl(message)
  BY <1>1 DEF ForksDrawn, BowlsDrawn, AnimFork, AnimBowl
<1>3. /\ forkUp \in [Fork -> Int] /\ bowls \in [Bowl -> [num_up : Int, meals : Int]]
      /\ mealsEaten \in [Philosopher -> 0 .. NMEALS]
  BY FromBasic DEF Types
<1>4. \A m \in Philosopher : Phase(pc'[m]) = IF m = n THEN after ELSE Phase(pc[m])
  BY DEF Inv, Speaks, GoesTo
<1>5. ASSUME NEW g \in Fork
      PROVE  ForksDrawn'[g] = IF \E m \in Philosopher : g \in Reported(m, Phase(pc'[m])) THEN 1 ELSE 0
  <2>1. forkUp[g] = IF \E m \in Philosopher : g \in Reported(m, Phase(pc[m])) THEN 1 ELSE 0
    BY <1>2 DEF Drawn, Fork
  <2>2. CASE g # f
    <3>1. \A m \in Philosopher : g \in Reported(m, Phase(pc'[m])) <=> g \in Reported(m, Phase(pc[m]))
      BY <1>4, <2>2 DEF Speaks
    <3>2. ForksDrawn'[g] = forkUp[g]
      BY <1>2, <1>3, <2>2 DEF AnimFork
    <3> QED
      BY <2>1, <3>1, <3>2
  <2>3. CASE g = f
    <3>1. \A m \in Philosopher : m # n => f \notin Reported(m, Phase(pc[m]))
      BY FromBasic DEF Speaks
    <3>2. (\E m \in Philosopher : f \in Reported(m, Phase(pc[m]))) <=> ~ up
      BY <3>1 DEF Speaks
    <3>3. (\E m \in Philosopher : f \in Reported(m, Phase(pc'[m]))) <=> up
      BY <1>4, <3>1 DEF Speaks
    <3>4. ForksDrawn'[f] = forkUp[f] + IF up THEN 1 ELSE -1
      BY <1>2, <1>3 DEF AnimFork
    <3> QED
      BY <2>1, <2>3, <3>2, <3>3, <3>4
  <2> QED
    BY <2>2, <2>3
<1>6. ASSUME NEW m \in Philosopher
      PROVE  /\ BowlsDrawn'[BowlOf(m)].num_up = Up(Phase(pc'[m]))
             /\ BowlsDrawn'[BowlOf(m)].meals = mealsEaten'[m] + Served(Phase(pc'[m]))
  <2>1. /\ bowls[BowlOf(m)].num_up = Up(Phase(pc[m]))
        /\ bowls[BowlOf(m)].meals = mealsEaten[m] + Served(Phase(pc[m]))
    BY <1>2 DEF Drawn
  <2>2. CASE m # n
    <3>1. BowlsDrawn'[BowlOf(m)] = bowls[BowlOf(m)] /\ mealsEaten'[m] = mealsEaten[m]
      BY <1>2, <1>3, <2>2, BowlsApart DEF AnimBowl, Speaks
    <3> QED
      BY <1>4, <2>1, <2>2, <3>1
  <2>3. CASE m = n
    <3>1. /\ BowlsDrawn'[BowlOf(n)].num_up = bowls[BowlOf(n)].num_up + IF up THEN 1 ELSE -1
          /\ BowlsDrawn'[BowlOf(n)].meals
               = bowls[BowlOf(n)].meals + IF BowlsDrawn'[BowlOf(n)].num_up = 2 THEN 1 ELSE 0
      BY <1>2, <1>3, BowlsApart DEF AnimBowl
    <3>2. /\ Up(after) = Up(before) + IF up THEN 1 ELSE -1
          /\ mealsEaten'[n] = mealsEaten[n] + Gain(before, after)
      BY <1>3 DEF Speaks
    <3>3. Served(before) \in Int /\ Served(after) \in Int
      BY DEF Served
    <3> QED
      BY <1>3, <1>4, <2>1, <2>3, <3>1, <3>2, <3>3, NMealsAssumption DEF Gain
  <2> QED
    BY <2>2, <2>3
<1> QED
  BY <1>5, <1>6 DEF Drawn, Fork

\* Whatever leaves the phases, the meals and the replies alone keeps the picture.
LEMMA PictureKept ==
  ASSUME Drawn, main # "exit", UNCHANGED << mealsEaten, reply, forkUp, bowls >>,
         \A n \in Philosopher : Phase(pc'[n]) = Phase(pc[n])
  PROVE  Drawn'
<1>1. ForksDrawn' = ForksDrawn /\ BowlsDrawn' = BowlsDrawn
  BY DEF ForksDrawn, BowlsDrawn, AnimFork, AnimBowl
<1>2. \A m \in Philosopher : Reported(m, Phase(pc[m]))' = Reported(m, Phase(pc[m]))
  BY DEF Reported, FirstFork, SecondFork, leftfork, rightfork
<1> QED
  BY <1>1, <1>2 DEF Drawn

-----------------------------------------------------------------------------
(***************************************************************************)
(* The steps of main, of anim.py and of time                               *)
(***************************************************************************)

\* Creating and joining the threads reports nothing.
LEMMA MainKeeps ==
  ASSUME AnimInv, mainThread /\ UNCHANGED animation
  PROVE  Types' /\ Places' /\ Turns' /\ Patience' /\ Drawn'
<1> USE DEF AnimInv
<1>0. /\ UNCHANGED << sleep, sockLock, request, reply, client, timeout, forkUp, bowls >>
      /\ UNCHANGED mealsEaten /\ pc \in [Philosopher -> Label] /\ sleep \in [Philosopher -> 0 .. ACTIME_UPPER]
      /\ main # "exit"
  BY DEF animation, mainThread, Create, StartJoining, Join, DestroyForks, Inv, Types
<1>1. Types'
  BY <1>0 DEF Types
<1>2. CASE UNCHANGED pc
  <2>1. Places' /\ Patience'
    BY <1>0, <1>2 DEF Places, Patience, AllGone
  <2>2. Turns'
    BY <1>0, <1>2 DEF Turns, AllGone, mainThread, Create, StartJoining, Join, DestroyForks
  <2>3. Drawn'
    BY <1>0, <1>2, PictureKept
  <2> QED
    BY <1>1, <2>1, <2>2, <2>3
<1>3. CASE Create
  <2>1. i \in Philosopher /\ pc[i] = "new" /\ ~ AllGone
    BY <1>3, FromBasic DEF Create, AllGone
  <2>2. pc' = [pc EXCEPT ![i] = "loop"] /\ main' = main
    BY <1>3 DEF Create, GoesTo
  <2>3. Places'
    BY <1>0, <2>1, <2>2 DEF Places, Reporting
  <2>4. Turns'
    BY <1>0, <2>1, <2>2 DEF Turns
  <2>5. Patience'
    BY <1>0, <2>1, <2>2 DEF Patience
  <2>6. Drawn'
    BY <1>0, <2>1, <2>2, PictureKept DEF Phase
  <2> QED
    BY <1>1, <2>3, <2>4, <2>5, <2>6
<1> QED
  BY <1>2, <1>3 DEF mainThread, StartJoining, Join, DestroyForks

\* A request, the closing of the window, and a reply that gets lost when main has ended.
LEMMA AskKeeps ==
  ASSUME AnimInv, Ask \/ CloseWindow \/ LoseReply
  PROVE  Types' /\ Places' /\ Turns' /\ Patience' /\ Drawn'
<1> USE DEF AnimInv
<1>0. UNCHANGED << pc, mealsEaten, main, sleep, sockLock, forkUp, bowls >>
  BY DEF Ask, CloseWindow, LoseReply, vars, display
<1>1. Types' /\ Places'
  BY <1>0, Bounds DEF Types, Places, Ask, CloseWindow, LoseReply, display
<1>2. Turns' /\ Patience'
  BY <1>0, FromBasic DEF Turns, Patience, AllGone, Ask, CloseWindow, LoseReply, display
<1>3. Drawn'
  BY <1>0, PictureKept DEF Ask, CloseWindow, LoseReply, Drawn
<1> QED
  BY <1>1, <1>2, <1>3

\* The message that was under way is drawn.
LEMMA AnimateKeeps ==
  ASSUME AnimInv, Animate
  PROVE  Types' /\ Places' /\ Turns' /\ Patience' /\ Drawn'
<1> USE DEF AnimInv
<1>0. /\ UNCHANGED << pc, mealsEaten, main, sleep, sockLock, request >>
      /\ client = "waiting" /\ client' = "idle" /\ reply' = {} /\ timeout' = 0
  BY DEF Animate, vars
<1>1. PICK message \in Message : reply = {message}
  BY DEF Animate, Types
<1>2. forkUp' = AnimFork(message) /\ bowls' = AnimBowl(message)
  BY <1>1 DEF Animate
<1>3. forkUp' = ForksDrawn /\ bowls' = BowlsDrawn
  BY <1>1, <1>2 DEF ForksDrawn, BowlsDrawn
<1>4. AnimFork(message) \in [Fork -> Int]
  BY <1>1 DEF AnimFork, Types, Message
<1>5. AnimBowl(message) \in [Bowl -> [num_up : Int, meals : Int]]
  <2>1. bowls \in [Bowl -> [num_up : Int, meals : Int]] /\ BowlOf(message.philosopher) \in Bowl
    BY BowlsApart DEF Types, Message
  <2>2. \A bowl \in [num_up : Int, meals : Int] : bowl.num_up \in Int /\ bowl.meals \in Int
    OBVIOUS
  <2> DEFINE old == bowls[BowlOf(message.philosopher)]
             num_up == old.num_up + IF message.up THEN 1 ELSE -1
             new == [num_up |-> num_up, meals |-> old.meals + IF num_up = 2 THEN 1 ELSE 0]
  <2>3. new \in [num_up : Int, meals : Int]
    BY <2>1, <2>2
  <2>4. AnimBowl(message) = [bowls EXCEPT ![BowlOf(message.philosopher)] = new]
    BY DEF AnimBowl
  <2> HIDE DEF new
  <2> QED
    BY <2>1, <2>3, <2>4
<1>6. Types'
  BY <1>0, <1>2, <1>4, <1>5, Bounds DEF Types
<1>7. ~ request
  BY <1>1 DEF Turns
<1>8. Places' /\ Turns' /\ Patience'
  BY <1>0, <1>7 DEF Places, Turns, Patience
<1>9. ForksDrawn' = ForksDrawn /\ BowlsDrawn' = BowlsDrawn
  BY <1>0, <1>3 DEF ForksDrawn, BowlsDrawn
<1>10. Drawn'
  <2>1. \A m \in Philosopher : Reported(m, Phase(pc[m]))' = Reported(m, Phase(pc[m]))
    BY <1>0 DEF Reported, FirstFork, SecondFork, leftfork, rightfork, Phase
  <2> QED
    BY <1>0, <1>9, <2>1 DEF Drawn
<1> QED
  BY <1>6, <1>8, <1>10

\* When the time is over nobody is left.
LEMMA GiveUpLate == AnimInv /\ GiveUp => AllGone
<1> SUFFICES ASSUME AnimInv, GiveUp PROVE AllGone
  OBVIOUS
<1> USE DEF AnimInv
<1>1. 0 \in Philosopher
  BY NPhilosophersAssumption DEF Philosopher
<1>2. CASE request
  BY <1>1, <1>2, Bounds DEF GiveUp, Patience, Types
<1>3. CASE ~ request
  BY <1>3, FromBasic DEF GiveUp, Turns
<1> QED
  BY <1>2, <1>3

\* The forks are laid down.
LEMMA GiveUpKeeps ==
  ASSUME AnimInv, GiveUp
  PROVE  Types' /\ Places' /\ Turns' /\ Patience' /\ Drawn'
<1> USE DEF AnimInv
<1>0. /\ UNCHANGED << pc, mealsEaten, main, sleep, sockLock, request, reply, timeout, bowls >>
      /\ client' = "done" /\ reply = {} /\ forkUp' = [f \in Fork |-> 0]
  BY DEF GiveUp, vars
<1>1. AllGone
  BY GiveUpLate
<1>2. Types' /\ Places' /\ Turns' /\ Patience'
  BY <1>0, <1>1 DEF Types, Places, Turns, Patience, AllGone
<1>3. ForksDrawn' = [f \in Fork |-> 0] /\ BowlsDrawn' = BowlsDrawn
  BY <1>0 DEF ForksDrawn, BowlsDrawn
<1>4. \A n \in Philosopher : Phase(pc'[n]) = "none" /\ Phase(pc[n]) = "none"
  BY <1>0, <1>1 DEF AllGone, Phase
<1>5. Drawn'
  BY <1>0, <1>3, <1>4, Counts DEF Drawn, Fork
<1> QED
  BY <1>2, <1>5

\* When every philosopher waits and none sleeps while a request is there, all have gone:
\* otherwise one of them would wait for a fork that is free.
LEMMA AllWait ==
  ASSUME AnimInv, request,
         \A n \in Philosopher : Quiet(n) /\ sleep[n] = 0 /\ pc[n] \notin {"new", "loop"}
  PROVE  AllGone
<1> USE DEF AnimInv
<1>1. pc \in [Philosopher -> Label] /\ sleep \in [Philosopher -> 0 .. ACTIME_UPPER]
  BY DEF Inv, Types
<1>2. \A n \in Philosopher : pc[n] = "gone" \/ WaitsForLock(n)
  BY <1>1 DEF Quiet, WaitsForRequest
<1>3. sockLock = Nobody
  <2>1. SUFFICES ASSUME sockLock # Nobody PROVE FALSE
    OBVIOUS
  <2>2. sockLock \in Philosopher /\ pc[sockLock] \in Reporting
    BY <2>1 DEF Places
  <2> QED
    BY <1>2, <2>2 DEF WaitsForLock, Reporting
<1>4. \A n \in Philosopher :
        \/ pc[n] = "gone"
        \/ pc[n] = "first" /\ lock[FirstFork(n)] # Nobody
        \/ pc[n] = "second" /\ lock[SecondFork(n)] # Nobody
  BY <1>2, <1>3 DEF WaitsForLock
<1>5. /\ Proved!Philosopher = Philosopher /\ Proved!Fork = Fork /\ Proved!Nobody = Nobody
      /\ \A n \in Philosopher : /\ Proved!FirstFork(n) = FirstFork(n)
                                /\ Proved!SecondFork(n) = SecondFork(n)
  BY DEF Proved!Philosopher, Philosopher, Proved!Fork, Fork, Proved!Nobody, Nobody,
         Proved!FirstFork, FirstFork, Proved!SecondFork, SecondFork,
         Proved!leftfork, leftfork, Proved!rightfork, rightfork
<1>6. \A n \in Philosopher : BasicPc[n] = BasicLabel(pc[n])
  BY BasicPcValue
<1>7. ASSUME NEW n \in Philosopher
      PROVE  Proved!Seated(n) => pc[n] # "gone"
  BY <1>6 DEF Proved!Seated, BasicPc, BasicLabel
<1>8. ASSUME NEW n \in Philosopher, pc[n] # "gone"
      PROVE  Proved!Seated(n) /\ Proved!Blocked(n)
  <2>1. pc[n] \in {"first", "second"} /\ BasicPc[n] = pc[n]
    BY <1>4, <1>6, <1>8 DEF BasicLabel
  <2>2. Proved!Seated(n)
    BY <2>1 DEF Proved!Seated, BasicPc, BasicLabel
  <2>3. \E f \in Fork : lock[f] # Nobody /\ Proved!Awaits(n, f)
    BY <1>4, <1>5, <1>8, <2>1, Forks DEF Proved!Awaits, BasicPc, BasicLabel
  <2> QED
    BY <1>5, <2>2, <2>3 DEF Proved!Blocked
<1>9. Proved!NoDeadlock
  BY Proved!NoDeadlockFollows, NPhilosophersAssumption, NMealsAssumption
<1> QED
  BY <1>5, <1>7, <1>8, <1>9 DEF Proved!NoDeadlock, AllGone

\* Time passes: the sleeps and the timeout become shorter together.
LEMMA TickKeeps ==
  ASSUME AnimInv, Tick
  PROVE  Types' /\ Places' /\ Turns' /\ Patience' /\ Drawn'
<1> USE DEF AnimInv
<1>0. /\ UNCHANGED << pc, mealsEaten, main, sockLock, request, reply, client, forkUp, bowls >>
      /\ sleep' = [n \in Philosopher |-> OneLess(sleep[n])] /\ timeout' = OneLess(timeout)
      /\ pc \in [Philosopher -> Label] /\ sleep \in [Philosopher -> 0 .. ACTIME_UPPER]
      /\ timeout \in 0 .. RCVTIMEO
      /\ \A n \in Philosopher : Quiet(n)
  BY DEF Tick, vars, Inv, Types
<1>1. /\ \A n \in Philosopher : sleep'[n] \in 0 .. ACTIME_UPPER /\ sleep'[n] <= sleep[n]
      /\ timeout' \in 0 .. RCVTIMEO
  BY <1>0, Bounds DEF OneLess
<1>2. Types'
  <2>1. sleep' \in [Philosopher -> 0 .. ACTIME_UPPER]
    BY <1>0, <1>1
  <2> QED
    BY <1>0, <1>1, <2>1 DEF Types
<1>3. Places' /\ Turns'
  BY <1>0, <1>1, Bounds DEF Places, Turns, AllGone
<1>4. Drawn'
  <2>1. CASE main # "exit"
    BY <1>0, <2>1, PictureKept
  <2> QED
    BY <1>0, <2>1 DEF Drawn
<1>5. ASSUME request, client = "waiting" PROVE Patience'
  <2>1. timeout > 0 /\ timeout' = timeout - 1
    BY <1>0, <1>5 DEF Tick, OneLess
  <2>2. CASE timeout = RCVTIMEO
    <3>1. ASSUME NEW n \in Philosopher
          PROVE  pc[n] \notin {"new", "loop"} /\ sleep'[n] + ACTIME_UPPER <= timeout'
      <4>1. pc[n] \notin {"new", "loop"}
        BY <1>0 DEF Quiet, Places, WaitsForLock, WaitsForRequest
      <4>2. sleep'[n] = IF sleep[n] > 0 THEN sleep[n] - 1 ELSE 0
        BY <1>0 DEF OneLess
      <4> QED
        BY <1>0, <2>1, <2>2, <4>1, <4>2, Bounds
    <3> QED
      BY <1>0, <3>1 DEF Patience
  <2>3. CASE AllGone
    BY <1>0, <2>3 DEF Patience, AllGone
  <2>4. CASE /\ \A n \in Philosopher : pc[n] \notin {"new", "loop"} /\ sleep[n] + ACTIME_UPPER <= timeout
             /\ ~ AllGone
    <3>1. PICK m \in Philosopher : sleep[m] > 0
      <4>1. SUFFICES ASSUME \A m \in Philosopher : ~ (sleep[m] > 0) PROVE FALSE
        OBVIOUS
      <4>2. \A m \in Philosopher : sleep[m] = 0
        BY <1>0, <4>1
      <4> QED
        BY <1>0, <1>5, <2>4, <4>2, AllWait
    <3>2. ASSUME NEW n \in Philosopher
          PROVE  sleep'[n] + ACTIME_UPPER <= timeout'
      <4>1. sleep'[n] = IF sleep[n] > 0 THEN sleep[n] - 1 ELSE 0
        BY <1>0 DEF OneLess
      <4> QED
        BY <1>0, <2>1, <2>4, <3>1, <4>1, Bounds
    <3> QED
      BY <1>0, <2>4, <3>2 DEF Patience
  <2> QED
    BY <1>5, <2>2, <2>3, <2>4 DEF Patience
<1>6. Patience'
  BY <1>0, <1>5 DEF Patience
<1> QED
  BY <1>2, <1>3, <1>4, <1>6

-----------------------------------------------------------------------------

\* The first picture is that of an idle table.
LEMMA AnimInitInv == AnimatedInit => AnimInv
<1> SUFFICES ASSUME AnimatedInit PROVE AnimInv
  OBVIOUS
<1>1. Inv /\ Proved!Inv
  BY InitInv, InitSimulation, SameInit, Proved!InitInv, NPhilosophersAssumption, NMealsAssumption
<1>2. \A n \in Philosopher : pc[n] = "new" /\ mealsEaten[n] = 0
  BY DEF AnimatedInit, Init
<1>3. Types /\ Turns /\ Patience
  BY Bounds DEF AnimatedInit, Init, Types, Turns, Patience
<1>4. Places
  BY <1>2 DEF AnimatedInit, Places, Reporting, Nobody, Philosopher
<1>5. Drawn
  <2>1. \A n \in Philosopher : Phase(pc[n]) = "none"
    BY <1>2 DEF Phase
  <2>2. ForksDrawn = [f \in Fork |-> 0] /\ BowlsDrawn = [b \in Bowl |-> [num_up |-> 0, meals |-> 0]]
    BY DEF AnimatedInit, ForksDrawn, BowlsDrawn
  <2> QED
    BY <1>2, <2>1, <2>2, Counts, BowlsApart DEF Drawn, Fork
<1> QED
  BY <1>1, <1>3, <1>4, <1>5 DEF AnimInv

\* The invariant is inductive.
LEMMA AnimNextInv == AnimInv /\ [AnimatedNext]_allVars => AnimInv'
<1> SUFFICES ASSUME AnimInv, [AnimatedNext]_allVars PROVE AnimInv'
  OBVIOUS
<1>1. Inv' /\ Proved!Inv'
  BY ProvedNext DEF AnimInv
<1>2. ASSUME NEW n \in Philosopher, animatedPhilosopher(n)
      PROVE  Types' /\ Places' /\ Turns' /\ Patience' /\ Drawn'
  <2>1. Types' /\ Places' /\ Turns' /\ Patience'
    BY <1>2, PlacesKept, PhilosopherKeeps DEF AnimInv
  <2>2. main # "exit" /\ UNCHANGED << main, forkUp, bowls >>
    BY <1>2, Acts, FromBasic DEF AnimInv, AllGone, display
  <2>3. PICK label \in Label :
          Silent(n, label) \/ \E f \in Fork, up \in BOOLEAN : Speaks(n, label, f, up)
    BY <1>2, Acts DEF AnimInv
  <2>4. Drawn'
    BY <2>2, <2>3, SilentDraws, ReportDraws DEF AnimInv
  <2> QED
    BY <2>1, <2>4
<1>3. CASE mainThread /\ UNCHANGED animation
  BY <1>1, <1>3, MainKeeps DEF AnimInv
<1>4. CASE LoseReply \/ anim \/ CloseWindow
  BY <1>1, <1>4, AskKeeps, AnimateKeeps, GiveUpKeeps DEF AnimInv, anim
<1>5. CASE Tick
  BY <1>1, <1>5, TickKeeps DEF AnimInv
<1>6. CASE AnimatedOver \/ UNCHANGED allVars
  <2>1. UNCHANGED << pc, mealsEaten, main, animation >>
    BY <1>6 DEF AnimatedOver, allVars, vars
  <2>2. UNCHANGED << sleep, sockLock, request, reply, client, timeout, forkUp, bowls >>
    BY <2>1 DEF animation
  <2>3. Types' /\ Places' /\ Turns' /\ Patience'
    BY <2>1, <2>2 DEF AnimInv, Types, Places, Turns, Patience, AllGone
  <2>4. Drawn'
    <3>1. CASE main # "exit"
      BY <2>1, <2>2, <3>1, PictureKept DEF AnimInv
    <3> QED
      BY <2>1, <3>1 DEF Drawn
  <2> QED
    BY <1>1, <2>3, <2>4 DEF AnimInv
<1> QED
  BY <1>1, <1>2, <1>3, <1>4, <1>5, <1>6 DEF AnimatedNext, AnimInv

\* What is drawn follows from where the philosophers stand.
LEMMA DisplayFollows == AnimInv => DisplayFaithful
<1> SUFFICES ASSUME AnimInv, main # "exit" PROVE DisplayFaithful
  BY DEF DisplayFaithful
<1>1. \A n \in Philosopher : ReportedBy(n) = Reported(n, Phase(pc[n]))
  BY DEF ReportedBy, Reported, Phase
<1>2. \A n \in Philosopher : \A f \in ReportedBy(n) : lock[f] = n
  BY <1>1, FromBasic DEF AnimInv
<1>3. \A n \in Philosopher : ForksDrawn[n] = IF \E m \in Philosopher : n \in ReportedBy(m) THEN 1 ELSE 0
  BY <1>1 DEF AnimInv, Drawn
<1>4. ASSUME NEW n \in Philosopher
      PROVE  /\ BowlsDrawn[BowlOf(n)].num_up
                  = IF pc[n] = "right" THEN 1
                    ELSE IF pc[n] \in {"eat", "sock3", "left"} THEN 2
                    ELSE IF pc[n] \in {"second", "sock2", "report2"} THEN 1 ELSE 0
             /\ BowlsDrawn[BowlOf(n)].meals
                  = mealsEaten[n] + IF pc[n] \in {"eat", "sock3", "left", "right"} THEN 1 ELSE 0
  <2>1. /\ BowlsDrawn[BowlOf(n)].num_up = Up(Phase(pc[n]))
        /\ BowlsDrawn[BowlOf(n)].meals = mealsEaten[n] + Served(Phase(pc[n]))
    BY DEF AnimInv, Drawn
  <2> QED
    BY <2>1 DEF Up, Served, Phase
<1> QED
  BY <1>2, <1>3, <1>4 DEF DisplayFaithful

\* The invariant of the reports, the picture and the clock.
THEOREM AnimInvariance == AnimatedSpec => []AnimInv
BY AnimInitInv, AnimNextInv, PTL DEF AnimatedSpec

\* The display never contradicts the program, for every number of philosophers and meals
\* and every bounds of the sleeps (Animated/philos.c:124-165, anim.py:92-113).
THEOREM PictureTrue == AnimatedSpec => []DisplayFaithful
BY AnimInvariance, DisplayFollows, PTL

\* anim.py says that everyone is done only when everyone is, whatever the bounds of the
\* sleeps (anim.py:83-90, 215): twice the upper one is time enough.
THEOREM SilenceMeansDone == AnimatedSpec => []DoneMeansDone
<1>1. AnimInv => DoneMeansDone
  BY DEF AnimInv, Turns, AllGone, DoneMeansDone
<1> QED
  BY <1>1, AnimInvariance, PTL
=============================================================================
