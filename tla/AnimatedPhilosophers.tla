-------------------------- MODULE AnimatedPhilosophers --------------------------
(***************************************************************************)
(* Assignment3/Philosophers/Animated: philos.c has the philosophers, forks *)
(* and main of Basic/philos.c, and reports each fork taken or put down to  *)
(* anim.py.  The two talk over one pair of ZeroMQ sockets: anim.py, from   *)
(* time to time, sends a request and waits for the reply; a philosopher,   *)
(* holding sock_lock, receives a request and replies with its own message. *)
(* When no reply comes for twice the longest time that eating or thinking  *)
(* takes, anim.py says that everyone is done and exits.                    *)
(*                                                                         *)
(* Time passes in units, and only eating, thinking and the pauses of       *)
(* anim.py take any.  make.py:15 asserts at most nine philosophers, so a   *)
(* message is one digit for each of its three fields.                      *)
(***************************************************************************)
EXTENDS Philosophers

CONSTANTS ACTIME_LOWER, ACTIME_UPPER   \* the bounds of eating and thinking

ASSUME ActimeAssumption == ACTIME_LOWER \in Nat /\ ACTIME_UPPER \in Nat /\ ACTIME_LOWER < ACTIME_UPPER

VARIABLES sleep,      \* what is left of a philosopher's eating or thinking
          sockLock,   \* the philosopher that holds sock_lock
          request,    \* a request was sent and no philosopher has received it
          reply,      \* the reply that anim.py has not received: a message at most
          client,     \* where anim.py stands
          timeout,    \* what is left of the time anim.py waits for a reply
          forkUp,     \* how far above the table each fork is drawn
          bowls       \* num_up and meals of each bowl

animation == << sleep, sockLock, request, reply, client, timeout, forkUp, bowls >>
display == << client, timeout, forkUp, bowls >>
allVars == << vars, animation >>

Bowl == Philosopher

AnimatedInit ==
  /\ Init
  /\ sleep = [n \in Philosopher |-> 0]
  /\ sockLock = Nobody
  /\ request = FALSE
  /\ reply = {}
  /\ client = "idle"
  /\ timeout = 0
  /\ forkUp = [f \in Fork |-> 0]
  /\ bowls = [b \in Bowl |-> [num_up |-> 0, meals |-> 0]]

-----------------------------------------------------------------------------
(***************************************************************************)
(* A philosopher                                                           *)
(***************************************************************************)

\* usleep(ACTIME), for any time between the bounds.
Sleep(n) == \E time \in ACTIME_LOWER .. ACTIME_UPPER : sleep' = [sleep EXCEPT ![n] = time]

\* zmq_recv, which waits for a request, and zmq_send.
Report(n, f, up) ==
  /\ request
  /\ request' = FALSE
  /\ reply' = {[fork |-> f, philosopher |-> n, up |-> up]}

BeginThinking(n) ==
  /\ pc[n] = "loop"
  /\ mealsEaten[n] < NMEALS
  /\ Sleep(n)
  /\ GoesTo(n, "think")
  /\ UNCHANGED << mealsEaten, lock, main, i, sockLock, request, reply, display >>

EndThinking(n) ==
  /\ pc[n] = "think"
  /\ sleep[n] = 0
  /\ GoesTo(n, "first")
  /\ UNCHANGED << mealsEaten, lock, main, i, animation >>

\* getLeftFork and getRightFork, in the order of pickup_forks: the fork is
\* locked, then sock_lock, and the report is made.
PickUp(n, f, asked, taken) ==
  /\ pc[n] = asked
  /\ LockFork(n, f)
  /\ GoesTo(n, taken)
  /\ UNCHANGED << mealsEaten, main, i, animation >>

LockSocket(n, waits, holds) ==
  /\ pc[n] = waits
  /\ sockLock = Nobody
  /\ sockLock' = n
  /\ GoesTo(n, holds)
  /\ UNCHANGED << mealsEaten, lock, main, i, sleep, request, reply, display >>

\* Fault: sock_lock is not unlocked after the report.
KeepSocket(n) ==
  /\ pc[n] = "report1"
  /\ Report(n, FirstFork(n), TRUE)
  /\ GoesTo(n, "second")
  /\ UNCHANGED << mealsEaten, lock, main, i, sleep, sockLock, display >>
ReportFirst(n) ==
  /\ pc[n] = "report1"
  /\ Report(n, FirstFork(n), TRUE)
  /\ sockLock' = Nobody
  /\ GoesTo(n, "second")
  /\ UNCHANGED << mealsEaten, lock, main, i, sleep, display >>

\* The report of the second fork, after which the philosopher eats.
ReportSecond(n) ==
  /\ pc[n] = "report2"
  /\ Report(n, SecondFork(n), TRUE)
  /\ sockLock' = Nobody
  /\ Sleep(n)
  /\ GoesTo(n, "eat")
  /\ UNCHANGED << mealsEaten, lock, main, i, display >>

EndEating(n) ==
  /\ pc[n] = "eat"
  /\ sleep[n] = 0
  /\ GoesTo(n, "sock3")
  /\ UNCHANGED << mealsEaten, lock, main, i, animation >>

\* return_forks: sock_lock is held over both reports; each fork is unlocked
\* after its report.  Fault: the left fork is not unlocked.
KeepLeft(n) ==
  /\ pc[n] = "left"
  /\ Report(n, leftfork(n), FALSE)
  /\ GoesTo(n, "right")
  /\ UNCHANGED << mealsEaten, lock, main, i, sleep, sockLock, display >>
PutDownLeft(n) ==
  /\ pc[n] = "left"
  /\ Report(n, leftfork(n), FALSE)
  /\ lock' = [lock EXCEPT ![leftfork(n)] = Nobody]
  /\ GoesTo(n, "right")
  /\ UNCHANGED << mealsEaten, main, i, sleep, sockLock, display >>

PutDownRight(n) ==
  /\ pc[n] = "right"
  /\ Report(n, rightfork(n), FALSE)
  /\ lock' = [lock EXCEPT ![rightfork(n)] = Nobody]
  /\ sockLock' = Nobody
  /\ mealsEaten' = [mealsEaten EXCEPT ![n] = @ + 1]
  /\ GoesTo(n, "loop")
  /\ UNCHANGED << main, i, sleep, display >>

animatedPhilosopher(n) ==
  \/ BeginThinking(n) \/ EndThinking(n)
  \/ PickUp(n, FirstFork(n), "first", "sock1")
  \/ LockSocket(n, "sock1", "report1") \/ ReportFirst(n)
  \/ PickUp(n, SecondFork(n), "second", "sock2")
  \/ LockSocket(n, "sock2", "report2") \/ ReportSecond(n)
  \/ EndEating(n)
  \/ LockSocket(n, "sock3", "left") \/ PutDownLeft(n) \/ PutDownRight(n)
  \/ Depart(n) /\ UNCHANGED animation

\* main ends without closing its socket: a reply that is still to be sent then
\* may be lost.
LoseReply ==
  /\ main = "exit"
  /\ reply # {}
  /\ reply' = {}
  /\ UNCHANGED << vars, sleep, sockLock, request, display >>

-----------------------------------------------------------------------------
(***************************************************************************)
(* anim.py: _comm is called with every frame                               *)
(***************************************************************************)

\* RCVTIMEO, and the fault of not doubling the bound.
OneTurn == ACTIME_UPPER
RCVTIMEO == 2 * ACTIME_UPPER

\* The pause since the last reply is over.
Ask ==
  /\ client = "idle"
  /\ client' = "waiting"
  /\ request' = TRUE
  /\ timeout' = RCVTIMEO
  /\ UNCHANGED << vars, sleep, sockLock, reply, forkUp, bowls >>

BowlOf(n) == (n + 1) % NPHILOSOPHERS

\* _anim_fork and _anim_bowl: what is drawn after a message.  Fault: a meal is
\* counted with the first fork.
AnimFork(message) == [forkUp EXCEPT ![message.fork] = @ + IF message.up THEN 1 ELSE -1]
CountFirst(message) ==
  [bowls EXCEPT ![BowlOf(message.philosopher)] =
     LET num_up == @.num_up + IF message.up THEN 1 ELSE -1
     IN  [num_up |-> num_up, meals |-> @.meals + IF num_up = 1 THEN 1 ELSE 0]]
AnimBowl(message) ==
  [bowls EXCEPT ![BowlOf(message.philosopher)] =
     LET num_up == @.num_up + IF message.up THEN 1 ELSE -1
     IN  [num_up |-> num_up, meals |-> @.meals + IF num_up = 2 THEN 1 ELSE 0]]

Animate ==
  /\ client = "waiting"
  /\ \E message \in reply : forkUp' = AnimFork(message) /\ bowls' = AnimBowl(message)
  /\ reply' = {}
  /\ client' = "idle"
  /\ timeout' = 0
  /\ UNCHANGED << vars, sleep, sockLock, request >>

\* "Looks like everyone is done!"  The forks are laid down and anim.py exits.
GiveUp ==
  /\ client = "waiting"
  /\ reply = {}
  /\ timeout = 0
  /\ client' = "done"
  /\ forkUp' = [f \in Fork |-> 0]
  /\ UNCHANGED << vars, sleep, sockLock, request, reply, timeout, bowls >>

anim == Ask \/ Animate \/ GiveUp

\* Somebody closes the window, which anim.py notices between two messages: while it
\* waits for one it draws no frame.  philos is not told.
CloseWindow ==
  /\ client = "idle"
  /\ client' = "closed"
  /\ UNCHANGED << vars, sleep, sockLock, request, reply, timeout, forkUp, bowls >>

-----------------------------------------------------------------------------
(***************************************************************************)
(* Time passes once whatever needs no time has happened: every philosopher *)
(* sleeps or waits for a mutex or for a request, and no reply is under     *)
(* way.  anim.py may pause for any number of units.                        *)
(***************************************************************************)
WaitsForLock(n) ==
  \/ pc[n] = "first" /\ lock[FirstFork(n)] # Nobody
  \/ pc[n] = "second" /\ lock[SecondFork(n)] # Nobody
  \/ pc[n] \in {"sock1", "sock2", "sock3"} /\ sockLock # Nobody

WaitsForRequest(n) == pc[n] \in {"report1", "report2", "left", "right"} /\ ~ request

Quiet(n) ==
  \/ pc[n] = "gone"
  \/ sleep[n] > 0
  \/ WaitsForLock(n)
  \/ WaitsForRequest(n)

\* A unit less.
OneLess(n) == IF n > 0 THEN n - 1 ELSE 0

Tick ==
  /\ \A n \in Philosopher : Quiet(n)
  /\ reply = {}
  /\ client = "waiting" => timeout > 0
  /\ timeout > 0 \/ \E n \in Philosopher : sleep[n] > 0
  /\ sleep' = [n \in Philosopher |-> OneLess(sleep[n])]
  /\ timeout' = OneLess(timeout)
  /\ UNCHANGED << vars, sockLock, request, reply, client, forkUp, bowls >>

\* After the window was closed, the next philosopher with a report keeps sock_lock
\* for ever, and the others wait for it, or for forks.
Stuck == client = "closed" /\ \A n \in Philosopher : pc[n] # "new" /\ Quiet(n) /\ sleep[n] = 0

AnimatedOver ==
  /\ (main = "exit" /\ client \in {"done", "closed"}) \/ Stuck
  /\ UNCHANGED allVars

AnimatedNext ==
  \/ \E n \in Philosopher : animatedPhilosopher(n)
  \/ mainThread /\ UNCHANGED animation
  \/ LoseReply
  \/ anim
  \/ CloseWindow
  \/ Tick
  \/ AnimatedOver

\* Threads that can run do, anim.py draws its frames, and time passes.  Neither
\* the forks nor sock_lock need be fair.
AnimatedFairness ==
  /\ \A n \in Philosopher : WF_allVars(animatedPhilosopher(n))
  /\ WF_allVars(mainThread /\ UNCHANGED animation)
  /\ WF_allVars(anim)
  /\ WF_allVars(Tick)

AnimatedSpec == AnimatedInit /\ [][AnimatedNext]_allVars /\ AnimatedFairness

-----------------------------------------------------------------------------
(***************************************************************************)
(* Properties                                                              *)
(***************************************************************************)

\* The forks a philosopher has reported as taken and not as put down.
ReportedBy(n) ==
  CASE pc[n] \in {"second", "sock2", "report2"}   -> {FirstFork(n)}
    [] pc[n] \in {"eat", "sock3", "left"}         -> {FirstFork(n), SecondFork(n)}
    [] pc[n] = "right"                            -> {rightfork(n)}
    [] OTHER                                      -> {}

\* What is drawn once the reply that is under way has arrived.
ForksDrawn == IF reply = {} THEN forkUp ELSE AnimFork(CHOOSE message \in reply : TRUE)
BowlsDrawn == IF reply = {} THEN bowls ELSE AnimBowl(CHOOSE message \in reply : TRUE)

\* The display never contradicts the program, however the threads take turns
\* on the one socket (Animated/philos.c:124-127, 141-144, 154-165): a fork is
\* drawn in the air exactly while a philosopher that holds its mutex has said so,
\* a bowl counts the forks its philosopher has, and one meal for every meal.
DisplayFaithful ==
  main # "exit" =>
    \A n \in Philosopher :
      /\ ForksDrawn[n] = (IF \E m \in Philosopher : n \in ReportedBy(m) THEN 1 ELSE 0)
      /\ \A f \in ReportedBy(n) : lock[f] = n
      /\ LET bowl == BowlsDrawn[BowlOf(n)]
         IN  /\ bowl.num_up = (IF pc[n] = "right" THEN 1
                               ELSE IF pc[n] \in {"eat", "sock3", "left"} THEN 2
                               ELSE IF pc[n] \in {"second", "sock2", "report2"} THEN 1 ELSE 0)
             /\ bowl.meals = mealsEaten[n] + IF pc[n] \in {"eat", "sock3", "left", "right"} THEN 1 ELSE 0

\* "Looks like everyone is done!" (anim.py:87) is said only when everyone is:
\* twice the longest sleep (anim.py:215) is time enough for the next message of
\* philosophers that wait for each other's forks while others sleep.
DoneMeansDone == client = "done" => \A n \in Philosopher : pc[n] = "gone"

\* With the reports left out this is the program without animation: each step
\* is one of its steps or changes nothing of it.
Basic ==
  INSTANCE Philosophers WITH
    pc <- [n \in Philosopher |->
             CASE pc[n] = "think"                               -> "loop"
               [] pc[n] \in {"sock1", "report1"}                -> "second"
               [] pc[n] \in {"sock2", "report2", "sock3", "left"} -> "eat"
               [] OTHER                                         -> pc[n]]
ImplementsBasic == Basic!Init /\ [][Basic!Next]_(Basic!vars)

\* Both programs end: no thread waits for ever for a request while another holds
\* sock_lock, and the animation notices that there is nothing to wait for.  Only when
\* the window is closed (anim.py:88) the philosophers may come to rest before that.
BothEnd == <>((main = "exit" /\ client \in {"done", "closed"}) \/ Stuck)
=============================================================================
