------------------------------ MODULE Lifecycle ------------------------------
(***************************************************************************)
(* What the dispatcher of Assignment5 promises about each process, with no *)
(* resources, queues or clock in sight: a process is read, waits, becomes  *)
(* ready, and is given time units until it has ended.  The one thing that  *)
(* may go wrong is the overwriting enqueue of queue.c: a process that      *)
(* becomes ready may take the place of one other, which then is nowhere.   *)
(***************************************************************************)
CONSTANT Process

VARIABLES unread,         \* the processes that are not read yet
          urgent,         \* the real time processes among those read
          waiting,        \* read, and waiting for their time and resources
          ready,          \* admitted, and not on the processor
          running,        \* on the processor: one at most
          ended,          \* given back to free()
          open            \* the system has not been closed

vars == << unread, urgent, waiting, ready, running, ended, open >>

Init ==
  /\ unread = Process
  /\ urgent = {}
  /\ waiting = {}
  /\ ready = {}
  /\ running = {}
  /\ ended = {}
  /\ open = TRUE

Read ==
  \E p \in unread :
    /\ unread' = unread \ {p}
    /\ urgent' \in {urgent, urgent \cup {p}}
    /\ waiting' = waiting \cup {p}
    /\ UNCHANGED << ready, running, ended, open >>

\* What the ready processes may be once p has joined them: all of them are still
\* there, or all but one victim of p's own class.
Joined(others, p) ==
  {(others \ {victim}) \cup {p} :
     victim \in {q \in others \cup {p} : q \in urgent <=> p \in urgent}}

Admit ==
  \E p \in waiting :
    /\ waiting' = waiting \ {p}
    /\ ready' \in Joined(ready, p)
    /\ UNCHANGED << unread, urgent, running, ended, open >>

\* A time unit is spent on p: it stays on the processor, or ends, or, unless it
\* is a real time process, goes back to the others.
Spend(p, others) ==
  /\ \/ running' = {p} /\ ready' = others /\ ended' = ended
     \/ running' = {} /\ ready' = others /\ ended' = ended \cup {p}
     \/ p \notin urgent /\ running' = {} /\ ready' \in Joined(others, p) /\ ended' = ended
  /\ UNCHANGED << unread, urgent, waiting, open >>

Dispatch == running = {} /\ \E p \in ready : Spend(p, ready \ {p})

Continue == \E p \in running : Spend(p, ready)

\* A process leaves the processor to a real time process, and only to one.
Preempt ==
  \E q \in running \ urgent :
    \E others \in Joined(ready, q) : \E p \in others \cap urgent : Spend(p, others \ {p})

Close ==
  /\ open' = FALSE
  /\ waiting' = {}
  /\ ended' = ended \cup waiting
  /\ UNCHANGED << unread, urgent, ready, running >>

Next == open /\ (Read \/ Admit \/ Dispatch \/ Continue \/ Preempt \/ Close)

Spec == Init /\ [][Next]_vars
=============================================================================
