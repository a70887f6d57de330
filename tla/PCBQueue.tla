------------------------------- MODULE PCBQueue -------------------------------
(***************************************************************************)
(* The linked list of Assignment5/dispatcher/queue/queue.c, as the         *)
(* dispatcher uses it.  A queue is the sequence of its nodes; the node a   *)
(* Queue pointer designates is the first of the sequence, and the NULL     *)
(* pointer is the empty sequence.  A process is named by its pid, and 0    *)
(* stands for the NULL process pointer.                                    *)
(*                                                                         *)
(* An "empty" queue is therefore one node that carries no process, which   *)
(* is not the same thing as a NULL queue pointer: doProcessing tells the   *)
(* two apart.                                                              *)
(***************************************************************************)
EXTENDS Integers, Sequences

\* The NULL process pointer (and, in the resource tables, a free cell).
NULL == 0

\* The NULL queue pointer.
NullQueue == << >>

\* struct Queue: the next field is the position in the sequence.
Node(pids) == [isHead : BOOLEAN, process : pids \cup {NULL}]

initializeQueue == << [isHead |-> FALSE, process |-> NULL] >>

\* Faults that runs of Dispatcher must notice: a new head instead of a new tail,
\* an overwritten head whatever its mark, and one element counted too many.
EnqueueInFront(queue, process) ==
  IF ~ queue[1].isHead
  THEN [queue EXCEPT ![1] = [isHead |-> TRUE, process |-> process]]
  ELSE << [isHead |-> TRUE, process |-> process] >> \o queue
EnqueueOverHead(queue, process) == [queue EXCEPT ![1] = [isHead |-> TRUE, process |-> process]]
OneElemMore(queue) == Len(queue) + 1

\* A designated node that is not marked isHead is taken for an unused one:
\* its process is overwritten.  Only otherwise is a node appended.
enqueueProcess(queue, process) ==
  IF ~ queue[1].isHead
  THEN [queue EXCEPT ![1] = [isHead |-> TRUE, process |-> process]]
  ELSE Append(queue, [isHead |-> FALSE, process |-> process])

\* The pointer moves to the next node, or becomes NULL after the last one.
\* The new first node keeps the isHead mark it had.
dequeueProcess(queue) == IF queue[1].process = NULL THEN queue ELSE Tail(queue)

\* The number of nodes, whether or not they carry a process.
numElems(queue) == Len(queue)

\* The processes a queue carries.
Processes(queue) == {queue[i].process : i \in DOMAIN queue} \ {NULL}

\* The first node carries a process.
HasProcess(queue) == queue # NullQueue /\ queue[1].process # NULL

\* The shape every queue of the program keeps: only a lone, unmarked node is
\* without a process, and no process is carried by two nodes.
WellFormed(queue) ==
  /\ \A i \in DOMAIN queue :
       queue[i].process = NULL => Len(queue) = 1 /\ ~ queue[i].isHead
  /\ \A i, j \in DOMAIN queue : queue[i].process = queue[j].process => i = j
=============================================================================
