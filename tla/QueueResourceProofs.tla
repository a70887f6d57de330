-------------------------- MODULE QueueResourceProofs --------------------------
(***************************************************************************)
(* What the operations of PCBQueue do to the processes a queue carries,    *)
(* for any set of pids, and what an allocation attempt and a release of    *)
(* HostResources do to the tables, for every size of the resources.        *)
(***************************************************************************)
EXTENDS PCBQueue, HostResources, SequenceTheorems, WellFoundedInduction, TLAPS

-----------------------------------------------------------------------------
(***************************************************************************)
(* PCBQueue                                                                *)
(***************************************************************************)
\* A queue that was only ever enqueued to: its first node is marked, or unused.
\* On such a queue an enqueue overwrites nothing.
Marked(queue) == queue[1].isHead \/ queue[1].process = NULL

\* The fields of a node.
LEMMA NodeFields ==
  ASSUME NEW S, NEW node \in Node(S)
  PROVE  node.isHead \in BOOLEAN /\ node.process \in S \cup {NULL}
BY DEF Node

\* initializeQueue makes an unused queue (queue.c:8-19).
LEMMA InitializeQueue ==
  ASSUME NEW S
  PROVE  /\ initializeQueue \in Seq(Node(S))
         /\ initializeQueue # NullQueue
         /\ WellFormed(initializeQueue)
         /\ Processes(initializeQueue) = {}
         /\ Marked(initializeQueue)
         /\ Len(initializeQueue) = 1
<1>1. [isHead |-> FALSE, process |-> NULL] \in Node(S)
  BY DEF Node
<1> QED
  BY <1>1 DEF initializeQueue, NullQueue, WellFormed, Processes, Marked

\* An enqueue adds the process, keeps the shape, and keeps what was there
\* except for the process of an unmarked first node.
LEMMA EnqueueProcess ==
  ASSUME NEW S, NULL \notin S, NEW queue \in Seq(Node(S)), queue # NullQueue,
         WellFormed(queue), NEW p \in S, p \notin Processes(queue)
  PROVE  /\ enqueueProcess(queue, p) \in Seq(Node(S))
         /\ enqueueProcess(queue, p) # NullQueue
         /\ WellFormed(enqueueProcess(queue, p))
         /\ p \in Processes(enqueueProcess(queue, p))
         /\ Processes(enqueueProcess(queue, p)) \subseteq Processes(queue) \cup {p}
         /\ HasProcess(enqueueProcess(queue, p))
         /\ Marked(queue) => /\ Processes(enqueueProcess(queue, p)) = Processes(queue) \cup {p}
                             /\ Marked(enqueueProcess(queue, p))
<1> DEFINE result == enqueueProcess(queue, p)
<1>1. Len(queue) \in Nat \ {0} /\ 1 \in 1 .. Len(queue) /\ DOMAIN queue = 1 .. Len(queue)
  BY EmptySeq, LenProperties DEF NullQueue
<1>2. \A n \in 1 .. Len(queue) : /\ queue[n] \in Node(S)
                                 /\ queue[n].process \in S \cup {NULL}
                                 /\ queue[n].isHead \in BOOLEAN
  BY ElementOfSeq, NodeFields
<1>3. \A n \in 1 .. Len(queue) : queue[n].process # p
  BY <1>1 DEF Processes
<1>4. CASE ~ queue[1].isHead
  <2> DEFINE node == [isHead |-> TRUE, process |-> p]
  <2>1. node \in Node(S)
    BY DEF Node
  <2>2. result = [queue EXCEPT ![1] = node]
    BY <1>4 DEF enqueueProcess
  <2>3. /\ result \in Seq(Node(S))
        /\ Len(result) = Len(queue)
        /\ \A n \in 1 .. Len(queue) : result[n] = IF n = 1 THEN node ELSE queue[n]
    BY <1>1, <2>1, <2>2, ExceptSeq
  <2>4. DOMAIN result = 1 .. Len(queue)
    BY <2>3, LenProperties
  <2>5. \A n \in 1 .. Len(queue) : result[n].process = IF n = 1 THEN p ELSE queue[n].process
    BY <2>3
  <2>6. \A n \in 1 .. Len(queue) : n # 1 => queue[n].process # NULL
    BY <1>1 DEF WellFormed
  <2>7. WellFormed(result)
    BY <1>1, <1>3, <2>4, <2>5, <2>6 DEF WellFormed
  <2>8. /\ p \in Processes(result)
        /\ Processes(result) \subseteq Processes(queue) \cup {p}
    BY <1>1, <2>4, <2>5 DEF Processes
  <2>9. result # NullQueue /\ result[1].process = p
    BY <1>1, <2>3, <2>5, EmptySeq DEF NullQueue
  <2>10. ASSUME Marked(queue)
         PROVE  Processes(result) = Processes(queue) \cup {p} /\ Marked(result)
    <3>1. queue[1].process = NULL
      BY <1>4, <2>10 DEF Marked
    <3>2. Processes(queue) \subseteq Processes(result)
      BY <1>1, <2>4, <2>5, <3>1 DEF Processes
    <3>3. result[1].isHead
      BY <1>1, <2>3
    <3> QED
      BY <2>8, <3>2, <3>3 DEF Marked
  <2> QED
    BY <2>3, <2>7, <2>8, <2>9, <2>10 DEF HasProcess
<1>5. CASE queue[1].isHead
  <2> DEFINE node == [isHead |-> FALSE, process |-> p]
  <2>1. node \in Node(S)
    BY DEF Node
  <2>2. result = Append(queue, node)
    BY <1>5 DEF enqueueProcess
  <2>3. /\ result \in Seq(Node(S))
        /\ Len(result) = Len(queue) + 1
        /\ \A n \in 1 .. Len(queue) : result[n] = queue[n]
        /\ result[Len(queue) + 1] = node
    BY <2>1, <2>2, AppendProperties
  <2>4. DOMAIN result = 1 .. Len(queue) + 1
    BY <2>3, LenProperties
  <2>5. \A n \in 1 .. Len(queue) : result[n].process = queue[n].process
    BY <2>3
  <2>6. result[Len(queue) + 1].process = p
    BY <2>3
  <2>7. \A n \in 1 .. Len(queue) : queue[n].process # NULL
    BY <1>1, <1>5 DEF WellFormed
  <2>8. WellFormed(result)
    BY <1>1, <1>3, <2>4, <2>5, <2>6, <2>7 DEF WellFormed
  <2>9. Processes(result) = Processes(queue) \cup {p}
    BY <1>1, <2>4, <2>5, <2>6 DEF Processes
  <2>10. result # NullQueue /\ result[1].process # NULL /\ Marked(result)
    BY <1>1, <1>5, <2>3, <2>5, <2>7, EmptySeq DEF NullQueue, Marked
  <2> QED
    BY <2>3, <2>8, <2>9, <2>10 DEF HasProcess
<1> QED
  BY <1>1, <1>2, <1>4, <1>5

\* A dequeue from a queue that has a process removes just that process.
LEMMA DequeueProcess ==
  ASSUME NEW S, NULL \notin S, NEW queue \in Seq(Node(S)), WellFormed(queue), HasProcess(queue)
  PROVE  /\ dequeueProcess(queue) \in Seq(Node(S))
         /\ WellFormed(dequeueProcess(queue))
         /\ queue[1].process \in S
         /\ queue[1].process \in Processes(queue)
         /\ Processes(dequeueProcess(queue)) = Processes(queue) \ {queue[1].process}
         /\ Len(dequeueProcess(queue)) = Len(queue) - 1
         /\ \A n \in 1 .. Len(queue) - 1 : dequeueProcess(queue)[n] = queue[n + 1]
<1> DEFINE result == dequeueProcess(queue)
<1>1. Len(queue) \in Nat \ {0} /\ 1 \in 1 .. Len(queue) /\ DOMAIN queue = 1 .. Len(queue)
  BY EmptySeq, LenProperties DEF NullQueue, HasProcess
<1>2. queue[1].process \in S
  BY <1>1, ElementOfSeq, NodeFields DEF HasProcess
<1>3. /\ result \in Seq(Node(S))
      /\ Len(result) = Len(queue) - 1
      /\ \A n \in 1 .. Len(queue) - 1 : result[n] = queue[n + 1]
  <2>1. result = Tail(queue)
    BY DEF dequeueProcess, HasProcess
  <2> QED
    BY <2>1, HeadTailProperties DEF HasProcess, NullQueue
<1>4. DOMAIN result = 1 .. Len(queue) - 1
  BY <1>3, LenProperties
<1>5. \A n \in 1 .. Len(queue) : queue[n].process # NULL
  BY <1>1 DEF WellFormed, HasProcess
<1>6. WellFormed(result)
  <2>1. \A n \in 1 .. Len(queue) - 1 : result[n].process # NULL
    BY <1>1, <1>3, <1>5
  <2>2. \A m, n \in 1 .. Len(queue) - 1 : result[m].process = result[n].process => m = n
    <3> SUFFICES ASSUME NEW m \in 1 .. Len(queue) - 1, NEW n \in 1 .. Len(queue) - 1,
                        result[m].process = result[n].process
                 PROVE  m = n
      OBVIOUS
    <3>1. m + 1 \in DOMAIN queue /\ n + 1 \in DOMAIN queue
      BY <1>1
    <3>2. queue[m + 1].process = queue[n + 1].process
      BY <1>3
    <3>3. m + 1 = n + 1
      BY <3>1, <3>2 DEF WellFormed
    <3> QED
      BY <3>3
  <2> QED
    BY <1>4, <2>1, <2>2 DEF WellFormed
<1>7. Processes(result) = Processes(queue) \ {queue[1].process}
  <2>1. ASSUME NEW x \in Processes(result) PROVE x \in Processes(queue) \ {queue[1].process}
    <3>1. PICK n \in 1 .. Len(queue) - 1 : x = result[n].process
      BY <1>4 DEF Processes
    <3>2. n + 1 \in DOMAIN queue /\ n + 1 # 1 /\ x = queue[n + 1].process
      BY <1>1, <1>3, <3>1
    <3>3. x # queue[1].process
      BY <1>1, <3>2 DEF WellFormed
    <3> QED
      BY <1>1, <1>5, <3>2, <3>3 DEF Processes
  <2>2. ASSUME NEW x \in Processes(queue), x # queue[1].process PROVE x \in Processes(result)
    <3>1. PICK n \in 1 .. Len(queue) : x = queue[n].process /\ x # NULL
      BY <1>1 DEF Processes
    <3>2. n - 1 \in 1 .. Len(queue) - 1
      BY <1>1, <2>2, <3>1
    <3>3. result[n - 1] = queue[n]
      <4>1. result[n - 1] = queue[(n - 1) + 1]
        BY <1>3, <3>2
      <4>2. (n - 1) + 1 = n
        OBVIOUS
      <4> QED
        BY <4>1, <4>2
    <3> QED
      BY <1>4, <3>1, <3>2, <3>3 DEF Processes
  <2> QED
    BY <2>1, <2>2
<1> QED
  BY <1>1, <1>2, <1>3, <1>6, <1>7 DEF Processes, HasProcess

-----------------------------------------------------------------------------
(***************************************************************************)
(* HostResources                                                           *)
(***************************************************************************)
\* A set of naturals that is not empty has a least element.
LEMMA LeastNat ==
  ASSUME NEW S, S \subseteq Nat, S # {}
  PROVE  \E n \in S : \A m \in S : n <= m
<1> DEFINE Less == {pair \in Nat \X Nat : pair[1] < pair[2]}
<1>1. IsWellFoundedOn(Less, Nat)
  BY NatLessThanWellFounded DEF OpToRel
<1> HIDE DEF Less
<1>2. PICK n \in S : \A m \in S : ~ (<< m, n >> \in Less)
  BY <1>1, WFMin
<1>3. \A m \in S : ~ (m < n)
  BY <1>2 DEF Less
<1> QED
  BY <1>3

\* The window of a priority lies inside the resource.
LEMMA Windows ==
  ASSUME NEW r \in Resource, NEW priority \in Nat
  PROVE  /\ Base(r, priority) \in Nat
         /\ Limit(r, priority) \in Nat
         /\ Limit(r, priority) <= Capacity[r]
         /\ Capacity[r] \in Nat
         /\ Window(r, priority) \subseteq Cell(r)
BY CapacityAssumption, RTMemoryAssumption DEF Base, Limit, Window, Cell, Resource

-----------------------------------------------------------------------------
\* The answer of the first-fit scan is -1 or the start of a free run inside the
\* window, whatever the table holds.
LEMMA FirstFitSound ==
  ASSUME NEW cells, NEW n \in Nat, NEW pid, NEW base \in Nat, NEW limit \in Nat
  PROVE  /\ FirstFit(cells, n, pid, base, limit) \in Int
         /\ FirstFit(cells, n, pid, base, limit) # -1 =>
              FirstFit(cells, n, pid, base, limit) \in FreeRuns(cells, n, base, limit)
<1> DEFINE runs == FreeRuns(cells, n, base, limit)
           first == CHOOSE s \in runs : \A t \in runs : s <= t
<1>1. runs \subseteq Nat
  BY DEF FreeRuns
<1>2. runs # {} => first \in runs
  BY <1>1, LeastNat
<1> QED
  BY <1>1, <1>2 DEF FirstFit

\* checkResourcesFreeFirstFit is a first fit: for a process that owns no cell of
\* the window it answers the lowest start of a run of n free cells, and -1 exactly
\* when there is no such run (resources.c:274-308).
THEOREM FirstFitCorrect ==
  ASSUME NEW cells, NEW n \in Nat \ {0}, NEW pid, NEW base \in Nat, NEW limit \in Nat,
         \A c \in base .. limit - 1 : cells[c] # pid
  PROVE  LET fit == FirstFit(cells, n, pid, base, limit)
         IN  /\ fit = -1 <=> FreeRuns(cells, n, base, limit) = {}
             /\ fit # -1 => /\ fit \in FreeRuns(cells, n, base, limit)
                            /\ \A s \in FreeRuns(cells, n, base, limit) : fit <= s
<1> DEFINE runs == FreeRuns(cells, n, base, limit)
           first == CHOOSE s \in runs : \A t \in runs : s <= t
<1>1. runs \subseteq base .. limit - n
  BY DEF FreeRuns
<1>2. runs \subseteq Nat
  BY <1>1
<1>3. ASSUME runs # {} PROVE first \in runs /\ \A t \in runs : first <= t
  BY <1>2, <1>3, LeastNat
<1> HIDE DEF runs, first
<1>4. ASSUME runs # {} PROVE ~ \E c \in base .. first + n - 1 : cells[c] = pid
  <2>1. first \in base .. limit - n
    BY <1>1, <1>3, <1>4
  <2>2. first + n - 1 <= limit - 1
    BY <2>1
  <2> QED
    BY <2>1, <2>2
<1>5. FirstFit(cells, n, pid, base, limit)
        = IF runs = {} \/ \E c \in base .. first + n - 1 : cells[c] = pid THEN -1 ELSE first
  BY DEF FirstFit, runs, first
<1>6. ASSUME runs # {} PROVE first # -1
  BY <1>2, <1>3, <1>6
<1> QED
  BY <1>3, <1>4, <1>5, <1>6 DEF runs
-----------------------------------------------------------------------------
\* An attempt only turns free cells of the windows into cells of the process,
\* and notes where they are.
LEMMA AttemptEffect ==
  ASSUME NEW P, NEW alloc, IsTable(alloc, P), NEW io \in IO, NEW p \in P, NEW priority \in Nat,
         NEW cursor, cursor = Cursor(alloc, io, p, priority)
  PROVE  /\ IsTable(Taken(alloc, io, cursor, p), P)
         /\ Noted(io, cursor) \in IO
         /\ Noted(io, cursor).need = io.need
         /\ \A r \in Resource : \A c \in Cell(r) :
              \/ Taken(alloc, io, cursor, p)[r][c] = alloc[r][c]
              \/ /\ alloc[r][c] = 0
                 /\ Taken(alloc, io, cursor, p)[r][c] = p
                 /\ c \in Window(r, priority)
                 /\ c \in Recorded(Noted(io, cursor), r)
<1> DEFINE taken == Taken(alloc, io, cursor, p)
           noted == Noted(io, cursor)
<1>1. io.need \in [Resource -> Nat] /\ io.have \in [Resource -> Nat] /\ io.start \in [Resource -> Int]
  BY DEF IO
<1>2. \A r \in Resource :
        /\ cursor[r] \in Int
        /\ cursor[r] # -1 =>
             cursor[r] \in FreeRuns(alloc[r], io.need[r], Base(r, priority), Limit(r, priority))
  BY <1>1, FirstFitSound, Windows DEF Cursor
<1>3. /\ noted \in IO
      /\ noted.need = io.need
      /\ \A r \in Resource : r \in Obtained(io, cursor) =>
           noted.have[r] = io.need[r] /\ noted.start[r] = cursor[r]
  BY <1>1, <1>2 DEF Noted, IO
<1>4. /\ taken = [r \in Resource |-> taken[r]]
      /\ \A r \in Resource : r \notin Obtained(io, cursor) => taken[r] = alloc[r]
      /\ \A r \in Resource : r \in Obtained(io, cursor) =>
           taken[r] = Fill(alloc[r], cursor[r], io.need[r], p)
  BY DEF Taken
<1>5. ASSUME NEW r \in Resource, r \in Obtained(io, cursor)
      PROVE  /\ taken[r] \in [Cell(r) -> P \cup {0}]
             /\ \A c \in Cell(r) :
                  taken[r][c] = IF c \in Run(cursor[r], io.need[r]) THEN p ELSE alloc[r][c]
  <2>1. alloc[r] \in [Cell(r) -> P \cup {0}]
    BY DEF IsTable
  <2> QED
    BY <1>4, <1>5, <2>1 DEF Fill
<1>6. IsTable(taken, P)
  BY <1>4, <1>5 DEF IsTable
<1>7. ASSUME NEW r \in Resource, NEW c \in Cell(r), taken[r][c] # alloc[r][c]
      PROVE  /\ alloc[r][c] = 0
             /\ taken[r][c] = p
             /\ c \in Window(r, priority)
             /\ c \in Recorded(noted, r)
  <2>1. r \in Obtained(io, cursor)
    BY <1>4, <1>7
  <2>2. c \in Run(cursor[r], io.need[r]) /\ taken[r][c] = p
    BY <1>5, <1>7, <2>1
  <2>3. cursor[r] # -1
    BY <2>1 DEF Obtained
  <2>4. /\ cursor[r] \in Base(r, priority) .. Limit(r, priority) - io.need[r]
        /\ \A d \in Run(cursor[r], io.need[r]) : alloc[r][d] = 0
    BY <1>2, <2>3 DEF FreeRuns
  <2>5. c \in Window(r, priority)
    BY <1>1, <1>2, <2>2, <2>4, Windows DEF Run, Window
  <2>6. c \in Recorded(noted, r)
    BY <1>3, <2>1, <2>2, <2>3 DEF Recorded
  <2> QED
    BY <2>2, <2>4, <2>5, <2>6
<1> QED
  BY <1>3, <1>6, <1>7

\* After an attempt the record of a resource that was obtained is the run that was
\* marked, and the record of any other is what it was.
LEMMA AttemptRecords ==
  ASSUME NEW P, NEW alloc, IsTable(alloc, P), NEW io \in IO, NEW p \in P, NEW priority \in Nat,
         NEW cursor, cursor = Cursor(alloc, io, p, priority), NEW r \in Resource
  PROVE  /\ r \notin Obtained(io, cursor) =>
              /\ Recorded(Noted(io, cursor), r) = Recorded(io, r)
              /\ Taken(alloc, io, cursor, p)[r] = alloc[r]
         /\ r \in Obtained(io, cursor) =>
              \A c \in Recorded(Noted(io, cursor), r) :
                c \in Cell(r) /\ Taken(alloc, io, cursor, p)[r][c] = p
<1> DEFINE noted == Noted(io, cursor)
           taken == Taken(alloc, io, cursor, p)
<1>1. io.need \in [Resource -> Nat] /\ io.have \in [Resource -> Nat] /\ io.start \in [Resource -> Int]
  BY DEF IO
<1>2. /\ noted.have[r] = IF r \in Obtained(io, cursor) THEN io.need[r] ELSE io.have[r]
      /\ noted.start[r] = IF r \in Obtained(io, cursor) THEN cursor[r] ELSE io.start[r]
      /\ taken[r] = IF r \in Obtained(io, cursor) THEN Fill(alloc[r], cursor[r], io.need[r], p)
                                                  ELSE alloc[r]
  BY DEF Noted, Taken, IO
<1>3. CASE r \notin Obtained(io, cursor)
  BY <1>2, <1>3 DEF Recorded
<1>4. CASE r \in Obtained(io, cursor)
  <2>1. cursor[r] # -1
    BY <1>4 DEF Obtained
  <2>2. Recorded(noted, r) = Run(cursor[r], io.need[r])
    BY <1>2, <1>4, <2>1 DEF Recorded
  <2>3. cursor[r] \in FreeRuns(alloc[r], io.need[r], Base(r, priority), Limit(r, priority))
    BY <1>1, <2>1, FirstFitSound, Windows DEF Cursor
  <2>4. ASSUME NEW c \in Run(cursor[r], io.need[r]) PROVE c \in Window(r, priority)
    BY <1>1, <2>3, <2>4, Windows DEF FreeRuns, Run, Window
  <2>5. alloc[r] \in [Cell(r) -> P \cup {0}]
    BY DEF IsTable
  <2>6. ASSUME NEW c \in Run(cursor[r], io.need[r]) PROVE c \in Cell(r) /\ taken[r][c] = p
    <3>1. c \in Cell(r)
      BY <2>4, <2>6, Windows
    <3> QED
      BY <1>2, <1>4, <2>5, <2>6, <3>1 DEF Fill
  <2> QED
    BY <1>4, <2>2, <2>6
<1> QED
  BY <1>3, <1>4

\* A release zeroes the cells on record, and no other.
LEMMA ReleaseEffect ==
  ASSUME NEW P, NEW alloc, IsTable(alloc, P), NEW io
  PROVE  /\ IsTable(freeHostResources(alloc, io), P)
         /\ \A r \in Resource : \A c \in Cell(r) :
              freeHostResources(alloc, io)[r][c] = IF c \in Recorded(io, r) THEN 0 ELSE alloc[r][c]
<1>1. ASSUME NEW r \in Resource
      PROVE  /\ freeHostResources(alloc, io)[r]
                  = [c \in Cell(r) |-> IF c \in Recorded(io, r) THEN 0 ELSE alloc[r][c]]
             /\ freeHostResources(alloc, io)[r] \in [Cell(r) -> P \cup {0}]
  BY DEF freeHostResources, IsTable
<1> QED
  BY <1>1 DEF freeHostResources, IsTable
=============================================================================
