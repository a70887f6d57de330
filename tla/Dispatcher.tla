------------------------------ MODULE Dispatcher ------------------------------
(***************************************************************************)
(* The process dispatcher of Assignment5/dispatcher: readFile turns the    *)
(* lines of a job file into processes on the dispatcher queue; then, once  *)
(* per time unit, updateDispatcher admits the processes that have arrived  *)
(* and whose resources are free, and doProcessing runs one process for one *)
(* time unit: a real time process to its end, the others through three     *)
(* feedback queues with quanta 1, 2 and 3.                                 *)
(***************************************************************************)
EXTENDS PCBQueue, HostResources

CONSTANTS MaxProcesses,   \* MAX_PROCESSES: the pids readFile may give
          Job,            \* the lines a job file may hold
          MaxTime         \* the time at which main stops (20 in the code)

\* A line: arrival time, priority, processor time, and the five needs.
JobLine == [arrival : Nat, priority : 0 .. 3, cpu : Nat, need : [Resource -> Nat]]

ASSUME MaxProcessesAssumption == MaxProcesses \in Nat
ASSUME JobAssumption == Job \subseteq JobLine
ASSUME MaxTimeAssumption == MaxTime \in Nat

Pid == 1 .. MaxProcesses
Level == 0 .. 3                            \* 0 is the real time queue
TimeQuantum == <<1, 2, 3>>                 \* P1_, P2_, P3_TIMEQUANTUM
State == {"STARTED", "RUNNING", "SUSPENDED", "TERMINATED"}

VARIABLES pc,             \* where main, updateDispatcher or doProcessing stands
          pid,            \* the static counter of readFile: the next pid
          pcb,            \* the PCB of each pid; a fresh one above the counter
          alloc,          \* host: which pid each cell is given to
          dispatcher,     \* the queue of processes that are not admitted yet
          queuePtr,       \* updateDispatcher: what is left of that queue
          count,          \* updateDispatcher: count - i, iterations to come
          newDispatcher,  \* updateDispatcher: the queue for the next tick
          ready,          \* realTimeQueue, p1Queue, p2Queue and p3Queue
          current,        \* host.currentProcess
          rtUpdated,      \* a real time process was admitted in this tick
          time,
          freed           \* the PCBs that were given back to free()

vars == << pc, pid, pcb, alloc, dispatcher, queuePtr, count, newDispatcher,
           ready, current, rtUpdated, time, freed >>
scan == << queuePtr, count, newDispatcher >>

PCB == [priority : 0 .. 3, arrival : Nat, remaining : Int, slice : Int, state : State, io : IO]

newPCBIO == [need  |-> [r \in Resource |-> 0],
             have  |-> [r \in Resource |-> 0],
             start |-> [r \in Resource |-> -1]]

newPCB == [priority |-> 0, arrival |-> 0, remaining |-> 0, slice |-> 0, state |-> "STARTED",
           io |-> newPCBIO]

TypeOK ==
  /\ pc \in {"read", "update", "scan", "process", "done"}
  /\ pid \in 1 .. MaxProcesses + 1
  /\ pcb \in [Pid -> PCB]
  /\ IsTable(alloc, Pid)
  /\ dispatcher \in Seq(Node(Pid))
  /\ queuePtr \in Seq(Node(Pid))
  /\ count \in Nat
  /\ newDispatcher \in Seq(Node(Pid))
  /\ ready \in [Level -> Seq(Node(Pid))]
  /\ current \in Pid \cup {NULL}
  /\ rtUpdated \in BOOLEAN
  /\ time \in 0 .. MaxTime
  /\ freed \subseteq Pid

\* initSystem, and the locals of updateDispatcher before its first call.
Init ==
  /\ pc = "read"
  /\ pid = 1
  /\ pcb = [p \in Pid |-> newPCB]
  /\ alloc = NoneAllocated
  /\ dispatcher = initializeQueue
  /\ queuePtr = NullQueue
  /\ count = 0
  /\ newDispatcher = NullQueue
  /\ ready = [k \in Level |-> initializeQueue]
  /\ current = NULL
  /\ rtUpdated = FALSE
  /\ time = 0
  /\ freed = {}

-----------------------------------------------------------------------------
(***************************************************************************)
(* readFile                                                                *)
(***************************************************************************)

\* The PCB of a line.
FromLine(job) ==
  [newPCB EXCEPT !.priority = job.priority, !.arrival = job.arrival, !.remaining = job.cpu,
                 !.io = [newPCBIO EXCEPT !.need = job.need]]

\* One turn of the loop: a PCB is made from a line and put on the dispatcher.
ReadLine ==
  /\ pc = "read"
  /\ pid <= MaxProcesses
  /\ \E job \in Job : pcb' = [pcb EXCEPT ![pid] = FromLine(job)]
  /\ dispatcher' = enqueueProcess(dispatcher, pid)
  /\ pid' = pid + 1
  /\ UNCHANGED << pc, alloc, scan, ready, current, rtUpdated, time, freed >>

\* The file ends, or its next line would exceed MAX_PROCESSES.
EndOfFile ==
  /\ pc = "read"
  /\ pc' = "update"
  /\ UNCHANGED << pid, pcb, alloc, dispatcher, scan, ready, current, rtUpdated, time, freed >>

-----------------------------------------------------------------------------
(***************************************************************************)
(* updateDispatcher                                                        *)
(***************************************************************************)

\* Fault: the processes of priority 3 go to the queue of priority 2.
ThirdToSecond(queues, process, priority) ==
  LET k == IF priority = 3 THEN 2 ELSE priority
  IN  [queues EXCEPT ![k] = enqueueProcess(IF @ = NullQueue THEN initializeQueue ELSE @, process)]

\* enqueueToPriority: the queue is made anew when its pointer is NULL.
enqueueToPriority(queues, process, priority) ==
  [queues EXCEPT ![priority] =
     enqueueProcess(IF @ = NullQueue THEN initializeQueue ELSE @, process)]

\* main's loop condition, and the fault of one turn too many.
OneTurnMore == time <= MaxTime
MoreTime == time < MaxTime

\* From the call to the loop: a dispatcher whose first node carries no process
\* is not iterated over.
BeginUpdate ==
  /\ pc = "update"
  /\ MoreTime
  /\ queuePtr' = dispatcher
  /\ newDispatcher' = initializeQueue
  /\ count' = IF dispatcher[1].process = NULL THEN 0 ELSE numElems(dispatcher)
  /\ rtUpdated' = FALSE
  /\ pc' = "scan"
  /\ UNCHANGED << pid, pcb, alloc, dispatcher, ready, current, time, freed >>

\* The process a turn of the loop takes from the queue.
Scanned == queuePtr[1].process

NextTurn ==
  /\ pc = "scan"
  /\ count > 0
  /\ queuePtr' = dequeueProcess(queuePtr)
  /\ count' = count - 1

\* A turn on a process that has not arrived.
PutBack ==
  /\ NextTurn
  /\ time < pcb[Scanned].arrival
  /\ newDispatcher' = enqueueProcess(newDispatcher, Scanned)
  /\ UNCHANGED << pc, pid, pcb, alloc, dispatcher, ready, current, rtUpdated, time, freed >>

CursorOf(p) == Cursor(alloc, pcb[p].io, p, pcb[p].priority)

\* A turn on a process that gets all it needs: it joins the queue of its priority.
Admit ==
  /\ NextTurn
  /\ time >= pcb[Scanned].arrival
  /\ LET p      == Scanned
         cursor == CursorOf(p)
     IN  /\ ~ Refused(pcb[p].io, cursor)
         /\ alloc' = Taken(alloc, pcb[p].io, cursor, p)
         /\ pcb' = [pcb EXCEPT ![p].io = Noted(@, cursor)]
         /\ rtUpdated' = (rtUpdated \/ pcb[p].priority = 0)
         /\ ready' = enqueueToPriority(ready, p, pcb[p].priority)
  /\ UNCHANGED << pc, pid, dispatcher, newDispatcher, current, time, freed >>

\* A turn on a process that misses a resource: what the attempt took is freed,
\* and so is what an earlier attempt recorded for the resource now missing.
Refuse ==
  /\ NextTurn
  /\ time >= pcb[Scanned].arrival
  /\ LET p      == Scanned
         cursor == CursorOf(p)
         io     == Noted(pcb[p].io, cursor)
     IN  /\ Refused(pcb[p].io, cursor)
         /\ alloc' = freeHostResources(Taken(alloc, pcb[p].io, cursor, p), io)
         /\ pcb' = [pcb EXCEPT ![p].io = io]
         /\ newDispatcher' = enqueueProcess(newDispatcher, p)
  /\ UNCHANGED << pc, pid, dispatcher, ready, current, rtUpdated, time, freed >>

EndUpdate ==
  /\ pc = "scan"
  /\ count = 0
  /\ dispatcher' = newDispatcher
  /\ pc' = "process"
  /\ UNCHANGED << pid, pcb, alloc, scan, ready, current, rtUpdated, time, freed >>

-----------------------------------------------------------------------------
(***************************************************************************)
(* doProcessing.  Its first half chooses a process, its second half runs   *)
(* it for one time unit; the two are one step, as nothing can observe the  *)
(* state between them, and main then advances the time.                    *)
(***************************************************************************)

NextTick ==
  /\ pc' = "update"
  /\ time' = time + 1

\* The slice is used up, and the fault of letting it go below zero.
SliceOverrun(process) == process.slice < 0
SliceUsedUp(process) == process.slice = 0

\* A process that runs for a time unit, and one whose quantum is over.
Ticked(process) ==
  [process EXCEPT !.state = "RUNNING", !.slice = @ - 1, !.remaining = @ - 1]
Demoted(process, priority, slice) == [process EXCEPT !.priority = priority, !.slice = slice]

\* The second half, for process p with the PCBs and queues the first half left.
RunProcess(p, pcbs, queues) ==
  LET ran == [pcbs EXCEPT ![p] = Ticked(@)]
      requeued(priority, slice) ==
        /\ pcb' = [ran EXCEPT ![p] = Demoted(@, priority, slice)]
        /\ ready' = enqueueToPriority(queues, p, priority)
        /\ current' = NULL
        /\ UNCHANGED << alloc, freed >>
  IN  \/ /\ ran[p].remaining = 0
         /\ alloc' = freeHostResources(alloc, ran[p].io)
         /\ pcb' = [ran EXCEPT ![p].state = "TERMINATED"]
         /\ freed' = freed \cup {p}
         /\ current' = NULL
         /\ ready' = queues
      \/ /\ ran[p].remaining # 0
         /\ SliceUsedUp(ran[p])
         /\ ran[p].priority \in {1, 2}
         /\ requeued(ran[p].priority + 1, 0)
      \/ /\ ran[p].remaining # 0
         /\ SliceUsedUp(ran[p])
         /\ ran[p].priority = 3
         /\ requeued(1, TimeQuantum[3])
      \/ /\ ran[p].remaining # 0
         /\ ~ SliceUsedUp(ran[p]) \/ ran[p].priority = 0
         /\ pcb' = ran
         /\ current' = p
         /\ ready' = queues
         /\ UNCHANGED << alloc, freed >>

\* The process at the head of a queue is dispatched with the given time slice.
Dispatch(k, slice, pcbs, queues) ==
  RunProcess(queues[k][1].process,
             [pcbs EXCEPT ![queues[k][1].process].slice = slice],
             [queues EXCEPT ![k] = dequeueProcess(@)])

\* Whether a process leaves the processor to a real time process.  Faults: any
\* does, or only those of priority 3 do.
AnyYields(p) == TRUE
SomeYield(p) == pcb[p].priority > 2
Yields(p) == pcb[p].priority # 0

\* A real time process was admitted while a user process is on the processor:
\* that one is suspended and goes to the end of its queue.  That the real time
\* queue then has a process is part of NoBadDereference.
Preempt ==
  /\ pc = "process"
  /\ current # NULL
  /\ Yields(current)
  /\ rtUpdated
  /\ LET queues == enqueueToPriority(ready, current, pcb[current].priority)
         head   == queues[0][1].process
     IN  Dispatch(0, pcb[head].remaining, [pcb EXCEPT ![current].state = "SUSPENDED"], queues)
  /\ NextTick
  /\ UNCHANGED << pid, dispatcher, scan, rtUpdated >>

\* The process on the processor stays there.
Continue ==
  /\ pc = "process"
  /\ current # NULL
  /\ ~ Yields(current) \/ ~ rtUpdated
  /\ RunProcess(current, pcb, ready)
  /\ NextTick
  /\ UNCHANGED << pid, dispatcher, scan, rtUpdated >>

\* A real time process was admitted while the processor is free.
DispatchRealTime ==
  /\ pc = "process"
  /\ current = NULL
  /\ rtUpdated
  /\ HasProcess(ready[0])
  /\ Dispatch(0, pcb[ready[0][1].process].remaining, pcb, ready)
  /\ NextTick
  /\ UNCHANGED << pid, dispatcher, scan, rtUpdated >>

\* The first user queue whose pointer is not NULL is the only one looked at.
FirstQueue(k) == k \in 1 .. 3 /\ ready[k] # NullQueue /\ \A j \in 1 .. k - 1 : ready[j] = NullQueue

DispatchUser ==
  /\ pc = "process"
  /\ current = NULL
  /\ ~ rtUpdated
  /\ \E k \in 1 .. 3 :
       /\ FirstQueue(k)
       /\ HasProcess(ready[k])
       /\ Dispatch(k, TimeQuantum[k], pcb, ready)
  /\ NextTick
  /\ UNCHANGED << pid, dispatcher, scan, rtUpdated >>

\* Nothing is dispatched: the queue looked at carries no process, or every
\* pointer is NULL.
Idle ==
  /\ pc = "process"
  /\ current = NULL
  /\ IF rtUpdated THEN ~ HasProcess(ready[0])
                  ELSE \A k \in 1 .. 3 : FirstQueue(k) => ~ HasProcess(ready[k])
  /\ NextTick
  /\ UNCHANGED << pid, pcb, alloc, dispatcher, scan, ready, current, rtUpdated, freed >>

\* main leaves its loop; closeSystem frees the nodes and the PCBs that wait.
Close ==
  /\ pc = "update"
  /\ ~ MoreTime
  /\ pc' = "done"
  /\ freed' = freed \cup Processes(dispatcher)
  /\ dispatcher' = NullQueue
  /\ UNCHANGED << pid, pcb, alloc, scan, ready, current, rtUpdated, time >>

Next ==
  \/ ReadLine \/ EndOfFile
  \/ BeginUpdate \/ PutBack \/ Admit \/ Refuse \/ EndUpdate
  \/ Preempt \/ Continue \/ DispatchRealTime \/ DispatchUser \/ Idle
  \/ Close

Spec == Init /\ [][Next]_vars

-----------------------------------------------------------------------------
(***************************************************************************)
(* Safety                                                                  *)
(***************************************************************************)

\* The processes that have been read and not admitted.
Waiting == IF pc = "scan" THEN Processes(queuePtr) \cup Processes(newDispatcher)
                          ELSE Processes(dispatcher)

Ready == UNION {Processes(ready[k]) : k \in Level}

\* The processes that were admitted, have not ended and can still be reached.
Live == Ready \cup ({current} \ {NULL})

\* A process is at one place at most: it waits, or it is in the queue of its
\* own priority and there once, or it is on the processor; and a PCB that was
\* given to free() is at none.  Broken if a requeued process stays current
\* (hostd.c:107, 173, 178), or changes priority while queued.
PlacedOnce ==
  /\ \A k \in Level : WellFormed(ready[k])
  /\ \A k \in Level : \A p \in Processes(ready[k]) : pcb[p].priority = k
  /\ current \notin Ready
  /\ Waiting \cap (Live \cup freed) = {}
  /\ Live \cap freed = {}

InOrder(queue) == \A i, j \in DOMAIN queue : i < j => queue[i].process < queue[j].process

\* The waiting processes are in the order of the job file, in the list being
\* built as in the list being consumed, whatever was refused and put back in
\* earlier ticks (hostd.c:218-256): an earlier line is tried before a later one.
WaitingInOrder ==
  IF pc = "scan"
  THEN /\ InOrder(queuePtr)
       /\ InOrder(newDispatcher)
       /\ \A p \in Processes(newDispatcher), q \in Processes(queuePtr) : p < q
  ELSE InOrder(dispatcher)

\* No cell is marked with a process that waits: a refused attempt returns all
\* it took (resources.c:28), which is why the scan of checkResourcesFreeFirstFit
\* never meets the pid it allocates for (resources.c:291-293).
WaitingHoldsNothing ==
  \A r \in Resource : \A c \in Cell(r) : alloc[r][c] \notin Waiting

\* A cell in use is one that its process has on record, and that process has
\* not been freed: freeHostResources at its end will find the cell, and no cell
\* stays marked by a process that ended (resources.c:225-266, hostd.c:164).
CellsRecorded ==
  \A r \in Resource : \A c \in Cell(r) :
    LET p == alloc[r][c]
    IN  p # 0 => p \notin freed /\ c \in Recorded(pcb[p].io, r)

\* Real time processes are the only ones in the first RTMemory cells of memory,
\* user processes the only ones in the rest (resources.c:168, 201), through all
\* later changes of priority.
MemoryPartition ==
  \A c \in Cell("memory") :
    LET p == alloc["memory"][c]
    IN  p # 0 => (c < RTMemory <=> pcb[p].priority = 0)

\* As long as every process read so far needs one kind of resource at most, a
\* process that was admitted has every cell it has on record, to itself.
ExclusiveWhenSingleKind ==
  (\A p \in 1 .. pid - 1 : \A r, s \in Resource :
      pcb[p].io.need[r] # 0 /\ pcb[p].io.need[s] # 0 => r = s)
  => \A p \in Live, r \in Resource : \A c \in Recorded(pcb[p].io, r) : alloc[r][c] = p

\* Every pointer that the program follows without a test is good: the process
\* taken by each turn of the loop (hostd.c:220), the real time queue after a
\* real time admission (hostd.c:110), and in the ready queues each node after
\* the first carries a process (queue.c:135).
NoBadDereference ==
  /\ pc = "update" => dispatcher # NullQueue
  /\ pc = "scan" /\ count > 0 => HasProcess(queuePtr)
  /\ pc \in {"scan", "process"} /\ rtUpdated => HasProcess(ready[0])
  /\ \A k \in Level : \A i \in DOMAIN ready[k] : i > 1 => ready[k][i].process # NULL

\* Between two ticks the process on the processor has time left and slice left:
\* a real time process a slice that lasts until its end, a user process less
\* than the quantum of its priority.  (A process whose line asks for no
\* processor time passes zero and never ends.)
RunningHasBudget ==
  current # NULL =>
    LET running == pcb[current]
    IN  /\ running.remaining # 0
        /\ running.priority = 0 => running.slice = running.remaining
        /\ running.priority # 0 => running.slice \in 1 .. TimeQuantum[running.priority] - 1

\* A real time process is never taken off the processor before its end, whatever
\* arrives meanwhile (hostd.c:101).
RealTimeRunsToCompletion ==
  [][current # NULL /\ pcb[current].priority = 0 => current' = current \/ current \in freed']_vars

\* The tick in which a real time process is admitted is spent on a real time
\* process, whatever was on the processor and in the queues (hostd.c:99-129).
RealTimeFirst ==
  [][pc = "process" /\ rtUpdated =>
       \E p \in Pid : pcb[p].priority = 0 /\ pcb'[p].remaining = pcb[p].remaining - 1]_vars

-----------------------------------------------------------------------------
(***************************************************************************)
(* The life of a process                                                   *)
(***************************************************************************)

Life == INSTANCE Lifecycle
          WITH Process <- Pid,
               unread  <- pid .. MaxProcesses,
               urgent  <- {p \in 1 .. pid - 1 : pcb[p].priority = 0},
               waiting <- Waiting,
               ready   <- Ready,
               running <- {current} \ {NULL},
               ended   <- freed,
               open    <- pc # "done"

\* Whatever is refused, put back, preempted, demoted or requeued, and however the
\* three functions divide the work (hostd.c:95-257), each process goes through
\* the life of Lifecycle: it leaves the waiting only for the ready, the ready
\* only for the processor, and the processor only at its end, at a change of
\* queue or for a real time process; and an enqueue costs one other at most.
ImplementsLifecycle == Life!Spec

-----------------------------------------------------------------------------
(***************************************************************************)
(* What the comments promise and the code does not keep                    *)
(***************************************************************************)

\* queue.c:23: an enqueued process is "placed in tail-end of Queue".  So every
\* process that was read waits, is queued, runs, or has ended.
NoProcessLost == 1 .. pid - 1 \subseteq Waiting \cup Live \cup freed

\* resources.c:279: "0 signifies no process is using it".  So a cell that a live
\* process has on record is not marked free.
ZeroMeansUnused ==
  \A p \in Live, r \in Resource : \A c \in Recorded(pcb[p].io, r) : alloc[r][c] # 0
=============================================================================
