--------------------------- MODULE DispatcherProofs ---------------------------
(***************************************************************************)
(* Proofs about Dispatcher, for every job file, every size of the host and *)
(* every number of ticks.                                                  *)
(***************************************************************************)
EXTENDS Dispatcher, QueueResourceProofs

ReadyQueues == [Level -> Seq(Node(Pid))]

\* Every ready queue has its shape and only processes of its priority.
Sorted(queues, pcbs) ==
  \A k \in Level : /\ WellFormed(queues[k])
                   /\ \A p \in Processes(queues[k]) : pcbs[p].priority = k

Queued(queues) == UNION {Processes(queues[k]) : k \in Level}

\* A pid is never taken for the NULL process pointer.
LEMMA PidNotNull == NULL \notin Pid
BY MaxProcessesAssumption DEF Pid, NULL

\* A queue of processes carries pids only.
LEMMA ProcessesArePids ==
  ASSUME NEW queue \in Seq(Node(Pid))
  PROVE  Processes(queue) \subseteq Pid
<1>1. DOMAIN queue = 1 .. Len(queue)
  BY LenProperties
<1> QED
  BY <1>1, ElementOfSeq, NodeFields DEF Processes

\* enqueueToPriority (hostd.c:272-296) touches one queue, keeps every shape, and
\* leaves the process in the queue of its priority.
LEMMA EnqueueToPriority ==
  ASSUME NEW queues \in ReadyQueues, NEW p \in Pid, NEW k \in Level,
         \A j \in Level : WellFormed(queues[j]), p \notin Queued(queues)
  PROVE  /\ enqueueToPriority(queues, p, k) \in ReadyQueues
         /\ \A j \in Level : j # k => enqueueToPriority(queues, p, k)[j] = queues[j]
         /\ WellFormed(enqueueToPriority(queues, p, k)[k])
         /\ p \in Processes(enqueueToPriority(queues, p, k)[k])
         /\ Processes(enqueueToPriority(queues, p, k)[k]) \subseteq Processes(queues[k]) \cup {p}
         /\ HasProcess(enqueueToPriority(queues, p, k)[k])
         /\ Queued(enqueueToPriority(queues, p, k)) \subseteq Queued(queues) \cup {p}
<1> DEFINE old == IF queues[k] = NullQueue THEN initializeQueue ELSE queues[k]
           result == enqueueToPriority(queues, p, k)
<1>1. /\ old \in Seq(Node(Pid))
      /\ old # NullQueue
      /\ WellFormed(old)
      /\ Processes(old) \subseteq Processes(queues[k])
  BY InitializeQueue DEF ReadyQueues
<1>2. p \notin Processes(old)
  BY <1>1 DEF Queued
<1> HIDE DEF old
<1>3. result = [queues EXCEPT ![k] = enqueueProcess(old, p)]
  BY DEF enqueueToPriority, old
<1>4. /\ enqueueProcess(old, p) \in Seq(Node(Pid))
      /\ WellFormed(enqueueProcess(old, p))
      /\ p \in Processes(enqueueProcess(old, p))
      /\ Processes(enqueueProcess(old, p)) \subseteq Processes(old) \cup {p}
      /\ HasProcess(enqueueProcess(old, p))
  BY <1>1, <1>2, PidNotNull, EnqueueProcess
<1>5. /\ result \in ReadyQueues
      /\ \A j \in Level : j # k => result[j] = queues[j]
      /\ result[k] = enqueueProcess(old, p)
  BY <1>3, <1>4 DEF ReadyQueues
<1>6. \A j \in Level : Processes(result[j]) \subseteq Processes(queues[j]) \cup {p}
  BY <1>1, <1>4, <1>5
<1>7. Queued(result) \subseteq Queued(queues) \cup {p}
  BY <1>6 DEF Queued
<1> QED
  BY <1>1, <1>4, <1>5, <1>7

\* Taking the head of a ready queue removes that process and no other.
LEMMA DequeueReady ==
  ASSUME NEW queues \in ReadyQueues, NEW pcbs, NEW k \in Level,
         Sorted(queues, pcbs), HasProcess(queues[k])
  PROVE  LET result == [queues EXCEPT ![k] = dequeueProcess(@)]
             p      == queues[k][1].process
         IN  /\ result \in ReadyQueues
             /\ Sorted(result, pcbs)
             /\ p \in Pid
             /\ p \in Queued(queues)
             /\ pcbs[p].priority = k
             /\ Queued(result) = Queued(queues) \ {p}
<1> DEFINE result == [queues EXCEPT ![k] = dequeueProcess(@)]
           p      == queues[k][1].process
<1>1. queues[k] \in Seq(Node(Pid)) /\ WellFormed(queues[k])
  BY DEF ReadyQueues, Sorted
<1>2. /\ dequeueProcess(queues[k]) \in Seq(Node(Pid))
      /\ WellFormed(dequeueProcess(queues[k]))
      /\ p \in Pid
      /\ p \in Processes(queues[k])
      /\ Processes(dequeueProcess(queues[k])) = Processes(queues[k]) \ {p}
  BY <1>1, PidNotNull, DequeueProcess
<1>3. /\ result \in ReadyQueues
      /\ \A j \in Level : j # k => result[j] = queues[j]
      /\ result[k] = dequeueProcess(queues[k])
  BY <1>2 DEF ReadyQueues
<1>4. Sorted(result, pcbs)
  BY <1>2, <1>3 DEF Sorted
<1>5. \A j \in Level : j # k => p \notin Processes(queues[j])
  BY <1>2 DEF Sorted
<1>6. \A j \in Level : Processes(result[j]) = Processes(queues[j]) \ {p}
  BY <1>2, <1>3, <1>5
<1> HIDE DEF p, result
<1>7. Queued(result) = Queued(queues) \ {p}
  BY <1>6 DEF Queued
<1>8. p \in Queued(queues) /\ pcbs[p].priority = k
  BY <1>2 DEF Queued, Sorted
<1> QED
  BY <1>2, <1>3, <1>4, <1>7, <1>8 DEF p, result
-----------------------------------------------------------------------------

\* A time unit takes one from the slice and one from the remaining time.
LEMMA TickedFields ==
  ASSUME NEW process \in PCB
  PROVE  /\ Ticked(process) \in PCB
         /\ Ticked(process).io = process.io
         /\ Ticked(process).priority = process.priority
         /\ Ticked(process).slice = process.slice - 1
         /\ Ticked(process).remaining = process.remaining - 1
<1>1. process.slice - 1 \in Int /\ process.remaining - 1 \in Int /\ "RUNNING" \in State
  BY DEF PCB, State
<1> DEFINE s == process.slice - 1
           r == process.remaining - 1
<1>2. Ticked(process) = [process EXCEPT !.state = "RUNNING", !.slice = s, !.remaining = r]
  BY DEF Ticked
<1> HIDE DEF s, r
<1>3. s \in Int /\ r \in Int
  BY <1>1 DEF s, r
<1>4. /\ Ticked(process) \in PCB
      /\ Ticked(process).io = process.io
      /\ Ticked(process).priority = process.priority
      /\ Ticked(process).slice = s
      /\ Ticked(process).remaining = r
  BY <1>1, <1>2, <1>3 DEF PCB
<1> QED
  BY <1>4 DEF s, r

\* What a time unit of process p does, given PCBs and ready queues without p.
LEMMA RunEffect ==
  ASSUME TypeOK,
         NEW pcbs \in [Pid -> PCB], NEW queues \in ReadyQueues, Sorted(queues, pcbs),
         NEW p \in Pid, p \notin Queued(queues),
         RunProcess(p, pcbs, queues)
  PROVE  /\ pcb' \in [Pid -> PCB]
         /\ ready' \in ReadyQueues
         /\ Sorted(ready', pcb')
         /\ current' \in {p, NULL}
         /\ current' \notin Queued(ready')
         /\ Queued(ready') \subseteq Queued(queues) \cup {p}
         /\ \/ freed' = freed /\ alloc' = alloc
            \/ /\ freed' = freed \cup {p}
               /\ alloc' = freeHostResources(alloc, pcbs[p].io)
               /\ current' = NULL
               /\ ready' = queues
         /\ \A q \in Pid \ {p} : pcb'[q] = pcbs[q]
         /\ pcb'[p].io = pcbs[p].io
         /\ pcb'[p].priority = 0 <=> pcbs[p].priority = 0
         /\ pcb'[p].remaining = pcbs[p].remaining - 1
         /\ current' = p => /\ pcb'[p].remaining # 0
                            /\ pcb'[p].priority = pcbs[p].priority
                            /\ pcb'[p].slice = pcbs[p].slice - 1
                            /\ pcb'[p].priority # 0 => pcb'[p].slice # 0
         /\ pcbs[p].priority = 0 => current' = p \/ p \in freed'
<1> DEFINE ran == [pcbs EXCEPT ![p] = Ticked(@)]
<1> DEFINE requeued(priority, slice) ==
             /\ pcb' = [ran EXCEPT ![p] = Demoted(@, priority, slice)]
             /\ ready' = enqueueToPriority(queues, p, priority)
             /\ current' = NULL
             /\ UNCHANGED << alloc, freed >>
<1>1. /\ ran \in [Pid -> PCB]
      /\ \A q \in Pid \ {p} : ran[q] = pcbs[q]
      /\ ran[p].io = pcbs[p].io
      /\ ran[p].priority = pcbs[p].priority
      /\ ran[p].remaining = pcbs[p].remaining - 1
      /\ ran[p].slice = pcbs[p].slice - 1
  BY TickedFields
<1>2. Queued(queues) \subseteq Pid
  BY ProcessesArePids DEF Queued, ReadyQueues
<1>3. p # NULL /\ NULL \notin Queued(queues)
  BY <1>2, PidNotNull
<1>4. ASSUME NEW table, \A q \in Pid \ {p} : table[q] = pcbs[q] PROVE Sorted(queues, table)
  BY <1>2, <1>4 DEF Sorted, Queued
<1>5. \/ /\ ran[p].remaining = 0
         /\ alloc' = freeHostResources(alloc, ran[p].io)
         /\ pcb' = [ran EXCEPT ![p].state = "TERMINATED"]
         /\ freed' = freed \cup {p}
         /\ current' = NULL
         /\ ready' = queues
      \/ /\ ran[p].remaining # 0
         /\ SliceUsedUp(ran[p])
         /\ ran[p].priority \in {1, 2}
         /\ requeued(ran[p].priority + 1, 0)
      \/ /\ ran[p].remaining # 0
         /\ SliceUsedUp(ran[p])
         /\ ran[p].priority = 3
         /\ requeued(1, TimeQuantum[3])
      \/ /\ ran[p].remaining # 0
         /\ ~ SliceUsedUp(ran[p]) \/ ran[p].priority = 0
         /\ pcb' = ran
         /\ current' = p
         /\ ready' = queues
         /\ UNCHANGED << alloc, freed >>
  BY DEF RunProcess
<1> HIDE DEF ran
<1>6. CASE /\ alloc' = freeHostResources(alloc, ran[p].io)
           /\ pcb' = [ran EXCEPT ![p].state = "TERMINATED"]
           /\ freed' = freed \cup {p}
           /\ current' = NULL
           /\ ready' = queues
  <2>1. /\ pcb' \in [Pid -> PCB]
        /\ \A q \in Pid \ {p} : pcb'[q] = pcbs[q]
        /\ pcb'[p].io = pcbs[p].io
        /\ pcb'[p].priority = pcbs[p].priority
        /\ pcb'[p].remaining = pcbs[p].remaining - 1
    BY <1>1, <1>6 DEF PCB, State
  <2> QED
    BY <1>1, <1>3, <1>4, <1>6, <2>1
<1>7. ASSUME NEW priority \in 1 .. 3, NEW slice \in Int, requeued(priority, slice),
             ran[p].priority # 0, SliceUsedUp(ran[p])
      PROVE  /\ pcb' \in [Pid -> PCB]
             /\ ready' \in ReadyQueues
             /\ Sorted(ready', pcb')
             /\ current' = NULL
             /\ current' \notin Queued(ready')
             /\ Queued(ready') \subseteq Queued(queues) \cup {p}
             /\ freed' = freed /\ alloc' = alloc
             /\ \A q \in Pid \ {p} : pcb'[q] = pcbs[q]
             /\ pcb'[p].io = pcbs[p].io
             /\ pcb'[p].priority # 0
             /\ pcb'[p].remaining = pcbs[p].remaining - 1
  <2>a. /\ pcb' = [ran EXCEPT ![p] = Demoted(ran[p], priority, slice)]
        /\ ready' = enqueueToPriority(queues, p, priority)
        /\ current' = NULL
        /\ freed' = freed /\ alloc' = alloc
    BY <1>7
  <2> HIDE DEF requeued
  <2>1. /\ pcb' \in [Pid -> PCB]
        /\ \A q \in Pid \ {p} : pcb'[q] = pcbs[q]
        /\ pcb'[p].io = pcbs[p].io
        /\ pcb'[p].priority = priority
        /\ pcb'[p].remaining = pcbs[p].remaining - 1
    <3>1. priority \in 0 .. 3 /\ ran[p] \in PCB
      BY <1>1
    <3>2. /\ Demoted(ran[p], priority, slice) \in PCB
          /\ Demoted(ran[p], priority, slice).io = ran[p].io
          /\ Demoted(ran[p], priority, slice).priority = priority
          /\ Demoted(ran[p], priority, slice).remaining = ran[p].remaining
      <4> HIDE DEF ran
      <4> DEFINE before == ran[p]
      <4>1. before \in PCB
        BY <3>1
      <4> HIDE DEF before
      <4>2. /\ Demoted(before, priority, slice) \in PCB
            /\ Demoted(before, priority, slice).io = before.io
            /\ Demoted(before, priority, slice).priority = priority
            /\ Demoted(before, priority, slice).remaining = before.remaining
        BY <3>1, <4>1 DEF Demoted, PCB
      <4> QED
        BY <4>2 DEF before
    <3> QED
      BY <1>1, <2>a, <3>2
  <2>2. priority \in Level /\ \A j \in Level : WellFormed(queues[j])
    BY DEF Level, Sorted
  <2>3. /\ ready' \in ReadyQueues
        /\ \A j \in Level : j # priority => ready'[j] = queues[j]
        /\ WellFormed(ready'[priority])
        /\ Processes(ready'[priority]) \subseteq Processes(queues[priority]) \cup {p}
        /\ Queued(ready') \subseteq Queued(queues) \cup {p}
    BY <2>2, <2>a, EnqueueToPriority
  <2>4. Sorted(queues, pcb')
    BY <1>4, <2>1
  <2>5. Sorted(ready', pcb')
    BY <2>1, <2>3, <2>4 DEF Sorted
  <2> QED
    BY <1>3, <2>1, <2>2, <2>3, <2>5, <2>a
<1>8. CASE /\ ran[p].remaining # 0
           /\ ~ SliceUsedUp(ran[p]) \/ ran[p].priority = 0
           /\ pcb' = ran
           /\ current' = p
           /\ ready' = queues
           /\ UNCHANGED << alloc, freed >>
  <2>1. Sorted(ready', pcb')
    BY <1>1, <1>4, <1>8
  <2> QED
    BY <1>1, <1>8, <2>1 DEF SliceUsedUp
<1>9. ran[p].priority + 1 \in 2 .. 3 \/ ran[p].priority \notin {1, 2}
  OBVIOUS
<1>10. TimeQuantum[3] \in Int
  BY DEF TimeQuantum
<1>11. CASE \E priority \in 1 .. 3, slice \in Int :
             ran[p].priority # 0 /\ SliceUsedUp(ran[p]) /\ requeued(priority, slice)
  <2> HIDE DEF requeued
  <2> QED
    BY <1>1, <1>3, <1>7, <1>11
<1> HIDE DEF requeued
<1> QED
  BY <1>5, <1>6, <1>8, <1>9, <1>10, <1>11
\* The queues and PCBs with which p, the head of queue k, is run.
HeadTaken(p, slice, pcbs, queues, table, rest) ==
  /\ Sorted(rest, table)
  /\ Queued(rest) = Queued(queues) \ {p}
  /\ RunProcess(p, table, rest)
  /\ \A q \in Pid \ {p} : table[q] = pcbs[q]
  /\ table[p].io = pcbs[p].io
  /\ table[p].priority = pcbs[p].priority
  /\ table[p].remaining = pcbs[p].remaining
  /\ table[p].slice = slice

\* The same for the process at the head of a queue.
LEMMA DispatchEffect ==
  ASSUME TypeOK,
         NEW pcbs \in [Pid -> PCB], NEW queues \in ReadyQueues, Sorted(queues, pcbs),
         NEW k \in Level, HasProcess(queues[k]), NEW slice \in Int,
         Dispatch(k, slice, pcbs, queues), NEW p, p = queues[k][1].process
  PROVE  /\ p \in Pid
         /\ p \in Queued(queues)
         /\ pcbs[p].priority = k
         /\ \E table \in [Pid -> PCB], rest \in ReadyQueues :
              HeadTaken(p, slice, pcbs, queues, table, rest)
<1> DEFINE rest == [queues EXCEPT ![k] = dequeueProcess(@)]
           table == [pcbs EXCEPT ![p].slice = slice]
<1>1. /\ rest \in ReadyQueues
      /\ Sorted(rest, pcbs)
      /\ p \in Pid
      /\ p \in Queued(queues)
      /\ pcbs[p].priority = k
      /\ Queued(rest) = Queued(queues) \ {p}
  <2> DEFINE q == queues[k][1].process
  <2>1. /\ rest \in ReadyQueues
        /\ Sorted(rest, pcbs)
        /\ q \in Pid
        /\ q \in Queued(queues)
        /\ pcbs[q].priority = k
        /\ Queued(rest) = Queued(queues) \ {q}
    BY DequeueReady
  <2>2. p = q
    OBVIOUS
  <2> HIDE DEF q, rest
  <2> QED
    BY <2>1, <2>2
<1>2. RunProcess(p, table, rest)
  BY DEF Dispatch
<1> HIDE DEF rest
<1>3. /\ table \in [Pid -> PCB]
      /\ \A q \in Pid \ {p} : table[q] = pcbs[q]
      /\ table[p].io = pcbs[p].io
      /\ table[p].priority = pcbs[p].priority
      /\ table[p].remaining = pcbs[p].remaining
      /\ table[p].slice = slice
  BY <1>1 DEF PCB
<1> HIDE DEF table
<1>4. Queued(rest) \subseteq Pid
  BY <1>1, ProcessesArePids DEF Queued, ReadyQueues
<1>5. \A q \in Pid : table[q].priority = pcbs[q].priority
  BY <1>3
<1>6. Sorted(rest, table)
  BY <1>1, <1>4, <1>5 DEF Sorted, Queued
<1> QED
  BY <1>1, <1>2, <1>3, <1>6 DEF HeadTaken

-----------------------------------------------------------------------------
(***************************************************************************)
(* The invariant                                                           *)
(***************************************************************************)

\* A queue that can be enqueued to without losing a process.
OpenQueue(queue) == queue # NullQueue /\ WellFormed(queue) /\ Marked(queue)

\* The dispatcher queue and its successor are only enqueued to, and the loop of
\* updateDispatcher turns once per process.
WaitLists ==
  /\ pc \in {"read", "update", "process"} => OpenQueue(dispatcher)
  /\ pc = "scan" =>
       /\ OpenQueue(newDispatcher)
       /\ WellFormed(queuePtr)
       /\ count = 0 => Processes(queuePtr) = {}
       /\ count > 0 => count = Len(queuePtr) /\ HasProcess(queuePtr)
       /\ Processes(queuePtr) \cap Processes(newDispatcher) = {}
  /\ pc = "done" => dispatcher = NullQueue

RealTimeReady == pc \in {"scan", "process"} /\ rtUpdated => HasProcess(ready[0])

TimeLeft == pc \in {"scan", "process"} => time < MaxTime

\* Whatever is somewhere was read.
AllRead == Waiting \cup Live \cup freed \subseteq 1 .. pid - 1

Inv == TypeOK /\ WaitLists /\ PlacedOnce /\ RealTimeReady /\ TimeLeft /\ AllRead

\* PlacedOnce in the terms of the lemmas above.
LEMMA Placement ==
  PlacedOnce <=> /\ Sorted(ready, pcb)
                 /\ current \notin Queued(ready)
                 /\ Waiting \cap (Live \cup freed) = {}
                 /\ Live \cap freed = {}
BY DEF PlacedOnce, Sorted, Queued, Ready

\* What can still run has a pid.
LEMMA LivePids == TypeOK => Live \subseteq Pid /\ Queued(ready) \subseteq Live
BY ProcessesArePids DEF TypeOK, Live, Ready, Queued

\* newPCB (pcb.c:6-38) makes a PCB.
LEMMA NewPCBTyped == newPCB \in PCB
BY DEF newPCB, newPCBIO, PCB, IO, State

\* The invariant holds when initSystem has returned.
LEMMA InitInv == Init => Inv
<1> SUFFICES ASSUME Init PROVE Inv
  OBVIOUS
<1>1. newPCB \in PCB
  BY NewPCBTyped
<1>2. /\ initializeQueue \in Seq(Node(Pid))
      /\ OpenQueue(initializeQueue)
      /\ Processes(initializeQueue) = {}
  BY InitializeQueue DEF OpenQueue
<1>3. NullQueue \in Seq(Node(Pid))
  BY EmptySeq DEF NullQueue
<1>4. IsTable(NoneAllocated, Pid)
  BY DEF IsTable, NoneAllocated
<1>5. TypeOK
  <2>1. pcb \in [Pid -> PCB] /\ ready \in [Level -> Seq(Node(Pid))]
    BY <1>1, <1>2 DEF Init
  <2>2. /\ dispatcher \in Seq(Node(Pid))
        /\ queuePtr \in Seq(Node(Pid))
        /\ newDispatcher \in Seq(Node(Pid))
    BY <1>2, <1>3 DEF Init
  <2>3. pid \in 1 .. MaxProcesses + 1 /\ time \in 0 .. MaxTime /\ count \in Nat
    BY MaxProcessesAssumption, MaxTimeAssumption DEF Init
  <2>4. /\ pc \in {"read", "update", "scan", "process", "done"}
        /\ IsTable(alloc, Pid)
        /\ current \in Pid \cup {NULL}
        /\ rtUpdated \in BOOLEAN
        /\ freed \subseteq Pid
    BY <1>4 DEF Init
  <2> QED
    BY <2>1, <2>2, <2>3, <2>4 DEF TypeOK
<1>6. WaitLists /\ RealTimeReady /\ TimeLeft
  BY <1>2 DEF Init, WaitLists, RealTimeReady, TimeLeft
<1>7. Ready = {} /\ Waiting = {} /\ Live = {}
  BY <1>2 DEF Init, Ready, Waiting, Live
<1>8. PlacedOnce /\ AllRead
  BY <1>2, <1>7 DEF Init, PlacedOnce, AllRead, OpenQueue
<1> QED
  BY <1>5, <1>6, <1>8 DEF Inv

-----------------------------------------------------------------------------
(***************************************************************************)
(* readFile and updateDispatcher                                           *)
(***************************************************************************)

\* The invariant over one turn of readFile.
LEMMA ReadLineInv == Inv /\ ReadLine => Inv'
<1> SUFFICES ASSUME Inv, ReadLine PROVE Inv'
  OBVIOUS
<1> USE DEF Inv
<1>1. /\ pc = "read" /\ pc' = "read"
      /\ pid \in Pid /\ pid' = pid + 1 /\ pid' \in 1 .. MaxProcesses + 1
      /\ Waiting = Processes(dispatcher) /\ Waiting' = Processes(dispatcher')
      /\ Live' = Live /\ freed' = freed /\ ready' = ready /\ current' = current
  BY MaxProcessesAssumption DEF ReadLine, TypeOK, Pid, Waiting, Live, Ready
<1>2. pid \notin Waiting /\ pid \notin Live /\ pid \notin freed
  BY <1>1 DEF AllRead, TypeOK
<1>3. pcb' \in [Pid -> PCB] /\ \A q \in Pid \ {pid} : pcb'[q] = pcb[q]
  <2>1. PICK job \in Job : pcb' = [pcb EXCEPT ![pid] = FromLine(job)]
    BY DEF ReadLine
  <2>2. /\ job.priority \in 0 .. 3
        /\ job.arrival \in Nat
        /\ job.cpu \in Int
        /\ job.need \in [Resource -> Nat]
    BY JobAssumption DEF JobLine
  <2>3. FromLine(job) \in PCB
    <3> DEFINE io == [newPCBIO EXCEPT !.need = job.need]
               x1 == [newPCB EXCEPT !.priority = job.priority]
               x2 == [x1 EXCEPT !.arrival = job.arrival]
               x3 == [x2 EXCEPT !.remaining = job.cpu]
               x4 == [x3 EXCEPT !.io = io]
    <3>1. io \in IO
      BY <2>2 DEF newPCBIO, IO
    <3>2. FromLine(job) = x4
      BY DEF FromLine
    <3> HIDE DEF io, x1, x2, x3, x4
    <3>3. newPCB \in PCB
      BY NewPCBTyped
    <3>4. x1 \in PCB
      BY <2>2, <3>3 DEF PCB, x1
    <3>5. x2 \in PCB
      BY <2>2, <3>4 DEF PCB, x2
    <3>6. x3 \in PCB
      BY <2>2, <3>5 DEF PCB, x3
    <3>7. x4 \in PCB
      BY <3>1, <3>6 DEF PCB, x4
    <3> QED
      BY <3>2, <3>7
  <2> QED
    BY <1>1, <2>1, <2>3 DEF TypeOK
<1>4. /\ dispatcher' \in Seq(Node(Pid))
      /\ OpenQueue(dispatcher')
      /\ Processes(dispatcher') = Processes(dispatcher) \cup {pid}
  BY <1>1, <1>2, PidNotNull, EnqueueProcess DEF ReadLine, TypeOK, WaitLists, OpenQueue
<1>5. TypeOK'
  BY <1>1, <1>3, <1>4 DEF ReadLine, TypeOK, scan
<1>6. WaitLists' /\ RealTimeReady' /\ TimeLeft'
  BY <1>1, <1>4 DEF WaitLists, RealTimeReady, TimeLeft
<1>7. PlacedOnce'
  <2>1. \A q \in Queued(ready) : pcb'[q] = pcb[q]
    BY <1>2, <1>3, LivePids
  <2>2. Sorted(ready', pcb')
    BY <1>1, <2>1, Placement DEF Sorted, Queued
  <2> QED
    BY <1>1, <1>2, <1>4, <2>2, Placement DEF PlacedOnce, Sorted, Queued, Ready
<1>8. AllRead'
  BY <1>1, <1>4, MaxProcessesAssumption DEF AllRead, TypeOK, Pid
<1> QED
  BY <1>5, <1>6, <1>7, <1>8

\* The invariant over the end of readFile.
LEMMA EndOfFileInv == Inv /\ EndOfFile => Inv'
BY DEF EndOfFile, scan, Inv, TypeOK, WaitLists, RealTimeReady, TimeLeft, PlacedOnce, AllRead, Waiting,
       Live, Ready

\* The invariant over the start of updateDispatcher.
LEMMA BeginUpdateInv == Inv /\ BeginUpdate => Inv'
<1> SUFFICES ASSUME Inv, BeginUpdate PROVE Inv'
  OBVIOUS
<1> USE DEF Inv
<1>1. /\ OpenQueue(initializeQueue)
      /\ initializeQueue \in Seq(Node(Pid))
      /\ Processes(initializeQueue) = {}
  BY InitializeQueue DEF OpenQueue
<1>2. /\ pc = "update" /\ pc' = "scan"
      /\ queuePtr' = dispatcher /\ newDispatcher' = initializeQueue /\ rtUpdated' = FALSE
      /\ count' = IF dispatcher[1].process = NULL THEN 0 ELSE Len(dispatcher)
      /\ UNCHANGED << pid, pcb, alloc, dispatcher, ready, current, time, freed >>
  BY DEF BeginUpdate, numElems
<1>3. /\ dispatcher \in Seq(Node(Pid)) /\ OpenQueue(dispatcher)
      /\ Len(dispatcher) \in Nat \ {0} /\ DOMAIN dispatcher = 1 .. Len(dispatcher)
  BY <1>2, EmptySeq, LenProperties DEF TypeOK, WaitLists, OpenQueue, NullQueue
<1>4. TypeOK'
  BY <1>1, <1>2, <1>3 DEF TypeOK
<1>5. dispatcher[1].process = NULL => Processes(dispatcher) = {}
  <2>1. dispatcher[1].process = NULL => Len(dispatcher) = 1
    BY <1>3 DEF OpenQueue, WellFormed
  <2>2. ASSUME dispatcher[1].process = NULL PROVE \A i \in DOMAIN dispatcher : i = 1
    <3>1. DOMAIN dispatcher = 1 .. 1
      BY <1>3, <2>1, <2>2
    <3>2. \A i \in 1 .. 1 : i = 1
      OBVIOUS
    <3> QED
      BY <3>1, <3>2
  <2> QED
    BY <2>2 DEF Processes
<1>6. WaitLists' /\ TimeLeft'
  BY <1>1, <1>2, <1>3, <1>5 DEF WaitLists, HasProcess, OpenQueue, TimeLeft, BeginUpdate, MoreTime,
                                TypeOK
<1>7. Waiting' = Waiting /\ Live' = Live
  BY <1>1, <1>2 DEF Waiting, Live, Ready
<1> QED
  BY <1>2, <1>4, <1>6, <1>7 DEF PlacedOnce, AllRead, RealTimeReady, Ready

\* A turn of the loop takes one process from the queue: it is neither in the new
\* dispatcher queue nor anywhere else.
LEMMA TurnEffect ==
  ASSUME Inv, NextTurn
  PROVE  /\ pc = "scan"
         /\ Scanned \in Pid
         /\ Scanned \in Processes(queuePtr)
         /\ Scanned \notin Processes(newDispatcher)
         /\ Scanned \notin Live /\ Scanned \notin freed
         /\ Scanned \in 1 .. pid - 1
         /\ queuePtr' \in Seq(Node(Pid))
         /\ WellFormed(queuePtr')
         /\ Processes(queuePtr') = Processes(queuePtr) \ {Scanned}
         /\ count' \in Nat
         /\ count' = 0 => Processes(queuePtr') = {}
         /\ count' > 0 => count' = Len(queuePtr') /\ HasProcess(queuePtr')
<1> USE DEF Inv
<1>1. /\ pc = "scan" /\ count > 0 /\ count = Len(queuePtr)
      /\ queuePtr' = dequeueProcess(queuePtr) /\ count' = count - 1
      /\ queuePtr \in Seq(Node(Pid)) /\ WellFormed(queuePtr) /\ HasProcess(queuePtr)
      /\ count \in Nat
  BY DEF NextTurn, TypeOK, WaitLists
<1>2. /\ queuePtr' \in Seq(Node(Pid))
      /\ WellFormed(queuePtr')
      /\ Scanned \in Pid
      /\ Scanned \in Processes(queuePtr)
      /\ Processes(queuePtr') = Processes(queuePtr) \ {Scanned}
      /\ Len(queuePtr') = Len(queuePtr) - 1
      /\ \A n \in 1 .. Len(queuePtr) - 1 : queuePtr'[n] = queuePtr[n + 1]
  BY <1>1, PidNotNull, DequeueProcess DEF Scanned
<1>3. Scanned \in Waiting
  BY <1>1, <1>2 DEF Waiting
<1>4. Scanned \notin Live /\ Scanned \notin freed /\ Scanned \in 1 .. pid - 1
  BY <1>3 DEF PlacedOnce, AllRead
<1>5. Scanned \notin Processes(newDispatcher)
  BY <1>1, <1>2 DEF WaitLists
<1>6. ASSUME count' = 0 PROVE Processes(queuePtr') = {}
  <2>1. Len(queuePtr') = 0 /\ DOMAIN queuePtr' = 1 .. Len(queuePtr')
    BY <1>1, <1>2, <1>6, LenProperties
  <2> QED
    BY <2>1 DEF Processes
<1>7. ASSUME count' > 0 PROVE count' = Len(queuePtr') /\ HasProcess(queuePtr')
  <2>1. count' = Len(queuePtr') /\ 1 \in 1 .. Len(queuePtr) - 1 /\ 2 \in 1 .. Len(queuePtr)
    BY <1>1, <1>2, <1>7
  <2>2. queuePtr'[1] = queuePtr[2] /\ queuePtr' # NullQueue
    BY <1>2, <2>1, EmptySeq DEF NullQueue
  <2>3. queuePtr[2].process # NULL
    <3>1. DOMAIN queuePtr = 1 .. Len(queuePtr)
      BY <1>1, LenProperties
    <3> QED
      BY <1>1, <2>1, <3>1 DEF WellFormed
  <2> QED
    BY <2>1, <2>2, <2>3 DEF HasProcess
<1> QED
  BY <1>1, <1>2, <1>4, <1>5, <1>6, <1>7

\* A turn that puts the process on the new dispatcher queue.
LEMMA RequeueInv ==
  ASSUME Inv, NextTurn, newDispatcher' = enqueueProcess(newDispatcher, Scanned),
         pcb' \in [Pid -> PCB], \A q \in Pid : pcb'[q].priority = pcb[q].priority,
         IsTable(alloc', Pid),
         UNCHANGED << pc, pid, dispatcher, ready, current, rtUpdated, time, freed >>
  PROVE  Inv'
<1> USE DEF Inv
<1>1. /\ newDispatcher \in Seq(Node(Pid))
      /\ OpenQueue(newDispatcher)
      /\ Processes(queuePtr) \cap Processes(newDispatcher) = {}
  BY TurnEffect DEF TypeOK, WaitLists
<1>2. /\ newDispatcher' \in Seq(Node(Pid))
      /\ OpenQueue(newDispatcher')
      /\ Processes(newDispatcher') = Processes(newDispatcher) \cup {Scanned}
  BY <1>1, TurnEffect, PidNotNull, EnqueueProcess DEF OpenQueue
<1>3. TypeOK'
  BY <1>2, TurnEffect DEF TypeOK
<1>4. WaitLists' /\ RealTimeReady' /\ TimeLeft'
  BY <1>1, <1>2, TurnEffect DEF WaitLists, RealTimeReady, TimeLeft
<1>5. Waiting' = Waiting /\ Live' = Live
  BY <1>1, <1>2, TurnEffect DEF Waiting, Live, Ready
<1>6. Sorted(ready', pcb')
  BY Placement, LivePids DEF Sorted, Queued
<1>7. PlacedOnce'
  BY <1>5, <1>6, Placement DEF PlacedOnce, Sorted, Ready, Queued
<1> QED
  BY <1>3, <1>4, <1>5, <1>7 DEF AllRead

\* The invariant over a turn on a process that has not arrived.
LEMMA PutBackInv == Inv /\ PutBack => Inv'
BY RequeueInv DEF PutBack, Inv, TypeOK

\* What an attempt to allocate leaves to TypeOK.
LEMMA AttemptTypes ==
  ASSUME TypeOK, NEW p \in Pid
  PROVE  LET io == Noted(pcb[p].io, CursorOf(p))
         IN  /\ IsTable(Taken(alloc, pcb[p].io, CursorOf(p), p), Pid)
             /\ [pcb EXCEPT ![p].io = io] \in [Pid -> PCB]
             /\ \A q \in Pid : [pcb EXCEPT ![p].io = io][q].priority = pcb[q].priority
<1>1. /\ IsTable(alloc, Pid)
      /\ pcb \in [Pid -> PCB]
      /\ pcb[p] \in PCB
      /\ pcb[p].io \in IO
      /\ pcb[p].priority \in Nat
  BY DEF TypeOK, PCB
<1> DEFINE io == Noted(pcb[p].io, CursorOf(p))
<1>2. IsTable(Taken(alloc, pcb[p].io, CursorOf(p), p), Pid) /\ io \in IO
  BY <1>1, AttemptEffect DEF CursorOf
<1> HIDE DEF io
<1>3. /\ [pcb EXCEPT ![p].io = io] \in [Pid -> PCB]
      /\ \A q \in Pid : [pcb EXCEPT ![p].io = io][q].priority = pcb[q].priority
  BY <1>1, <1>2 DEF PCB
<1> QED
  BY <1>2, <1>3 DEF io

\* The invariant over a turn on a process that misses a resource.
LEMMA RefuseInv == Inv /\ Refuse => Inv'
<1> SUFFICES ASSUME Inv, Refuse PROVE Inv'
  OBVIOUS
<1> DEFINE p == Scanned
           io == Noted(pcb[p].io, CursorOf(p))
<1>1. /\ NextTurn
      /\ newDispatcher' = enqueueProcess(newDispatcher, Scanned)
      /\ alloc' = freeHostResources(Taken(alloc, pcb[p].io, CursorOf(p), p), io)
      /\ pcb' = [pcb EXCEPT ![p].io = io]
      /\ UNCHANGED << pc, pid, dispatcher, ready, current, rtUpdated, time, freed >>
  BY DEF Refuse
<1>2. p \in Pid
  BY <1>1, TurnEffect
<1> HIDE DEF p
<1>3. /\ IsTable(Taken(alloc, pcb[p].io, CursorOf(p), p), Pid)
      /\ [pcb EXCEPT ![p].io = io] \in [Pid -> PCB]
      /\ \A q \in Pid : [pcb EXCEPT ![p].io = io][q].priority = pcb[q].priority
  BY <1>2, AttemptTypes DEF Inv
<1> HIDE DEF io
<1>4. /\ IsTable(alloc', Pid)
      /\ pcb' \in [Pid -> PCB]
      /\ \A q \in Pid : pcb'[q].priority = pcb[q].priority
  BY <1>1, <1>3, ReleaseEffect
<1> QED
  BY <1>1, <1>4, RequeueInv

\* The invariant over a turn on a process that is admitted.
LEMMA AdmitInv == Inv /\ Admit => Inv'
<1> SUFFICES ASSUME Inv, Admit PROVE Inv'
  OBVIOUS
<1> USE DEF Inv
<1> DEFINE p == Scanned
           k == pcb[p].priority
<1>1. /\ NextTurn
      /\ alloc' = Taken(alloc, pcb[p].io, CursorOf(p), p)
      /\ pcb' = [pcb EXCEPT ![p].io = Noted(@, CursorOf(p))]
      /\ rtUpdated' = (rtUpdated \/ k = 0)
      /\ ready' = enqueueToPriority(ready, p, k)
      /\ UNCHANGED << pc, pid, dispatcher, newDispatcher, current, time, freed >>
  BY DEF Admit
<1>2. /\ pc = "scan"
      /\ p \in Pid
      /\ p \in Processes(queuePtr)
      /\ p \notin Processes(newDispatcher)
      /\ p \notin Live /\ p \notin freed
      /\ p \in 1 .. pid - 1
  BY <1>1, TurnEffect
<1> HIDE DEF p
<1>3. k \in Level
  BY <1>2 DEF TypeOK, PCB, Level
<1>4. /\ IsTable(alloc', Pid)
      /\ pcb' \in [Pid -> PCB]
      /\ \A q \in Pid : pcb'[q].priority = pcb[q].priority
  BY <1>1, <1>2, AttemptTypes
<1> HIDE DEF k
<1>5. /\ ready \in ReadyQueues
      /\ \A j \in Level : WellFormed(ready[j])
      /\ p \notin Queued(ready)
      /\ Sorted(ready, pcb)
  BY <1>2, LivePids, Placement DEF TypeOK, ReadyQueues, Sorted
<1>6. /\ ready' \in ReadyQueues
      /\ \A j \in Level : j # k => ready'[j] = ready[j]
      /\ WellFormed(ready'[k])
      /\ Processes(ready'[k]) \subseteq Processes(ready[k]) \cup {p}
      /\ HasProcess(ready'[k])
      /\ Queued(ready') \subseteq Queued(ready) \cup {p}
  BY <1>1, <1>2, <1>3, <1>5, EnqueueToPriority
<1>7. TypeOK'
  BY <1>1, <1>2, <1>4, <1>6, TurnEffect DEF TypeOK, ReadyQueues
<1>8. WaitLists'
  BY <1>1, <1>2, TurnEffect DEF WaitLists
<1>9. RealTimeReady' /\ TimeLeft'
  <2>1. rtUpdated' => rtUpdated \/ k = 0
    BY <1>1
  <2>2. ready'[0] = ready[0] \/ HasProcess(ready'[0])
    BY <1>3, <1>6 DEF Level
  <2>3. k = 0 => HasProcess(ready'[0])
    BY <1>6
  <2>4. RealTimeReady'
    BY <1>1, <1>2, <2>1, <2>2, <2>3 DEF RealTimeReady
  <2>5. TimeLeft'
    BY <1>1 DEF TimeLeft
  <2> QED
    BY <2>4, <2>5
<1>10. /\ Waiting = Processes(queuePtr) \cup Processes(newDispatcher)
       /\ Waiting' = (Processes(queuePtr) \ {p}) \cup Processes(newDispatcher)
  BY <1>1, <1>2, TurnEffect DEF Waiting, p
<1>11. /\ Live = Queued(ready) \cup ({current} \ {NULL})
       /\ Live' = Queued(ready') \cup ({current} \ {NULL})
       /\ Live' \subseteq Live \cup {p}
  BY <1>1, <1>6 DEF Live, Ready, Queued
<1>12. Sorted(ready', pcb')
  <2>1. \A j \in Level : \A q \in Processes(ready'[j]) : q \in Pid
    BY <1>6, ProcessesArePids DEF ReadyQueues
  <2>2. ASSUME NEW j \in Level PROVE WellFormed(ready'[j])
    BY <1>5, <1>6
  <2>3. ASSUME NEW j \in Level, NEW q \in Processes(ready'[j]) PROVE pcb'[q].priority = j
    <3>1. pcb'[q].priority = pcb[q].priority
      BY <1>4, <2>1
    <3>2. CASE j = k /\ q = p
      BY <3>1, <3>2 DEF k
    <3>3. CASE q \in Processes(ready[j])
      BY <1>5, <3>1, <3>3 DEF Sorted
    <3> QED
      BY <1>6, <3>2, <3>3
  <2> QED
    BY <2>2, <2>3 DEF Sorted
<1>13. current' \notin Queued(ready')
  <2>1. current # NULL => current \in Live
    BY DEF Live
  <2>2. NULL \notin Queued(ready')
    BY DEF Queued, Processes
  <2> QED
    BY <1>1, <1>2, <1>6, <2>1, <2>2, Placement
<1>14. PlacedOnce'
  <2>1. Waiting' \cap (Live' \cup freed') = {}
    BY <1>1, <1>2, <1>10, <1>11 DEF PlacedOnce
  <2>2. Live' \cap freed' = {}
    BY <1>1, <1>2, <1>11 DEF PlacedOnce
  <2> QED
    BY <1>12, <1>13, <2>1, <2>2 DEF PlacedOnce, Sorted, Ready, Queued
<1>15. AllRead'
  BY <1>1, <1>2, <1>10, <1>11 DEF AllRead
<1> QED
  BY <1>7, <1>8, <1>9, <1>14, <1>15

\* The invariant over the end of updateDispatcher.
LEMMA EndUpdateInv == Inv /\ EndUpdate => Inv'
<1> SUFFICES ASSUME Inv, EndUpdate PROVE Inv'
  OBVIOUS
<1> USE DEF Inv
<1>1. /\ pc = "scan" /\ pc' = "process" /\ count = 0 /\ dispatcher' = newDispatcher
      /\ UNCHANGED << pid, pcb, alloc, queuePtr, count, newDispatcher, ready, current,
                      rtUpdated, time, freed >>
  BY DEF EndUpdate, scan
<1>2. Waiting' = Waiting /\ Live' = Live
  BY <1>1 DEF Waiting, WaitLists, Live, Ready
<1>3. TypeOK' /\ WaitLists' /\ RealTimeReady' /\ TimeLeft'
  BY <1>1 DEF TypeOK, WaitLists, RealTimeReady, TimeLeft
<1>4. PlacedOnce' /\ AllRead'
  BY <1>1, <1>2 DEF PlacedOnce, AllRead, Ready
<1> QED
  BY <1>3, <1>4

-----------------------------------------------------------------------------
(***************************************************************************)
(* doProcessing                                                            *)
(***************************************************************************)

Processing == Preempt \/ Continue \/ DispatchRealTime \/ DispatchUser

\* How doProcessing reaches its second half for process p: table and rest are
\* the PCBs and the ready queues after its first half.
Chosen(p, table, rest) ==
  /\ pc = "process"
  /\ NextTick
  /\ UNCHANGED << pid, dispatcher, scan, rtUpdated >>
  /\ RunProcess(p, table, rest)
  /\ Sorted(rest, table)
  /\ p \notin Queued(rest)
  /\ p \in Live
  /\ Queued(rest) \subseteq Live
  /\ \A q \in Pid : /\ table[q].io = pcb[q].io
                    /\ table[q].priority = pcb[q].priority
                    /\ table[q].remaining = pcb[q].remaining
  /\ rtUpdated => pcb[p].priority = 0
  /\ current # NULL /\ pcb[current].priority = 0 => p = current
  /\ p = current => table[p].slice = pcb[p].slice
  /\ p # current => table[p].slice = IF pcb[p].priority = 0 THEN pcb[p].remaining
                                     ELSE TimeQuantum[pcb[p].priority]

\* The first half, when it takes the head of queue k.
LEMMA DispatchChosen ==
  ASSUME Inv, pc = "process", NextTick, UNCHANGED << pid, dispatcher, scan, rtUpdated >>,
         NEW pcbs \in [Pid -> PCB], NEW queues \in ReadyQueues, Sorted(queues, pcbs),
         Queued(queues) \subseteq Live,
         \A q \in Pid : /\ pcbs[q].io = pcb[q].io
                        /\ pcbs[q].priority = pcb[q].priority
                        /\ pcbs[q].remaining = pcb[q].remaining,
         NEW k \in Level, HasProcess(queues[k]), queues[k][1].process # current,
         NEW slice, slice = IF k = 0 THEN pcb[queues[k][1].process].remaining ELSE TimeQuantum[k],
         Dispatch(k, slice, pcbs, queues),
         rtUpdated => k = 0,
         current = NULL \/ pcb[current].priority # 0
  PROVE  \E p \in Pid, table \in [Pid -> PCB], rest \in ReadyQueues : Chosen(p, table, rest)
<1> DEFINE p == queues[k][1].process
<1>1. p \in Pid /\ p \in Queued(queues)
  BY DequeueReady
<1>2. slice \in Int
  <2>1. pcb[p].remaining \in Int
    BY <1>1 DEF Inv, TypeOK, PCB
  <2>2. k # 0 => TimeQuantum[k] \in Int
    BY DEF TimeQuantum, Level
  <2> QED
    BY <2>1, <2>2
<1> HIDE DEF p
<1>3. /\ pcbs[p].priority = k
      /\ \E table \in [Pid -> PCB], rest \in ReadyQueues :
           HeadTaken(p, slice, pcbs, queues, table, rest)
  <2>1. p = queues[k][1].process /\ TypeOK
    BY DEF p, Inv
  <2> QED
    BY <1>2, <2>1, DispatchEffect
<1>4. p # current
  BY DEF p
<1>5. slice = IF k = 0 THEN pcb[p].remaining ELSE TimeQuantum[k]
  BY DEF p
<1>6. PICK table \in [Pid -> PCB], rest \in ReadyQueues :
        /\ Sorted(rest, table)
        /\ Queued(rest) = Queued(queues) \ {p}
        /\ RunProcess(p, table, rest)
        /\ \A q \in Pid \ {p} : table[q] = pcbs[q]
        /\ table[p].io = pcbs[p].io
        /\ table[p].priority = pcbs[p].priority
        /\ table[p].remaining = pcbs[p].remaining
        /\ table[p].slice = slice
  BY <1>3 DEF HeadTaken
<1>7. /\ pcb[p].priority = k
      /\ p \in Live
      /\ p \notin Queued(rest)
      /\ Queued(rest) \subseteq Live
  BY <1>1, <1>3, <1>6
<1>8. \A q \in Pid : /\ table[q].io = pcb[q].io
                     /\ table[q].priority = pcb[q].priority
                     /\ table[q].remaining = pcb[q].remaining
  BY <1>1, <1>6
<1>9. table[p].slice = IF pcb[p].priority = 0 THEN pcb[p].remaining ELSE TimeQuantum[pcb[p].priority]
  BY <1>5, <1>6, <1>7
<1>10. Chosen(p, table, rest)
  BY <1>4, <1>6, <1>7, <1>8, <1>9 DEF Chosen
<1> QED
  BY <1>1, <1>6, <1>10

\* Each of the four actions of doProcessing that run a process chooses one.
LEMMA ProcessingChosen ==
  ASSUME Inv, Processing
  PROVE  \E p \in Pid, table \in [Pid -> PCB], rest \in ReadyQueues : Chosen(p, table, rest)
<1> USE DEF Inv
<1>1. /\ pc = "process" /\ NextTick /\ UNCHANGED << pid, dispatcher, scan, rtUpdated >>
  BY DEF Processing, Preempt, Continue, DispatchRealTime, DispatchUser
<1>2. /\ ready \in ReadyQueues
      /\ Sorted(ready, pcb)
      /\ pcb \in [Pid -> PCB]
      /\ Queued(ready) \subseteq Live
      /\ Live \subseteq Pid
      /\ current \notin Queued(ready)
      /\ current # NULL => current \in Pid /\ current \in Live
  BY Placement, LivePids DEF TypeOK, ReadyQueues, Live
<1>3. rtUpdated => HasProcess(ready[0])
  BY <1>1 DEF RealTimeReady
<1>4. CASE Preempt
  <2> DEFINE k      == pcb[current].priority
             queues == enqueueToPriority(ready, current, k)
             pcbs   == [pcb EXCEPT ![current].state = "SUSPENDED"]
             head   == queues[0][1].process
  <2>1. /\ current \in Pid /\ current \in Live /\ k # 0 /\ rtUpdated
        /\ Dispatch(0, pcb[head].remaining, pcbs, queues)
    BY <1>2, <1>4 DEF Preempt, Yields
  <2>2. /\ pcbs \in [Pid -> PCB]
        /\ \A q \in Pid : /\ pcbs[q].io = pcb[q].io
                          /\ pcbs[q].priority = pcb[q].priority
                          /\ pcbs[q].remaining = pcb[q].remaining
    BY <1>2, <2>1 DEF PCB, State
  <2>3. k \in Level
    BY <1>2, <2>1 DEF PCB, Level
  <2>4. \A j \in Level : WellFormed(ready[j])
    BY <1>2 DEF Sorted
  <2>5. /\ queues \in ReadyQueues
        /\ \A j \in Level : j # k => queues[j] = ready[j]
        /\ WellFormed(queues[k])
        /\ Processes(queues[k]) \subseteq Processes(ready[k]) \cup {current}
        /\ Queued(queues) \subseteq Queued(ready) \cup {current}
    <3>1. current \in Pid /\ current \notin Queued(ready) /\ ready \in ReadyQueues
      BY <1>2, <2>1
    <3> HIDE DEF k
    <3> QED
      BY <2>3, <2>4, <3>1, EnqueueToPriority
  <2> HIDE DEF pcbs, queues
  <2>6. Sorted(queues, pcbs)
    <3>1. \A j \in Level : WellFormed(queues[j])
      BY <2>4, <2>5
    <3>2. ASSUME NEW j \in Level, NEW q \in Processes(queues[j]) PROVE pcbs[q].priority = j
      <4>1. q \in Pid
        BY <2>5, ProcessesArePids DEF ReadyQueues
      <4>2. q \in Processes(ready[j]) \/ (j = k /\ q = current)
        BY <2>5
      <4> QED
        BY <1>2, <2>2, <4>1, <4>2 DEF Sorted
    <3> QED
      BY <3>1, <3>2 DEF Sorted
  <2>7. queues[0] = ready[0] /\ HasProcess(queues[0]) /\ 0 \in Level
    BY <1>3, <2>1, <2>5 DEF Level
  <2>8. head # current
    <3>1. head \in Queued(ready)
      BY <1>2, <1>3, <2>7, DequeueReady
    <3> QED
      BY <1>2, <3>1
  <2>9. Queued(queues) \subseteq Live
    BY <1>2, <2>1, <2>5
  <2> DEFINE slice == pcb[head].remaining
  <2>10. slice = IF 0 = 0 THEN pcb[queues[0][1].process].remaining ELSE TimeQuantum[0]
    OBVIOUS
  <2>11. Dispatch(0, slice, pcbs, queues) /\ queues[0][1].process # current
    BY <2>1, <2>8
  <2> HIDE DEF slice, head
  <2> QED
    BY <1>1, <2>1, <2>2, <2>5, <2>6, <2>7, <2>9, <2>10, <2>11, DispatchChosen
<1>5. CASE Continue
  <2>1. /\ current \in Pid /\ current \in Live
        /\ rtUpdated => pcb[current].priority = 0
        /\ RunProcess(current, pcb, ready)
    BY <1>2, <1>5 DEF Continue, Yields
  <2>2. Chosen(current, pcb, ready)
    BY <1>1, <1>2, <2>1 DEF Chosen
  <2> QED
    BY <1>2, <2>1, <2>2
<1>6. CASE DispatchRealTime
  <2> DEFINE slice == pcb[ready[0][1].process].remaining
  <2>1. /\ current = NULL /\ rtUpdated /\ HasProcess(ready[0])
        /\ Dispatch(0, slice, pcb, ready)
    BY <1>6 DEF DispatchRealTime
  <2>2. slice = IF 0 = 0 THEN pcb[ready[0][1].process].remaining ELSE TimeQuantum[0]
    OBVIOUS
  <2>3. ready[0][1].process # current /\ 0 \in Level
    BY <2>1 DEF HasProcess, Level
  <2> HIDE DEF slice
  <2> QED
    BY <1>1, <1>2, <2>1, <2>2, <2>3, DispatchChosen
<1>7. CASE DispatchUser
  <2>1. PICK k \in 1 .. 3 : HasProcess(ready[k]) /\ Dispatch(k, TimeQuantum[k], pcb, ready)
    BY <1>7 DEF DispatchUser
  <2>2. current = NULL /\ ~ rtUpdated
    BY <1>7 DEF DispatchUser
  <2> DEFINE slice == TimeQuantum[k]
  <2>3. slice = IF k = 0 THEN pcb[ready[k][1].process].remaining ELSE TimeQuantum[k]
    BY DEF Level
  <2>4. ready[k][1].process # current /\ k \in Level
    BY <2>1, <2>2 DEF HasProcess, Level
  <2>5. Dispatch(k, slice, pcb, ready)
    BY <2>1
  <2> HIDE DEF slice
  <2> QED
    BY <1>1, <1>2, <2>1, <2>2, <2>3, <2>4, <2>5, DispatchChosen
<1> QED
  BY <1>4, <1>5, <1>6, <1>7 DEF Processing

\* What a time unit leaves, for the process it was spent on.
LEMMA ChosenEffect ==
  ASSUME Inv, NEW p \in Pid, NEW table \in [Pid -> PCB], NEW rest \in ReadyQueues,
         Chosen(p, table, rest)
  PROVE  /\ pcb' \in [Pid -> PCB]
         /\ ready' \in ReadyQueues
         /\ Sorted(ready', pcb')
         /\ current' \in {p, NULL}
         /\ current' \notin Queued(ready')
         /\ Live' \subseteq Live
         /\ p \in Live
         /\ \/ freed' = freed /\ alloc' = alloc
            \/ /\ freed' = freed \cup {p}
               /\ alloc' = freeHostResources(alloc, pcb[p].io)
               /\ p \notin Live'
         /\ \A q \in Pid : /\ pcb'[q].io = pcb[q].io
                           /\ pcb'[q].priority = 0 <=> pcb[q].priority = 0
         /\ pcb'[p].remaining = pcb[p].remaining - 1
         /\ current' = p => /\ pcb'[p].remaining # 0
                            /\ pcb'[p].priority = pcb[p].priority
                            /\ pcb'[p].slice = table[p].slice - 1
                            /\ pcb'[p].priority # 0 => pcb'[p].slice # 0
         /\ pcb[p].priority = 0 => current' = p \/ p \in freed'
<1> DEFINE Released == \/ freed' = freed /\ alloc' = alloc
                       \/ /\ freed' = freed \cup {p}
                          /\ alloc' = freeHostResources(alloc, table[p].io)
                          /\ current' = NULL
                          /\ ready' = rest
<1>1. /\ pcb' \in [Pid -> PCB]
      /\ ready' \in ReadyQueues
      /\ Sorted(ready', pcb')
      /\ current' \in {p, NULL}
      /\ current' \notin Queued(ready')
      /\ Queued(ready') \subseteq Queued(rest) \cup {p}
      /\ Released
      /\ \A q \in Pid \ {p} : pcb'[q] = table[q]
      /\ pcb'[p].io = table[p].io
      /\ pcb'[p].priority = 0 <=> table[p].priority = 0
      /\ pcb'[p].remaining = table[p].remaining - 1
      /\ current' = p => /\ pcb'[p].remaining # 0
                         /\ pcb'[p].priority = table[p].priority
                         /\ pcb'[p].slice = table[p].slice - 1
                         /\ pcb'[p].priority # 0 => pcb'[p].slice # 0
      /\ table[p].priority = 0 => current' = p \/ p \in freed'
  BY RunEffect DEF Inv, Chosen
<1>2. /\ p \in Live /\ Queued(rest) \subseteq Live /\ p \notin Queued(rest)
      /\ \A q \in Pid : /\ table[q].io = pcb[q].io
                        /\ table[q].priority = pcb[q].priority
                        /\ table[q].remaining = pcb[q].remaining
  BY DEF Chosen
<1>3. Live' = Queued(ready') \cup ({current'} \ {NULL})
  BY DEF Live, Ready, Queued
<1>4. Live' \subseteq Live
  BY <1>1, <1>2, <1>3
<1>5. \/ freed' = freed /\ alloc' = alloc
      \/ /\ freed' = freed \cup {p}
         /\ alloc' = freeHostResources(alloc, pcb[p].io)
         /\ p \notin Live'
  <2>1. ASSUME ready' = rest, current' = NULL PROVE p \notin Live'
    BY <1>2, <1>3, <2>1
  <2> QED
    BY <1>1, <1>2, <2>1
<1> HIDE DEF Released
<1>6. \A q \in Pid : /\ pcb'[q].io = pcb[q].io
                     /\ pcb'[q].priority = 0 <=> pcb[q].priority = 0
  BY <1>1, <1>2
<1> QED
  BY <1>1, <1>2, <1>4, <1>5, <1>6

\* The invariant over a time unit spent on a process.
LEMMA ProcessingInv == Inv /\ Processing => Inv'
<1> SUFFICES ASSUME Inv, Processing PROVE Inv'
  OBVIOUS
<1> USE DEF Inv
<1>1. PICK p \in Pid, table \in [Pid -> PCB], rest \in ReadyQueues : Chosen(p, table, rest)
  BY ProcessingChosen
<1>2. /\ pcb' \in [Pid -> PCB]
      /\ ready' \in ReadyQueues
      /\ Sorted(ready', pcb')
      /\ current' \in {p, NULL}
      /\ current' \notin Queued(ready')
      /\ Live' \subseteq Live
      /\ p \in Live
      /\ \/ freed' = freed /\ alloc' = alloc
         \/ /\ freed' = freed \cup {p}
            /\ alloc' = freeHostResources(alloc, pcb[p].io)
            /\ p \notin Live'
  BY <1>1, ChosenEffect
<1>3. /\ pc = "process" /\ pc' = "update" /\ time' = time + 1
      /\ UNCHANGED << pid, dispatcher, queuePtr, count, newDispatcher, rtUpdated >>
  BY <1>1 DEF Chosen, NextTick, scan
<1>4. Waiting' = Waiting
  BY <1>3 DEF Waiting
<1>5. TypeOK'
  <2>1. IsTable(alloc', Pid)
    BY <1>2, ReleaseEffect DEF TypeOK
  <2>2. time' \in 0 .. MaxTime
    BY <1>3, MaxTimeAssumption DEF TimeLeft, TypeOK
  <2>3. freed' \subseteq Pid
    BY <1>2 DEF TypeOK
  <2> QED
    BY <1>2, <1>3, <2>1, <2>2, <2>3 DEF TypeOK, ReadyQueues
<1>6. WaitLists' /\ RealTimeReady' /\ TimeLeft'
  BY <1>3 DEF WaitLists, RealTimeReady, TimeLeft
<1>7. Waiting' \cap (Live' \cup freed') = {} /\ Live' \cap freed' = {}
  <2>1. Waiting \cap (Live \cup freed) = {} /\ Live \cap freed = {}
    BY DEF PlacedOnce
  <2> QED
    BY <1>2, <1>4, <2>1
<1>8. PlacedOnce'
  BY <1>2, <1>7 DEF PlacedOnce, Sorted, Ready, Queued
<1>9. AllRead'
  BY <1>2, <1>3, <1>4 DEF AllRead
<1> QED
  BY <1>5, <1>6, <1>8, <1>9

\* The invariant over a time unit spent on none.
LEMMA IdleInv == Inv /\ Idle => Inv'
<1> SUFFICES ASSUME Inv, Idle PROVE Inv'
  OBVIOUS
<1> USE DEF Inv
<1>1. /\ pc = "process" /\ pc' = "update" /\ time' = time + 1
      /\ UNCHANGED << pid, pcb, alloc, dispatcher, queuePtr, count, newDispatcher, ready, current,
                      rtUpdated, freed >>
  BY DEF Idle, NextTick, scan
<1>2. TypeOK'
  BY <1>1, MaxTimeAssumption DEF TypeOK, TimeLeft
<1>3. WaitLists' /\ RealTimeReady' /\ TimeLeft'
  BY <1>1 DEF WaitLists, RealTimeReady, TimeLeft
<1>4. Waiting' = Waiting /\ Live' = Live
  BY <1>1 DEF Waiting, Live, Ready
<1> QED
  BY <1>1, <1>2, <1>3, <1>4 DEF PlacedOnce, AllRead, Ready

\* The invariant over closeSystem.
LEMMA CloseInv == Inv /\ Close => Inv'
<1> SUFFICES ASSUME Inv, Close PROVE Inv'
  OBVIOUS
<1> USE DEF Inv
<1>1. /\ pc = "update" /\ pc' = "done"
      /\ freed' = freed \cup Processes(dispatcher) /\ dispatcher' = NullQueue
      /\ UNCHANGED << pid, pcb, alloc, queuePtr, count, newDispatcher, ready, current,
                      rtUpdated, time >>
  BY DEF Close, scan
<1>2. NullQueue \in Seq(Node(Pid)) /\ Processes(NullQueue) = {}
  BY EmptySeq DEF NullQueue, Processes
<1>3. Processes(dispatcher) \subseteq Pid
  BY ProcessesArePids DEF TypeOK
<1>4. TypeOK'
  BY <1>1, <1>2, <1>3 DEF TypeOK
<1>5. WaitLists' /\ RealTimeReady' /\ TimeLeft'
  BY <1>1 DEF WaitLists, RealTimeReady, TimeLeft
<1>6. Waiting = Processes(dispatcher) /\ Waiting' = {} /\ Live' = Live
  BY <1>1, <1>2 DEF Waiting, Live, Ready
<1> QED
  BY <1>1, <1>4, <1>5, <1>6 DEF PlacedOnce, AllRead, Ready

\* The invariant over a stutter.
LEMMA StutterInv == Inv /\ UNCHANGED vars => Inv'
BY DEF vars, scan, Inv, TypeOK, WaitLists, RealTimeReady, TimeLeft, PlacedOnce, AllRead, Waiting, Live,
       Ready

\* The invariant is inductive.
LEMMA NextInv == Inv /\ [Next]_vars => Inv'
BY ReadLineInv, EndOfFileInv, BeginUpdateInv, PutBackInv, AdmitInv, RefuseInv, EndUpdateInv,
   ProcessingInv, IdleInv, CloseInv, StutterInv DEF Next, Processing

\* The inductive invariant, from which the theorems below follow.
THEOREM Invariance == Spec => []Inv
<1>1. Init => Inv
  BY InitInv
<1>2. Inv /\ [Next]_vars => Inv'
  BY NextInv
<1> QED
  BY <1>1, <1>2, PTL DEF Spec

\* Every variable keeps its type, for every job file and every host: in
\* particular time stays within MaxTime and the pids within MaxProcesses.
THEOREM TypeCorrect == Spec => []TypeOK
<1>1. Inv => TypeOK
  BY DEF Inv
<1> QED
  BY <1>1, Invariance, PTL

\* A process is at one place at most, in the queue of its own priority if it is
\* queued, and a freed PCB is at none (hostd.c:95-183, 218-256).
THEOREM AtOnePlace == Spec => []PlacedOnce
<1>1. Inv => PlacedOnce
  BY DEF Inv
<1> QED
  BY <1>1, Invariance, PTL

\* Every pointer the program follows without a test is good: hostd.c:110 and 220,
\* and queue.c:135.
THEOREM PointersGood == Spec => []NoBadDereference
<1>1. Inv => NoBadDereference
  <2> SUFFICES ASSUME Inv PROVE NoBadDereference
    OBVIOUS
  <2>1. /\ pc = "update" => dispatcher # NullQueue
        /\ pc = "scan" /\ count > 0 => HasProcess(queuePtr)
        /\ pc \in {"scan", "process"} /\ rtUpdated => HasProcess(ready[0])
    BY DEF Inv, WaitLists, OpenQueue, RealTimeReady
  <2>2. ASSUME NEW k \in Level, NEW i \in DOMAIN ready[k], i > 1 PROVE ready[k][i].process # NULL
    <3>1. ready[k] \in Seq(Node(Pid)) /\ WellFormed(ready[k])
      BY DEF Inv, TypeOK, PlacedOnce
    <3>2. i \in 1 .. Len(ready[k])
      BY <3>1, LenProperties
    <3> QED
      BY <2>2, <3>1, <3>2, LenProperties DEF WellFormed
  <2> QED
    BY <2>1, <2>2 DEF NoBadDereference
<1> QED
  BY <1>1, Invariance, PTL

-----------------------------------------------------------------------------
(***************************************************************************)
(* The cells                                                               *)
(***************************************************************************)

\* Every cell in use has an owner that was read, was admitted, was not freed,
\* and has the cell on record in the window of its priority.  A process that a
\* ready queue lost still owns its cells, so this says nothing of Live.
Owned(p, r, c) ==
  /\ p \in 1 .. pid - 1
  /\ p \notin Waiting
  /\ p \notin freed
  /\ c \in Recorded(pcb[p].io, r)
  /\ r = "memory" => (c < RTMemory <=> pcb[p].priority = 0)

CellsOwned == \A r \in Resource : \A c \in Cell(r) : alloc[r][c] # 0 => Owned(alloc[r][c], r, c)

\* A cell keeps its owner over a step that leaves the owner's record alone.
LEMMA OwnerKept ==
  ASSUME NEW r, NEW c, NEW p, Owned(p, r, c), pid \in Nat, pid' = pid \/ pid' = pid + 1,
         p \notin Waiting', p \notin freed',
         pcb'[p].io = pcb[p].io, pcb'[p].priority = 0 <=> pcb[p].priority = 0
  PROVE  Owned(p, r, c)'
BY DEF Owned

\* CellsOwned of the next state, cell by cell.
LEMMA CellByCell ==
  ASSUME \A r \in Resource : \A c \in Cell(r) : \A p : p = alloc'[r][c] /\ p # 0 => Owned(p, r, c)'
  PROVE  CellsOwned'
BY DEF CellsOwned, Owned

\* A step that gives no cell away.
LEMMA NoCellGiven ==
  ASSUME Inv, CellsOwned, pid' = pid \/ pid' = pid + 1,
         \A r \in Resource : \A c \in Cell(r) : alloc'[r][c] \in {0, alloc[r][c]},
         \A p \in 1 .. pid - 1 :
           p \notin Waiting /\ p \notin freed =>
             /\ p \notin Waiting'
             /\ pcb'[p].io = pcb[p].io
             /\ pcb'[p].priority = 0 <=> pcb[p].priority = 0
             /\ \/ p \notin freed'
                \/ \A r \in Resource : \A c \in Cell(r) :
                     c \in Recorded(pcb[p].io, r) => alloc'[r][c] = 0
  PROVE  CellsOwned'
<1>1. SUFFICES ASSUME NEW r \in Resource, NEW c \in Cell(r), NEW p, p = alloc'[r][c], p # 0
               PROVE  Owned(p, r, c)'
  BY CellByCell
<1>2. Owned(p, r, c)
  BY <1>1 DEF CellsOwned
<1>3. /\ p \in 1 .. pid - 1 /\ p \notin Waiting /\ p \notin freed
      /\ c \in Recorded(pcb[p].io, r)
  BY <1>2 DEF Owned
<1>4. /\ p \notin Waiting' /\ p \notin freed'
      /\ pcb'[p].io = pcb[p].io
      /\ pcb'[p].priority = 0 <=> pcb[p].priority = 0
  BY <1>1, <1>3
<1>5. pid \in Nat
  BY DEF Inv, TypeOK
<1> QED
  BY <1>2, <1>4, <1>5, OwnerKept

\* A turn of readFile has one more process wait.
LEMMA ReadLinePlaces ==
  ASSUME Inv, ReadLine
  PROVE  /\ pid \in Pid
         /\ Waiting' \subseteq Waiting \cup {pid}
         /\ Live' = Live
<1>1. /\ pid \in Pid /\ pc = "read" /\ pc' = "read" /\ ready' = ready /\ current' = current
      /\ dispatcher' = enqueueProcess(dispatcher, pid)
  BY MaxProcessesAssumption DEF ReadLine, Inv, TypeOK, Pid
<1>2. /\ Waiting = Processes(dispatcher) /\ Waiting' = Processes(dispatcher')
      /\ dispatcher \in Seq(Node(Pid)) /\ OpenQueue(dispatcher)
  BY <1>1 DEF Waiting, Inv, TypeOK, WaitLists
<1>3. pid \notin Processes(dispatcher)
  BY <1>1, <1>2 DEF Inv, AllRead, Pid
<1>4. Waiting' \subseteq Waiting \cup {pid}
  BY <1>1, <1>2, <1>3, PidNotNull, EnqueueProcess DEF OpenQueue
<1> QED
  BY <1>1, <1>4 DEF Live, Ready

\* CellsOwned over one turn of readFile.
LEMMA CellsReadLine == Inv /\ CellsOwned /\ ReadLine => CellsOwned'
<1> SUFFICES ASSUME Inv, CellsOwned, ReadLine PROVE CellsOwned'
  OBVIOUS
<1>1. /\ alloc' = alloc /\ freed' = freed /\ pid' = pid + 1 /\ pid \in Pid
      /\ pc = "read" /\ pc' = "read"
      /\ \A p \in Pid \ {pid} : pcb'[p] = pcb[p]
  BY MaxProcessesAssumption DEF ReadLine, Inv, TypeOK, Pid
<1>2. Waiting' \subseteq Waiting \cup {pid}
  BY ReadLinePlaces
<1>3. \A p \in 1 .. pid - 1 : p \in Pid /\ p # pid
  BY <1>1, MaxProcessesAssumption DEF Pid
<1>4. \A p \in 1 .. pid - 1 : p \notin Waiting => p \notin Waiting'
  BY <1>2, <1>3
<1> QED
  BY <1>1, <1>3, <1>4, NoCellGiven

\* The steps that touch neither cells nor records move no process to another place.
LEMMA BystanderPlaces ==
  ASSUME Inv,
         EndOfFile \/ BeginUpdate \/ PutBack \/ EndUpdate \/ Idle \/ Close \/ UNCHANGED vars
  PROVE  /\ alloc' = alloc /\ pcb' = pcb /\ pid' = pid
         /\ Waiting' \subseteq Waiting
         /\ Live' = Live
<1>1. Waiting' \subseteq Waiting
  <2>1. CASE EndOfFile
    BY <2>1 DEF EndOfFile, Waiting, scan
  <2>2. CASE BeginUpdate
    BY <2>2, InitializeQueue DEF BeginUpdate, Waiting
  <2>3. CASE PutBack
    <3>1. /\ pc = "scan" /\ pc' = "scan" /\ Scanned \in Pid /\ Scanned \in Processes(queuePtr)
          /\ Scanned \notin Processes(newDispatcher)
          /\ Processes(queuePtr') \subseteq Processes(queuePtr)
          /\ newDispatcher' = enqueueProcess(newDispatcher, Scanned)
          /\ OpenQueue(newDispatcher) /\ newDispatcher \in Seq(Node(Pid))
      BY <2>3, TurnEffect DEF PutBack, Inv, TypeOK, WaitLists
    <3>2. Processes(newDispatcher') \subseteq Processes(newDispatcher) \cup {Scanned}
      BY <3>1, PidNotNull, EnqueueProcess DEF OpenQueue
    <3> QED
      BY <3>1, <3>2 DEF Waiting
  <2>4. CASE EndUpdate
    BY <2>4 DEF EndUpdate, Waiting
  <2>5. CASE Idle
    BY <2>5 DEF Idle, NextTick, Waiting, scan
  <2>6. CASE Close
    BY <2>6 DEF Close, Waiting, Processes, NullQueue
  <2>7. CASE UNCHANGED vars
    BY <2>7 DEF vars, scan, Waiting
  <2> QED
    BY <2>1, <2>2, <2>3, <2>4, <2>5, <2>6, <2>7
<1>2. alloc' = alloc /\ pcb' = pcb /\ pid' = pid /\ ready' = ready /\ current' = current
  BY DEF EndOfFile, BeginUpdate, PutBack, EndUpdate, Idle, Close, vars, scan
<1> QED
  BY <1>1, <1>2 DEF Live, Ready

\* CellsOwned over the steps that touch neither cells nor records.
LEMMA CellsBystander ==
  Inv /\ CellsOwned /\ (EndOfFile \/ BeginUpdate \/ PutBack \/ EndUpdate \/ Idle \/ Close
                         \/ UNCHANGED vars) => CellsOwned'
<1> SUFFICES ASSUME Inv, CellsOwned,
                    EndOfFile \/ BeginUpdate \/ PutBack \/ EndUpdate \/ Idle \/ Close \/ UNCHANGED vars
             PROVE  CellsOwned'
  OBVIOUS
<1>1. alloc' = alloc /\ pcb' = pcb /\ pid' = pid /\ Waiting' \subseteq Waiting
  BY BystanderPlaces
<1>2. freed' \subseteq freed \cup Waiting
  BY DEF EndOfFile, BeginUpdate, PutBack, EndUpdate, Idle, Close, vars, scan, Waiting
<1> QED
  BY <1>1, <1>2, NoCellGiven

\* CellsOwned over a time unit, at the end of which a process may be freed.
LEMMA CellsProcessing == Inv /\ CellsOwned /\ Processing => CellsOwned'
<1> SUFFICES ASSUME Inv, CellsOwned, Processing PROVE CellsOwned'
  OBVIOUS
<1>1. PICK p \in Pid, table \in [Pid -> PCB], rest \in ReadyQueues : Chosen(p, table, rest)
  BY ProcessingChosen
<1>2. /\ \/ freed' = freed /\ alloc' = alloc
         \/ freed' = freed \cup {p} /\ alloc' = freeHostResources(alloc, pcb[p].io)
      /\ \A q \in Pid : /\ pcb'[q].io = pcb[q].io
                        /\ pcb'[q].priority = 0 <=> pcb[q].priority = 0
  BY <1>1, ChosenEffect
<1>3. pid' = pid /\ Waiting' = Waiting
  BY <1>1 DEF Chosen, NextTick, scan, Waiting
<1>4. \A r \in Resource : \A c \in Cell(r) :
        freeHostResources(alloc, pcb[p].io)[r][c] = IF c \in Recorded(pcb[p].io, r) THEN 0 ELSE alloc[r][c]
  BY ReleaseEffect DEF Inv, TypeOK
<1>5. \A q \in 1 .. pid - 1 : q \in Pid
  BY MaxProcessesAssumption DEF Inv, TypeOK, Pid
<1> QED
  BY <1>2, <1>3, <1>4, <1>5, NoCellGiven

\* CellsOwned over a failed attempt.
LEMMA CellsRefuse == Inv /\ CellsOwned /\ Refuse => CellsOwned'
<1> SUFFICES ASSUME Inv, CellsOwned, Refuse PROVE CellsOwned'
  OBVIOUS
<1> DEFINE p     == Scanned
           taken == Taken(alloc, pcb[p].io, CursorOf(p), p)
           io    == Noted(pcb[p].io, CursorOf(p))
<1>1. /\ NextTurn
      /\ newDispatcher' = enqueueProcess(newDispatcher, p)
      /\ alloc' = freeHostResources(taken, io)
      /\ pcb' = [pcb EXCEPT ![p].io = io]
      /\ UNCHANGED << pc, pid, freed >>
  BY DEF Refuse
<1>2. /\ pc = "scan" /\ p \in Pid /\ p \in Processes(queuePtr) /\ p \notin Processes(newDispatcher)
      /\ Processes(queuePtr') \subseteq Processes(queuePtr)
  BY <1>1, TurnEffect
<1> HIDE DEF p
<1>3. /\ IsTable(taken, Pid)
      /\ \A r \in Resource : \A c \in Cell(r) :
           taken[r][c] = alloc[r][c] \/ c \in Recorded(io, r)
  <2>1. IsTable(alloc, Pid) /\ pcb[p] \in PCB
    BY <1>2 DEF Inv, TypeOK
  <2>2. pcb[p].io \in IO /\ pcb[p].priority \in Nat
    BY <2>1 DEF PCB
  <2> QED
    BY <1>2, <2>1, <2>2, AttemptEffect DEF CursorOf
<1> HIDE DEF taken, io
<1>4. \A r \in Resource : \A c \in Cell(r) : alloc'[r][c] \in {0, alloc[r][c]}
  BY <1>1, <1>3, ReleaseEffect
<1>5. Waiting' \subseteq Waiting
  <2>1. OpenQueue(newDispatcher) /\ newDispatcher \in Seq(Node(Pid))
    BY <1>2 DEF Inv, TypeOK, WaitLists
  <2>2. Processes(newDispatcher') \subseteq Processes(newDispatcher) \cup {p}
    BY <1>1, <1>2, <2>1, PidNotNull, EnqueueProcess DEF OpenQueue
  <2> QED
    BY <1>1, <1>2, <2>2 DEF Waiting
<1>6. p \in Waiting
  BY <1>2 DEF Waiting
<1>7. \A q \in 1 .. pid - 1 : q # p => pcb'[q] = pcb[q]
  BY <1>1, MaxProcessesAssumption DEF Inv, TypeOK, Pid
<1> QED
  BY <1>1, <1>4, <1>5, <1>6, <1>7, NoCellGiven

\* CellsOwned over an attempt that succeeds.
LEMMA CellsAdmit == Inv /\ CellsOwned /\ Admit => CellsOwned'
<1> SUFFICES ASSUME Inv, CellsOwned, Admit PROVE CellsOwned'
  OBVIOUS
<1> DEFINE p     == Scanned
           k     == pcb[p].priority
           taken == Taken(alloc, pcb[p].io, CursorOf(p), p)
           io    == Noted(pcb[p].io, CursorOf(p))
<1>1. /\ NextTurn
      /\ alloc' = taken
      /\ pcb' = [pcb EXCEPT ![p].io = io]
      /\ UNCHANGED << pc, pid, newDispatcher, freed >>
  BY DEF Admit
<1>2. /\ pc = "scan" /\ p \in Pid /\ p \in Processes(queuePtr) /\ p \notin Processes(newDispatcher)
      /\ p \notin freed
      /\ p \in 1 .. pid - 1
      /\ Processes(queuePtr') = Processes(queuePtr) \ {p}
  BY <1>1, TurnEffect
<1> HIDE DEF p
<1>3. IsTable(alloc, Pid) /\ pcb[p].io \in IO /\ k \in 0 .. 3 /\ k \in Nat
  <2>1. IsTable(alloc, Pid) /\ pcb[p] \in PCB
    BY <1>2 DEF Inv, TypeOK
  <2> QED
    BY <2>1 DEF PCB
<1>4. /\ \A r \in Resource : \A c \in Cell(r) :
              \/ taken[r][c] = alloc[r][c]
              \/ /\ taken[r][c] = p
                 /\ c \in Window(r, k)
                 /\ c \in Recorded(io, r)
  <2> DEFINE io0    == pcb[p].io
             cursor == CursorOf(p)
  <2>1. cursor = Cursor(alloc, io0, p, k)
    BY DEF CursorOf
  <2>2. taken = Taken(alloc, io0, cursor, p) /\ io = Noted(io0, cursor)
    OBVIOUS
  <2>3. io0 \in IO
    BY <1>3
  <2> HIDE DEF k, taken, io, io0, cursor
  <2>4. \A r \in Resource : \A c \in Cell(r) :
           \/ Taken(alloc, io0, cursor, p)[r][c] = alloc[r][c]
           \/ /\ Taken(alloc, io0, cursor, p)[r][c] = p
              /\ c \in Window(r, k)
              /\ c \in Recorded(Noted(io0, cursor), r)
    <3>1. IsTable(alloc, Pid) /\ k \in Nat /\ p \in Pid
      BY <1>2, <1>3
    <3> QED
      BY <2>1, <2>3, <3>1, AttemptEffect
  <2> QED
    BY <2>2, <2>4
<1>5. pcb' = [pcb EXCEPT ![p].io = io] /\ pcb'[p].io = io /\ pcb'[p].priority = k
  BY <1>1, <1>2 DEF Inv, TypeOK, PCB
<1> HIDE DEF taken, io
<1>6. Waiting' = Waiting \ {p} /\ p \in Waiting
  BY <1>1, <1>2 DEF Waiting
<1>7. SUFFICES ASSUME NEW r \in Resource, NEW c \in Cell(r), NEW q, q = alloc'[r][c], q # 0
               PROVE  Owned(q, r, c)'
  BY CellByCell
<1>8. CASE q = alloc[r][c]
  <2>1. Owned(q, r, c)
    BY <1>7, <1>8 DEF CellsOwned
  <2>2. /\ q \in Pid /\ q # p /\ q \notin Waiting' /\ q \notin freed'
    BY <1>1, <1>6, <2>1, MaxProcessesAssumption DEF Owned, Inv, TypeOK, Pid
  <2>3. pcb'[q] = pcb[q]
    BY <1>5, <2>2 DEF Inv, TypeOK
  <2>4. pid \in Nat /\ pid' = pid
    BY <1>1 DEF Inv, TypeOK
  <2> QED
    BY <2>1, <2>2, <2>3, <2>4, OwnerKept
<1>9. CASE q # alloc[r][c]
  <2>1. q = p /\ c \in Window(r, k) /\ c \in Recorded(io, r)
    BY <1>1, <1>4, <1>7, <1>9
  <2>2. r = "memory" => (c < RTMemory <=> k = 0)
    BY <1>3, <2>1, CapacityAssumption, RTMemoryAssumption DEF Window, Base, Limit, Cell, Resource
  <2> HIDE DEF k
  <2> QED
    BY <1>1, <1>2, <1>5, <1>6, <2>1, <2>2 DEF Owned
<1> QED
  BY <1>8, <1>9

\* The four facts about cells, from the invariant of all steps.
THEOREM Cells == Spec => [](Inv /\ CellsOwned)
<1>1. Init => CellsOwned
  BY DEF Init, CellsOwned, NoneAllocated
<1>2. Inv /\ CellsOwned /\ [Next]_vars => CellsOwned'
  BY CellsReadLine, CellsBystander, CellsProcessing, CellsRefuse, CellsAdmit DEF Next, Processing
<1> QED
  BY <1>1, <1>2, InitInv, NextInv, PTL DEF Spec

\* No cell is marked with a process that waits: a failed attempt returns all it
\* took (resources.c:28).
THEOREM NothingHeldWaiting == Spec => []WaitingHoldsNothing
<1>1. Inv /\ CellsOwned => WaitingHoldsNothing
  <2> SUFFICES ASSUME Inv, CellsOwned, NEW r \in Resource, NEW c \in Cell(r), alloc[r][c] \in Waiting
               PROVE  FALSE
    BY DEF WaitingHoldsNothing
  <2>1. NULL \notin Waiting
    BY DEF Waiting, Processes
  <2> QED
    BY <2>1 DEF CellsOwned, Owned, NULL
<1> QED
  BY <1>1, Cells, PTL

\* Every cell in use is on the record of a process that was not freed
\* (resources.c:225-266, hostd.c:164).
THEOREM AllCellsRecorded == Spec => []CellsRecorded
<1>1. CellsOwned => CellsRecorded
  BY DEF CellsOwned, Owned, CellsRecorded
<1> QED
  BY <1>1, Cells, PTL

\* Real time processes stay in the real time window of memory and user processes
\* out of it (resources.c:168, 201), over every change of priority.
THEOREM MemoryParted == Spec => []MemoryPartition
<1>1. CellsOwned => MemoryPartition
  BY DEF CellsOwned, Owned, MemoryPartition, Resource
<1> QED
  BY <1>1, Cells, PTL

-----------------------------------------------------------------------------
(***************************************************************************)
(* Exclusive use.  With one kind of resource for each process a refused    *)
(* attempt has taken nothing, so no record is stale when it is trusted.    *)
(***************************************************************************)

\* Every process that was read needs one kind of resource at most.
SingleKind ==
  \A p \in 1 .. pid - 1 : \A r, s \in Resource :
    pcb[p].io.need[r] # 0 /\ pcb[p].io.need[s] # 0 => r = s

\* A process that waits has nothing on record, and an admitted one has what is
\* marked with it.
Exclusive ==
  /\ \A p \in Waiting, r \in Resource : Recorded(pcb[p].io, r) = {}
  /\ \A p \in Live, r \in Resource :
       \A c \in Recorded(pcb[p].io, r) : c \in Cell(r) /\ alloc[r][c] = p

\* Exclusive of the next state, process by process.
LEMMA ProcessByProcess ==
  ASSUME \A p, r : p \in Waiting' /\ r \in Resource => Recorded(pcb'[p].io, r) = {},
         \A p, r, c : p \in Live' /\ r \in Resource /\ c \in Recorded(pcb'[p].io, r)
                        => c \in Cell(r) /\ alloc'[r][c] = p
  PROVE  Exclusive'
BY DEF Exclusive

\* Where the processes of Exclusive are.
LEMMA PlacesRead ==
  Inv => Waiting \cup Live \subseteq 1 .. pid - 1 /\ 1 .. pid - 1 \subseteq Pid /\ 0 \notin Live
BY MaxProcessesAssumption DEF Inv, AllRead, TypeOK, Pid

\* What was read needs what it needed.
LEMMA SingleKindBefore ==
  ASSUME Inv, pid' = pid \/ pid' = pid + 1,
         \A p \in 1 .. pid - 1 : pcb'[p].io.need = pcb[p].io.need, SingleKind'
  PROVE  SingleKind
<1>1. 1 .. pid - 1 \subseteq 1 .. pid' - 1
  BY DEF Inv, TypeOK
<1> QED
  BY <1>1 DEF SingleKind

\* What an attempt takes and notes.
LEMMA AttemptLeaves ==
  ASSUME Inv, NEW p \in Pid
  PROVE  LET io0    == pcb[p].io
             cursor == CursorOf(p)
             taken  == Taken(alloc, io0, cursor, p)
             io     == Noted(io0, cursor)
         IN  /\ IsTable(taken, Pid)
             /\ io.need = io0.need
             /\ \A r \in Resource : \A c \in Cell(r) : taken[r][c] = alloc[r][c] \/ alloc[r][c] = 0
             /\ \A r \in Resource :
                  /\ r \notin Obtained(io0, cursor) =>
                       Recorded(io, r) = Recorded(io0, r) /\ taken[r] = alloc[r]
                  /\ r \in Obtained(io0, cursor) =>
                       \A c \in Recorded(io, r) : c \in Cell(r) /\ taken[r][c] = p
<1> DEFINE io0    == pcb[p].io
           k      == pcb[p].priority
           cursor == CursorOf(p)
<1>1. IsTable(alloc, Pid) /\ io0 \in IO /\ k \in Nat /\ cursor = Cursor(alloc, io0, p, k)
  <2>1. IsTable(alloc, Pid) /\ pcb[p] \in PCB
    BY DEF Inv, TypeOK
  <2> QED
    BY <2>1 DEF PCB, CursorOf
<1> HIDE DEF io0, k, cursor
<1>2. /\ IsTable(Taken(alloc, io0, cursor, p), Pid)
      /\ Noted(io0, cursor).need = io0.need
      /\ \A r \in Resource : \A c \in Cell(r) :
           Taken(alloc, io0, cursor, p)[r][c] = alloc[r][c] \/ alloc[r][c] = 0
  BY <1>1, AttemptEffect
<1>3. \A r \in Resource :
        /\ r \notin Obtained(io0, cursor) =>
             /\ Recorded(Noted(io0, cursor), r) = Recorded(io0, r)
             /\ Taken(alloc, io0, cursor, p)[r] = alloc[r]
        /\ r \in Obtained(io0, cursor) =>
             \A c \in Recorded(Noted(io0, cursor), r) :
               c \in Cell(r) /\ Taken(alloc, io0, cursor, p)[r][c] = p
  BY <1>1, AttemptRecords
<1> QED
  BY <1>2, <1>3 DEF io0, cursor

\* Exclusive over one turn of readFile.
LEMMA ExclusiveReadLine ==
  Inv /\ (SingleKind => Exclusive) /\ ReadLine => (SingleKind => Exclusive)'
<1> SUFFICES ASSUME Inv, SingleKind => Exclusive, ReadLine, SingleKind' PROVE Exclusive'
  OBVIOUS
<1>1. /\ pid \in Pid /\ pid' = pid + 1 /\ alloc' = alloc
      /\ \A p \in Pid \ {pid} : pcb'[p] = pcb[p]
      /\ \A r \in Resource : pcb'[pid].io.start[r] = -1
  <2>1. pid \in Pid /\ pcb \in [Pid -> PCB]
    BY ReadLinePlaces DEF Inv, TypeOK
  <2>2. PICK job \in Job : pcb' = [pcb EXCEPT ![pid] = FromLine(job)]
    BY DEF ReadLine
  <2>3. pcb'[pid] = FromLine(job) /\ \A p \in Pid \ {pid} : pcb'[p] = pcb[p]
    BY <2>1, <2>2
  <2>4. \A r \in Resource : FromLine(job).io.start[r] = -1
    BY DEF FromLine, newPCB, newPCBIO
  <2> QED
    BY <2>1, <2>3, <2>4 DEF ReadLine
<1>2. \A p \in 1 .. pid - 1 : p \in Pid \ {pid}
  BY PlacesRead DEF Inv, TypeOK
<1>3. Exclusive
  BY <1>1, <1>2, SingleKindBefore
<1>4. Waiting' \subseteq Waiting \cup {pid} /\ Live' = Live
  BY ReadLinePlaces
<1>5. ASSUME NEW p \in Waiting', NEW r \in Resource PROVE Recorded(pcb'[p].io, r) = {}
  BY <1>1, <1>2, <1>3, <1>4, PlacesRead DEF Exclusive, Recorded
<1>6. ASSUME NEW p \in Live', NEW r \in Resource, NEW c \in Recorded(pcb'[p].io, r)
      PROVE  c \in Cell(r) /\ alloc'[r][c] = p
  BY <1>1, <1>2, <1>3, <1>4, PlacesRead DEF Exclusive
<1> QED
  BY <1>5, <1>6, ProcessByProcess

\* Exclusive over the steps that touch neither cells nor records.
LEMMA ExclusiveBystander ==
  Inv /\ (SingleKind => Exclusive)
      /\ (EndOfFile \/ BeginUpdate \/ PutBack \/ EndUpdate \/ Idle \/ Close \/ UNCHANGED vars)
    => (SingleKind => Exclusive)'
BY BystanderPlaces DEF SingleKind, Exclusive

\* Exclusive over a time unit: what ends frees its own cells only.
LEMMA ExclusiveProcessing ==
  Inv /\ (SingleKind => Exclusive) /\ Processing => (SingleKind => Exclusive)'
<1> SUFFICES ASSUME Inv, SingleKind => Exclusive, Processing, SingleKind' PROVE Exclusive'
  OBVIOUS
<1>1. PICK p \in Pid, table \in [Pid -> PCB], rest \in ReadyQueues : Chosen(p, table, rest)
  BY ProcessingChosen
<1>2. /\ p \in Live /\ Live' \subseteq Live
      /\ \/ freed' = freed /\ alloc' = alloc
         \/ alloc' = freeHostResources(alloc, pcb[p].io) /\ p \notin Live'
      /\ \A q \in Pid : pcb'[q].io = pcb[q].io
  BY <1>1, ChosenEffect
<1>3. pid' = pid /\ Waiting' = Waiting
  BY <1>1 DEF Chosen, NextTick, scan, Waiting
<1>4. \A r \in Resource : \A c \in Cell(r) :
        freeHostResources(alloc, pcb[p].io)[r][c] = IF c \in Recorded(pcb[p].io, r) THEN 0 ELSE alloc[r][c]
  BY ReleaseEffect DEF Inv, TypeOK
<1>5. Exclusive
  BY <1>2, <1>3, PlacesRead, SingleKindBefore
<1>6. ASSUME NEW q \in Waiting', NEW r \in Resource PROVE Recorded(pcb'[q].io, r) = {}
  BY <1>2, <1>3, <1>5, PlacesRead DEF Exclusive
<1>7. ASSUME NEW q \in Live', NEW r \in Resource, NEW c \in Recorded(pcb'[q].io, r)
      PROVE  c \in Cell(r) /\ alloc'[r][c] = q
  <2>1. q \in Live /\ c \in Recorded(pcb[q].io, r)
    BY <1>2, PlacesRead
  <2>2. c \in Cell(r) /\ alloc[r][c] = q
    BY <1>5, <2>1 DEF Exclusive
  <2>3. CASE alloc' = alloc
    BY <2>2, <2>3
  <2>4. CASE alloc' = freeHostResources(alloc, pcb[p].io) /\ p \notin Live'
    <3>1. c \notin Recorded(pcb[p].io, r)
      BY <1>2, <1>5, <2>2, <2>4 DEF Exclusive
    <3> QED
      BY <1>4, <2>2, <2>4, <3>1
  <2> QED
    BY <1>2, <2>3, <2>4
<1> QED
  BY <1>6, <1>7, ProcessByProcess

\* Exclusive over a failed attempt, which obtained nothing.
LEMMA ExclusiveRefuse ==
  Inv /\ (SingleKind => Exclusive) /\ Refuse => (SingleKind => Exclusive)'
<1> SUFFICES ASSUME Inv, SingleKind => Exclusive, Refuse, SingleKind' PROVE Exclusive'
  OBVIOUS
<1> DEFINE p      == Scanned
           io0    == pcb[p].io
           cursor == CursorOf(p)
           taken  == Taken(alloc, io0, cursor, p)
           io     == Noted(io0, cursor)
<1>1. /\ NextTurn
      /\ Refused(io0, cursor)
      /\ newDispatcher' = enqueueProcess(newDispatcher, p)
      /\ alloc' = freeHostResources(taken, io)
      /\ pcb' = [pcb EXCEPT ![p].io = io]
      /\ UNCHANGED << pc, pid, ready, current >>
  BY DEF Refuse
<1>2. /\ pc = "scan" /\ p \in Pid /\ p \in Processes(queuePtr) /\ p \notin Processes(newDispatcher)
      /\ p \notin Live /\ p \in 1 .. pid - 1
      /\ Processes(queuePtr') \subseteq Processes(queuePtr)
  BY <1>1, TurnEffect
<1>3. /\ IsTable(taken, Pid)
      /\ io.need = io0.need
      /\ \A r \in Resource : r \notin Obtained(io0, cursor) =>
           Recorded(io, r) = Recorded(io0, r) /\ taken[r] = alloc[r]
  BY <1>2, AttemptLeaves
<1> HIDE DEF p, io0, cursor, taken, io
<1>4. /\ pcb'[p].io = io
      /\ \A q \in Pid \ {p} : pcb'[q] = pcb[q]
  BY <1>1, <1>2 DEF Inv, TypeOK, PCB
<1>5. SingleKind
  BY <1>1, <1>3, <1>4, SingleKindBefore, PlacesRead DEF io0
<1>6. Obtained(io0, cursor) = {}
  BY <1>1, <1>2, <1>5 DEF SingleKind, Obtained, Refused, io0
<1>7. p \in Waiting /\ Waiting' \subseteq Waiting
  <2>1. OpenQueue(newDispatcher) /\ newDispatcher \in Seq(Node(Pid))
    BY <1>2 DEF Inv, TypeOK, WaitLists
  <2>2. Processes(newDispatcher') \subseteq Processes(newDispatcher) \cup {p}
    BY <1>1, <1>2, <2>1, PidNotNull, EnqueueProcess DEF OpenQueue
  <2> QED
    BY <1>1, <1>2, <2>2 DEF Waiting
<1>8. \A r \in Resource : Recorded(io, r) = {} /\ taken[r] = alloc[r]
  BY <1>3, <1>5, <1>6, <1>7 DEF Exclusive, io0
<1>9. \A r \in Resource : \A c \in Cell(r) : alloc'[r][c] = alloc[r][c]
  BY <1>1, <1>3, <1>8, ReleaseEffect
<1>10. ASSUME NEW q \in Waiting', NEW r \in Resource PROVE Recorded(pcb'[q].io, r) = {}
  BY <1>4, <1>5, <1>7, <1>8, PlacesRead DEF Exclusive
<1>11. ASSUME NEW q \in Live', NEW r \in Resource, NEW c \in Recorded(pcb'[q].io, r)
       PROVE  c \in Cell(r) /\ alloc'[r][c] = q
  <2>1. q \in Live /\ q # p /\ q \in Pid
    BY <1>1, <1>2, PlacesRead DEF Live, Ready
  <2> QED
    BY <1>4, <1>5, <1>9, <2>1 DEF Exclusive
<1> QED
  BY <1>10, <1>11, ProcessByProcess

\* Exclusive over an attempt that succeeds, which marked free cells only.
LEMMA ExclusiveAdmit ==
  Inv /\ (SingleKind => Exclusive) /\ Admit => (SingleKind => Exclusive)'
<1> SUFFICES ASSUME Inv, SingleKind => Exclusive, Admit, SingleKind' PROVE Exclusive'
  OBVIOUS
<1> DEFINE p      == Scanned
           io0    == pcb[p].io
           k      == pcb[p].priority
           cursor == CursorOf(p)
           taken  == Taken(alloc, io0, cursor, p)
           io     == Noted(io0, cursor)
<1>1. /\ NextTurn
      /\ alloc' = taken
      /\ pcb' = [pcb EXCEPT ![p].io = io]
      /\ ready' = enqueueToPriority(ready, p, k)
      /\ UNCHANGED << pc, pid, newDispatcher, current >>
  BY DEF Admit
<1>2. /\ pc = "scan" /\ p \in Pid /\ p \in Processes(queuePtr) /\ p \notin Processes(newDispatcher)
      /\ p \notin Live /\ p \in 1 .. pid - 1
      /\ Processes(queuePtr') = Processes(queuePtr) \ {p}
  BY <1>1, TurnEffect
<1>3. k \in Level
  BY <1>2 DEF Inv, TypeOK, PCB, Level
<1>4. /\ io.need = io0.need
      /\ \A r \in Resource : \A c \in Cell(r) : taken[r][c] = alloc[r][c] \/ alloc[r][c] = 0
      /\ \A r \in Resource :
           \/ Recorded(io, r) = Recorded(io0, r)
           \/ \A c \in Recorded(io, r) : c \in Cell(r) /\ taken[r][c] = p
  BY <1>2, AttemptLeaves
<1> HIDE DEF p, k, io0, cursor, taken, io
<1>5. /\ pcb'[p].io = io
      /\ \A q \in Pid \ {p} : pcb'[q] = pcb[q]
  BY <1>1, <1>2 DEF Inv, TypeOK, PCB
<1>6. Exclusive
  <2>1. SingleKind
    BY <1>1, <1>4, <1>5, SingleKindBefore, PlacesRead DEF io0
  <2> QED
    BY <2>1
<1>7. Waiting' = Waiting \ {p} /\ p \in Waiting
  BY <1>1, <1>2 DEF Waiting
<1>8. Live' \subseteq Live \cup {p}
  <2>1. /\ ready \in ReadyQueues
        /\ \A j \in Level : WellFormed(ready[j])
        /\ p \notin Queued(ready)
    BY <1>2, LivePids, Placement DEF Inv, TypeOK, ReadyQueues, Sorted
  <2>2. Queued(ready') \subseteq Queued(ready) \cup {p}
    BY <1>1, <1>2, <1>3, <2>1, EnqueueToPriority
  <2> QED
    BY <1>1, <2>2 DEF Live, Ready, Queued
<1>9. ASSUME NEW q \in Waiting', NEW r \in Resource PROVE Recorded(pcb'[q].io, r) = {}
  BY <1>5, <1>6, <1>7, PlacesRead DEF Exclusive
<1>10. ASSUME NEW q \in Live', NEW r \in Resource, NEW c \in Recorded(pcb'[q].io, r)
       PROVE  c \in Cell(r) /\ alloc'[r][c] = q
  <2>1. CASE q = p
    <3>1. c \in Recorded(io, r) /\ Recorded(io0, r) = {}
      BY <1>5, <1>6, <1>7, <1>10, <2>1 DEF Exclusive, io0
    <3> QED
      BY <1>1, <1>4, <2>1, <3>1
  <2>2. CASE q # p
    <3>1. q \in Live /\ q \in Pid /\ q # 0 /\ pcb'[q] = pcb[q]
      BY <1>5, <1>8, <2>2, PlacesRead
    <3>2. c \in Cell(r) /\ alloc[r][c] = q
      BY <1>6, <1>10, <3>1 DEF Exclusive
    <3> QED
      BY <1>1, <1>4, <3>1, <3>2
  <2> QED
    BY <2>1, <2>2
<1> QED
  BY <1>9, <1>10, ProcessByProcess

\* When every process needs one kind of resource at most, an admitted process has
\* each cell it has on record to itself: the stale records that freeHostResources
\* trusts (resources.c:230) are harmless then.
THEOREM ExclusiveUse == Spec => []ExclusiveWhenSingleKind
<1>1. Init => (SingleKind => Exclusive)
  BY DEF Init, Exclusive, Live, Ready, Waiting, Processes, initializeQueue
<1>2. Inv /\ (SingleKind => Exclusive) /\ [Next]_vars => (SingleKind => Exclusive)'
  BY ExclusiveReadLine, ExclusiveBystander, ExclusiveProcessing, ExclusiveRefuse, ExclusiveAdmit
     DEF Next, Processing
<1>3. (SingleKind => Exclusive) => ExclusiveWhenSingleKind
  BY DEF SingleKind, Exclusive, ExclusiveWhenSingleKind
<1> QED
  BY <1>1, <1>2, <1>3, InitInv, NextInv, PTL DEF Spec

-----------------------------------------------------------------------------
(***************************************************************************)
(* The processor                                                           *)
(***************************************************************************)

\* Off doProcessing, the process on the processor and its budget stay.
LEMMA ProcessorUntouched ==
  ASSUME Inv, Next, ~ Processing
  PROVE  /\ current' = current
         /\ current # NULL => /\ pcb'[current].priority  = pcb[current].priority
                              /\ pcb'[current].remaining = pcb[current].remaining
                              /\ pcb'[current].slice     = pcb[current].slice
<1>1. current' = current
  BY DEF Next, Processing, ReadLine, EndOfFile, BeginUpdate, PutBack, Admit, Refuse, EndUpdate, Idle,
         Close
<1>2. current # NULL => current \in Pid /\ current \in Live
  BY DEF Inv, TypeOK, Live
<1>3. CASE ReadLine
  <2>1. pid \notin Live
    BY <1>3, MaxProcessesAssumption DEF ReadLine, Inv, AllRead, TypeOK
  <2> QED
    BY <1>1, <1>2, <1>3, <2>1 DEF ReadLine, Inv, TypeOK
<1>4. CASE Admit
  BY <1>1, <1>2, <1>4 DEF Admit, Inv, TypeOK, PCB
<1>5. CASE Refuse
  BY <1>1, <1>2, <1>5 DEF Refuse, Inv, TypeOK, PCB
<1>6. CASE UNCHANGED pcb
  BY <1>1, <1>6
<1> QED
  BY <1>1, <1>3, <1>4, <1>5, <1>6
     DEF Next, Processing, EndOfFile, BeginUpdate, PutBack, EndUpdate, Idle, Close

\* RunningHasBudget over every step.
LEMMA BudgetStep == Inv /\ RunningHasBudget /\ [Next]_vars => RunningHasBudget'
<1> SUFFICES ASSUME Inv, RunningHasBudget, [Next]_vars PROVE RunningHasBudget'
  OBVIOUS
<1>1. CASE UNCHANGED vars
  BY <1>1 DEF RunningHasBudget, vars
<1>2. CASE Next /\ ~ Processing
  BY <1>2, ProcessorUntouched DEF RunningHasBudget
<1>3. CASE Processing
  <2>1. PICK p \in Pid, table \in [Pid -> PCB], rest \in ReadyQueues : Chosen(p, table, rest)
    BY <1>3, ProcessingChosen
  <2>2. SUFFICES ASSUME current' # NULL PROVE RunningHasBudget'
    BY DEF RunningHasBudget
  <2>3. /\ current' = p
        /\ pcb'[p].remaining = pcb[p].remaining - 1
        /\ pcb'[p].remaining # 0
        /\ pcb'[p].priority = pcb[p].priority
        /\ pcb'[p].slice = table[p].slice - 1
        /\ pcb'[p].priority # 0 => pcb'[p].slice # 0
    BY <2>1, <2>2, ChosenEffect
  <2>4. pcb[p].priority \in 0 .. 3 /\ pcb[p].remaining \in Int /\ pcb[p].slice \in Int
    BY DEF Inv, TypeOK, PCB
  <2>5. CASE p = current
    <3>1. p # NULL /\ table[p].slice = pcb[p].slice
      BY <2>1, <2>5, PidNotNull DEF Chosen
    <3>2. /\ pcb[p].priority = 0 => pcb[p].slice = pcb[p].remaining
          /\ pcb[p].priority # 0 => pcb[p].slice \in 1 .. TimeQuantum[pcb[p].priority] - 1
      BY <2>5, <3>1 DEF RunningHasBudget
    <3>3. /\ pcb'[p].priority = 0 => pcb'[p].slice = pcb'[p].remaining
          /\ pcb'[p].priority # 0 => pcb'[p].slice \in 1 .. TimeQuantum[pcb'[p].priority] - 1
      BY <2>3, <2>4, <3>1, <3>2 DEF TimeQuantum
    <3> QED
      BY <2>3, <3>3 DEF RunningHasBudget
  <2>6. CASE p # current
    <3>1. table[p].slice = IF pcb[p].priority = 0 THEN pcb[p].remaining
                           ELSE TimeQuantum[pcb[p].priority]
      BY <2>1, <2>6 DEF Chosen
    <3>2. /\ pcb'[p].priority = 0 => pcb'[p].slice = pcb'[p].remaining
          /\ pcb'[p].priority # 0 => pcb'[p].slice \in 1 .. TimeQuantum[pcb'[p].priority] - 1
      BY <2>3, <2>4, <3>1 DEF TimeQuantum
    <3> QED
      BY <2>3, <3>2 DEF RunningHasBudget
  <2> QED
    BY <2>5, <2>6
<1> QED
  BY <1>1, <1>2, <1>3

\* Between two ticks the process on the processor has time and slice left
\* (hostd.c:154-181).
THEOREM BudgetKept == Spec => []RunningHasBudget
<1>1. Init => RunningHasBudget
  BY DEF Init, RunningHasBudget
<1> QED
  BY <1>1, BudgetStep, Invariance, PTL DEF Spec

\* A real time process is never taken off the processor before its end
\* (hostd.c:101).
THEOREM RealTimeUnbroken == Spec => RealTimeRunsToCompletion
<1> DEFINE Step == current # NULL /\ pcb[current].priority = 0 => current' = current \/ current \in freed'
<1>1. Inv /\ [Next]_vars => [Step]_vars
  <2> SUFFICES ASSUME Inv, Next PROVE Step
    OBVIOUS
  <2>1. CASE ~ Processing
    BY <2>1, ProcessorUntouched
  <2>2. CASE Processing
    <3>1. PICK p \in Pid, table \in [Pid -> PCB], rest \in ReadyQueues : Chosen(p, table, rest)
      BY <2>2, ProcessingChosen
    <3>2. current # NULL /\ pcb[current].priority = 0 => p = current
      BY <3>1 DEF Chosen
    <3>3. pcb[p].priority = 0 => current' = p \/ p \in freed'
      BY <3>1, ChosenEffect
    <3> QED
      BY <3>2, <3>3
  <2> QED
    BY <2>1, <2>2
<1> QED
  BY <1>1, Invariance, PTL DEF Spec, RealTimeRunsToCompletion

\* The tick of a real time admission is spent on a real time process
\* (hostd.c:99-129).
THEOREM RealTimeServedFirst == Spec => RealTimeFirst
<1> DEFINE Step == pc = "process" /\ rtUpdated =>
                     \E p \in Pid : pcb[p].priority = 0 /\ pcb'[p].remaining = pcb[p].remaining - 1
<1>1. Inv /\ [Next]_vars => [Step]_vars
  <2> SUFFICES ASSUME Inv, Next, pc = "process", rtUpdated
               PROVE  \E p \in Pid : pcb[p].priority = 0 /\ pcb'[p].remaining = pcb[p].remaining - 1
    OBVIOUS
  <2>1. HasProcess(ready[0])
    BY DEF Inv, RealTimeReady
  <2>2. Processing
    BY <2>1 DEF Next, Processing, ReadLine, EndOfFile, BeginUpdate, NextTurn, PutBack, Admit, Refuse,
                EndUpdate, Idle, Close
  <2>3. PICK p \in Pid, table \in [Pid -> PCB], rest \in ReadyQueues : Chosen(p, table, rest)
    BY <2>2, ProcessingChosen
  <2>4. pcb[p].priority = 0
    BY <2>3 DEF Chosen
  <2>5. pcb'[p].remaining = pcb[p].remaining - 1
    BY <2>3, ChosenEffect
  <2> QED
    BY <2>4, <2>5
<1> QED
  BY <1>1, Invariance, PTL DEF Spec, RealTimeFirst

-----------------------------------------------------------------------------
(***************************************************************************)
(* The waiting processes                                                   *)
(***************************************************************************)

WaitingKept ==
  [][\A p \in Waiting : \/ p \in Waiting'
                        \/ p \in Processes(ready[pcb[p].priority])'
                        \/ pc' = "done"]_vars

\* A process that waits keeps waiting until it is in the queue of its priority,
\* whatever is refused (hostd.c:218-256): the overwriting enqueue of queue.c
\* never strikes the dispatcher queue, only the ready queues.
THEOREM WaitingStays == Spec => WaitingKept
<1> DEFINE Stays(p) == \/ p \in Waiting'
                       \/ p \in Processes(ready[pcb[p].priority])'
                       \/ pc' = "done"
<1>1. Inv /\ [Next]_vars => [\A p \in Waiting : Stays(p)]_vars
  <2> SUFFICES ASSUME Inv, Next, NEW p \in Waiting PROVE Stays(p)
    OBVIOUS
  <2>1. CASE ReadLine
    <3>1. /\ pc = "read" /\ pc' = "read" /\ dispatcher' = enqueueProcess(dispatcher, pid)
          /\ dispatcher \in Seq(Node(Pid)) /\ OpenQueue(dispatcher)
          /\ pid \in Pid
      BY <2>1 DEF ReadLine, Inv, TypeOK, WaitLists, Pid
    <3>2. pid \notin Processes(dispatcher)
      BY <3>1, MaxProcessesAssumption DEF Inv, AllRead, Waiting, Pid
    <3>3. Processes(dispatcher') = Processes(dispatcher) \cup {pid}
      BY <3>1, <3>2, PidNotNull, EnqueueProcess DEF OpenQueue
    <3> QED
      BY <3>1, <3>3 DEF Waiting
  <2>2. CASE EndOfFile
    BY <2>2 DEF EndOfFile, Waiting
  <2>3. CASE BeginUpdate
    BY <2>3 DEF BeginUpdate, Waiting
  <2>4. CASE PutBack \/ Refuse
    <3>1. /\ NextTurn /\ pc' = pc
          /\ newDispatcher' = enqueueProcess(newDispatcher, Scanned)
      BY <2>4 DEF PutBack, Refuse
    <3>2. /\ pc = "scan" /\ Scanned \in Pid /\ Scanned \notin Processes(newDispatcher)
          /\ Processes(queuePtr') = Processes(queuePtr) \ {Scanned}
          /\ OpenQueue(newDispatcher) /\ newDispatcher \in Seq(Node(Pid))
      BY <3>1, TurnEffect DEF Inv, TypeOK, WaitLists
    <3>3. Processes(newDispatcher') = Processes(newDispatcher) \cup {Scanned}
      BY <3>1, <3>2, PidNotNull, EnqueueProcess DEF OpenQueue
    <3> QED
      BY <3>1, <3>2, <3>3 DEF Waiting
  <2>5. CASE Admit
    <3>1. /\ NextTurn /\ pc' = pc /\ newDispatcher' = newDispatcher
          /\ pcb' = [pcb EXCEPT ![Scanned].io = Noted(@, CursorOf(Scanned))]
          /\ ready' = enqueueToPriority(ready, Scanned, pcb[Scanned].priority)
      BY <2>5 DEF Admit
    <3>2. /\ pc = "scan" /\ Scanned \in Pid /\ Scanned \notin Live
          /\ Processes(queuePtr') = Processes(queuePtr) \ {Scanned}
      BY <3>1, TurnEffect
    <3>3. CASE p # Scanned
      BY <3>1, <3>2, <3>3 DEF Waiting
    <3>4. CASE p = Scanned
      <4>1. /\ pcb[p].priority \in Level /\ pcb'[p].priority = pcb[p].priority
        BY <3>1, <3>2, <3>4 DEF Inv, TypeOK, PCB, Level
      <4>2. /\ ready \in ReadyQueues /\ p \notin Queued(ready)
            /\ \A j \in Level : WellFormed(ready[j])
        BY <3>2, <3>4, LivePids, Placement DEF Inv, TypeOK, ReadyQueues, Sorted
      <4>3. p \in Processes(enqueueToPriority(ready, p, pcb[p].priority)[pcb[p].priority])
        BY <3>2, <3>4, <4>1, <4>2, EnqueueToPriority
      <4> QED
        BY <3>1, <3>4, <4>1, <4>3
    <3> QED
      BY <3>3, <3>4
  <2>6. CASE EndUpdate
    BY <2>6 DEF EndUpdate, Inv, WaitLists, Waiting
  <2>7. CASE Processing
    BY <2>7 DEF Processing, Preempt, Continue, DispatchRealTime, DispatchUser, NextTick, scan, Waiting
  <2>8. CASE Idle
    BY <2>8 DEF Idle, NextTick, scan, Waiting
  <2>9. CASE Close
    BY <2>9 DEF Close
  <2> QED
    BY <2>1, <2>2, <2>3, <2>4, <2>5, <2>6, <2>7, <2>8, <2>9 DEF Next, Processing
<1> QED
  BY <1>1, Invariance, PTL DEF Spec, WaitingKept

\* An enqueue behind smaller pids keeps a queue in order.
LEMMA EnqueueInOrder ==
  ASSUME NEW queue \in Seq(Node(Pid)), OpenQueue(queue), InOrder(queue),
         NEW p \in Pid, \A q \in Processes(queue) : q < p
  PROVE  InOrder(enqueueProcess(queue, p))
<1>1. /\ Len(queue) \in Nat \ {0} /\ DOMAIN queue = 1 .. Len(queue)
      /\ \A i \in DOMAIN queue : queue[i] \in Node(Pid)
  BY EmptySeq, LenProperties, ElementOfSeq DEF OpenQueue, NullQueue
<1>2. CASE ~ queue[1].isHead
  <2>1. Len(queue) = 1
    BY <1>1, <1>2 DEF OpenQueue, Marked, WellFormed
  <2>2. \A i \in DOMAIN enqueueProcess(queue, p) : i = 1
    BY <1>1, <1>2, <2>1 DEF enqueueProcess
  <2> QED
    BY <2>2 DEF InOrder
<1>3. CASE queue[1].isHead
  <2> DEFINE node == [isHead |-> FALSE, process |-> p]
             n    == Len(queue)
  <2>1. enqueueProcess(queue, p) = Append(queue, node)
    BY <1>3 DEF enqueueProcess
  <2>2. node \in Node(Pid)
    BY DEF Node
  <2>3. \A i \in DOMAIN queue : queue[i].process < p
    <3>1. SUFFICES ASSUME NEW i \in DOMAIN queue PROVE queue[i].process \in Processes(queue)
      OBVIOUS
    <3>2. queue[i].process # NULL
      BY <1>1, <1>3, <3>1 DEF OpenQueue, WellFormed
    <3> QED
      BY <3>1, <3>2 DEF Processes
  <2> HIDE DEF node
  <2>4. /\ DOMAIN Append(queue, node) = 1 .. n + 1
        /\ \A i \in 1 .. n : Append(queue, node)[i] = queue[i]
        /\ Append(queue, node)[n + 1] = node
    BY <1>1, <2>2
  <2>5. node.process = p
    BY DEF node
  <2> HIDE DEF n
  <2>6. n \in Nat \ {0} /\ DOMAIN queue = 1 .. n
    BY <1>1 DEF n
  <2> DEFINE result == Append(queue, node)
  <2> HIDE DEF result
  <2>7. ASSUME NEW i \in DOMAIN result, NEW j \in DOMAIN result, i < j
        PROVE  result[i].process < result[j].process
    <3>1. i \in 1 .. n /\ result[i] = queue[i]
      BY <2>4, <2>6, <2>7 DEF result
    <3>2. CASE j \in 1 .. n
      BY <2>4, <2>6, <2>7, <3>1, <3>2 DEF result, InOrder
    <3>3. CASE j = n + 1
      BY <2>3, <2>4, <2>5, <2>6, <3>1, <3>3 DEF result
    <3> QED
      BY <2>4, <2>6, <2>7, <3>2, <3>3 DEF result
  <2> QED
    BY <2>1, <2>7 DEF InOrder, result
<1> QED
  BY <1>2, <1>3

\* The queues made by initializeQueue, and no queue at all, are in order.
LEMMA ShortInOrder ==
  InOrder(NullQueue) /\ InOrder(initializeQueue)
BY DEF InOrder, NullQueue, initializeQueue

\* A turn of the loop takes the smallest pid and leaves the others in order.
LEMMA TurnInOrder ==
  ASSUME Inv, NextTurn, InOrder(queuePtr)
  PROVE  /\ InOrder(queuePtr')
         /\ \A q \in Processes(queuePtr') : Scanned < q
<1>1. /\ queuePtr \in Seq(Node(Pid)) /\ WellFormed(queuePtr) /\ HasProcess(queuePtr)
      /\ queuePtr' = dequeueProcess(queuePtr)
  BY DEF NextTurn, Inv, TypeOK, WaitLists
<1>2. /\ queuePtr' \in Seq(Node(Pid))
      /\ Len(queuePtr') = Len(queuePtr) - 1
      /\ \A n \in 1 .. Len(queuePtr) - 1 : queuePtr'[n] = queuePtr[n + 1]
  BY <1>1, PidNotNull, DequeueProcess
<1>3. /\ Len(queuePtr) \in Nat /\ DOMAIN queuePtr = 1 .. Len(queuePtr)
      /\ DOMAIN queuePtr' = 1 .. Len(queuePtr) - 1
  BY <1>1, <1>2, LenProperties
<1>4. \A n \in DOMAIN queuePtr' : n + 1 \in DOMAIN queuePtr /\ queuePtr'[n] = queuePtr[n + 1]
  BY <1>2, <1>3
<1>5. InOrder(queuePtr')
  BY <1>3, <1>4 DEF InOrder
<1>6. ASSUME NEW q \in Processes(queuePtr') PROVE Scanned < q
  <2>1. PICK n \in DOMAIN queuePtr' : queuePtr'[n].process = q
    BY <1>6 DEF Processes
  <2>2. /\ n + 1 \in DOMAIN queuePtr /\ queuePtr[n + 1].process = q /\ 1 \in DOMAIN queuePtr
        /\ 1 < n + 1
    BY <1>3, <1>4, <2>1
  <2> QED
    BY <2>2 DEF InOrder, Scanned
<1> QED
  BY <1>5, <1>6

\* WaitingInOrder over every step.
LEMMA OrderStep == Inv /\ WaitingInOrder /\ [Next]_vars => WaitingInOrder'
<1> SUFFICES ASSUME Inv, WaitingInOrder, [Next]_vars PROVE WaitingInOrder'
  OBVIOUS
<1>1. IF pc = "scan"
      THEN /\ InOrder(queuePtr)
           /\ InOrder(newDispatcher)
           /\ \A p \in Processes(newDispatcher), q \in Processes(queuePtr) : p < q
      ELSE InOrder(dispatcher)
  BY DEF WaitingInOrder
<1> USE DEF WaitingInOrder
<1>3. CASE ReadLine
  <2>1. /\ pc = "read" /\ pc' = "read" /\ dispatcher' = enqueueProcess(dispatcher, pid)
        /\ dispatcher \in Seq(Node(Pid)) /\ OpenQueue(dispatcher)
        /\ pid \in Pid
    BY <1>3 DEF ReadLine, Inv, TypeOK, WaitLists, Pid
  <2>2. \A q \in Processes(dispatcher) : q < pid
    BY <2>1 DEF Inv, AllRead, Waiting, TypeOK
  <2> QED
    BY <1>1, <2>1, <2>2, EnqueueInOrder
<1>4. CASE EndOfFile
  BY <1>1, <1>4 DEF EndOfFile
<1>5. CASE BeginUpdate
  <2>1. /\ pc = "update" /\ pc' = "scan" /\ queuePtr' = dispatcher /\ newDispatcher' = initializeQueue
        /\ Processes(newDispatcher') = {}
    BY <1>5, InitializeQueue DEF BeginUpdate
  <2> QED
    BY <1>1, <2>1, ShortInOrder
<1>6. CASE PutBack \/ Refuse
  <2>1. NextTurn /\ pc' = pc /\ newDispatcher' = enqueueProcess(newDispatcher, Scanned)
    BY <1>6 DEF PutBack, Refuse
  <2>2. /\ pc = "scan" /\ Scanned \in Pid
        /\ Scanned \in Processes(queuePtr) /\ Scanned \notin Processes(newDispatcher)
        /\ Processes(queuePtr') = Processes(queuePtr) \ {Scanned}
        /\ OpenQueue(newDispatcher) /\ newDispatcher \in Seq(Node(Pid))
    BY <2>1, TurnEffect DEF Inv, TypeOK, WaitLists
  <2>3. InOrder(queuePtr') /\ \A q \in Processes(queuePtr') : Scanned < q
    BY <1>1, <2>1, <2>2, TurnInOrder
  <2>4. \A p \in Processes(newDispatcher) : p < Scanned
    BY <1>1, <2>2
  <2>5. InOrder(newDispatcher')
    BY <1>1, <2>1, <2>2, <2>4, EnqueueInOrder
  <2>6. Processes(newDispatcher') = Processes(newDispatcher) \cup {Scanned}
    BY <2>1, <2>2, PidNotNull, EnqueueProcess DEF OpenQueue
  <2> QED
    BY <1>1, <2>1, <2>2, <2>3, <2>5, <2>6
<1>7. CASE Admit
  <2>1. NextTurn /\ pc' = pc /\ newDispatcher' = newDispatcher
    BY <1>7 DEF Admit
  <2>2. pc = "scan" /\ Processes(queuePtr') \subseteq Processes(queuePtr)
    BY <2>1, TurnEffect
  <2>3. InOrder(queuePtr')
    BY <1>1, <2>1, <2>2, TurnInOrder
  <2> QED
    BY <1>1, <2>1, <2>2, <2>3
<1>8. CASE EndUpdate
  BY <1>1, <1>8 DEF EndUpdate
<1>9. CASE Processing \/ Idle
  <2>1. pc = "process" /\ pc' = "update" /\ dispatcher' = dispatcher
    BY <1>9 DEF Processing, Preempt, Continue, DispatchRealTime, DispatchUser, Idle, NextTick
  <2> QED
    BY <1>1, <2>1
<1>10. CASE Close
  BY <1>10, ShortInOrder DEF Close
<1>11. CASE UNCHANGED vars
  BY <1>1, <1>11 DEF vars, scan
<1> QED
  BY <1>3, <1>4, <1>5, <1>6, <1>7, <1>8, <1>9, <1>10, <1>11 DEF Next, Processing

\* The waiting processes stay in the order of the job file (hostd.c:218-256).
THEOREM WaitingOrdered == Spec => []WaitingInOrder
<1>1. Init => WaitingInOrder
  BY ShortInOrder DEF Init, WaitingInOrder
<1> QED
  BY <1>1, OrderStep, Invariance, PTL DEF Spec

-----------------------------------------------------------------------------
(***************************************************************************)
(* The dispatcher implements Lifecycle: every step of it is a step in the  *)
(* life of one process, or of none, for every job file and host.           *)
(***************************************************************************)
\* The real time processes among those read, as Life maps them.
Urgent == {q \in 1 .. pid - 1 : pcb[q].priority = 0}

\* An enqueue keeps every process of the queue but one at most (queue.c:24-38).
LEMMA EnqueueLosesOne ==
  ASSUME NEW S, NULL \notin S, NEW queue \in Seq(Node(S)), queue # NullQueue,
         WellFormed(queue), NEW p \in S, p \notin Processes(queue)
  PROVE  \E victim \in Processes(queue) \cup {p} :
           Processes(enqueueProcess(queue, p)) = (Processes(queue) \ {victim}) \cup {p}
<1>1. CASE Marked(queue)
  <2>1. Processes(enqueueProcess(queue, p)) = (Processes(queue) \ {p}) \cup {p}
    BY <1>1, EnqueueProcess
  <2> QED
    BY <2>1
<1>2. CASE ~ Marked(queue)
  <2> DEFINE node   == [isHead |-> TRUE, process |-> p]
             result == [queue EXCEPT ![1] = node]
             victim == queue[1].process
  <2>1. Len(queue) \in Nat \ {0} /\ 1 \in 1 .. Len(queue) /\ DOMAIN queue = 1 .. Len(queue)
    BY EmptySeq, LenProperties DEF NullQueue
  <2>2. enqueueProcess(queue, p) = result /\ victim # NULL
    BY <1>2 DEF enqueueProcess, Marked
  <2>3. /\ DOMAIN result = 1 .. Len(queue)
        /\ result[1].process = p
        /\ \A n \in 1 .. Len(queue) : n # 1 => result[n].process = queue[n].process
    BY <2>1
  <2>4. victim \in Processes(queue)
    BY <2>1, <2>2 DEF Processes
  <2>5. \A n \in 1 .. Len(queue) : n # 1 => queue[n].process # victim
    BY <2>1 DEF WellFormed
  <2> HIDE DEF result, victim
  <2>6. Processes(result) \subseteq (Processes(queue) \ {victim}) \cup {p}
    BY <2>1, <2>3, <2>5 DEF Processes
  <2>7. Processes(queue) \ {victim} \subseteq Processes(result)
    <3> SUFFICES ASSUME NEW x \in Processes(queue), x # victim PROVE x \in Processes(result)
      OBVIOUS
    <3>1. PICK n \in 1 .. Len(queue) : x = queue[n].process /\ x # NULL
      BY <2>1 DEF Processes
    <3>2. n # 1
      BY <3>1 DEF victim
    <3> QED
      BY <2>3, <3>1, <3>2 DEF Processes
  <2>8. p \in Processes(result)
    BY <2>1, <2>3 DEF Processes
  <2> QED
    BY <2>2, <2>4, <2>6, <2>7, <2>8
<1> QED
  BY <1>1, <1>2

\* enqueueToPriority costs the ready queues one process of that priority at most.
LEMMA ToPriorityLosesOne ==
  ASSUME NEW queues \in ReadyQueues, NEW pcbs, Sorted(queues, pcbs),
         NEW p \in Pid, NEW k \in Level, p \notin Queued(queues)
  PROVE  \E victim \in Queued(queues) \cup {p} :
           /\ victim # p => pcbs[victim].priority = k
           /\ Queued(enqueueToPriority(queues, p, k)) = (Queued(queues) \ {victim}) \cup {p}
<1> DEFINE old    == IF queues[k] = NullQueue THEN initializeQueue ELSE queues[k]
           result == enqueueToPriority(queues, p, k)
<1>1. Processes(NullQueue) = {}
  BY EmptySeq DEF NullQueue, Processes
<1>2. /\ old \in Seq(Node(Pid))
      /\ old # NullQueue
      /\ WellFormed(old)
      /\ Processes(old) = Processes(queues[k])
  BY <1>1, InitializeQueue DEF ReadyQueues, Sorted
<1>3. p \notin Processes(old)
  BY <1>2 DEF Queued
<1> HIDE DEF old
<1>4. PICK victim \in Processes(old) \cup {p} :
        Processes(enqueueProcess(old, p)) = (Processes(old) \ {victim}) \cup {p}
  BY <1>2, <1>3, PidNotNull, EnqueueLosesOne
<1>5. result = [queues EXCEPT ![k] = enqueueProcess(old, p)]
  BY DEF enqueueToPriority, old
<1>6. /\ \A j \in Level : j # k => result[j] = queues[j]
      /\ result[k] = enqueueProcess(old, p)
  BY <1>5 DEF ReadyQueues
<1> HIDE DEF result
<1>7. victim \in Queued(queues) \cup {p} /\ (victim # p => pcbs[victim].priority = k)
  BY <1>2, <1>4 DEF Queued, Sorted
<1>8. \A j \in Level : j # k => victim \notin Processes(queues[j])
  BY <1>3, <1>4, <1>7 DEF Sorted, Queued
<1>9. \A j \in Level : j # k => Processes(result[j]) = Processes(queues[j]) \ {victim}
  BY <1>6, <1>8
<1>10. Processes(result[k]) = (Processes(queues[k]) \ {victim}) \cup {p}
  BY <1>2, <1>4, <1>6
<1>11. Queued(result) = (Queued(queues) \ {victim}) \cup {p}
  BY <1>9, <1>10 DEF Queued
<1> QED
  BY <1>7, <1>11 DEF result

-----------------------------------------------------------------------------
(***************************************************************************)
(* A time unit                                                             *)
(***************************************************************************)

\* What a time unit of p does to the places of the processes.
Spent(p, others) ==
  \/ current' = p /\ Queued(ready') = others /\ freed' = freed
  \/ current' = NULL /\ Queued(ready') = others /\ freed' = freed \cup {p}
  \/ /\ pcb[p].priority # 0 /\ current' = NULL /\ freed' = freed
     /\ \E victim \in others \cup {p} :
          /\ victim # p => pcb[victim].priority # 0
          /\ Queued(ready') = (others \ {victim}) \cup {p}

SamePriorities(table) == \A q \in Pid : table[q].priority = pcb[q].priority

\* The second half of doProcessing (hostd.c:150-181).
LEMMA RunSpends ==
  ASSUME TypeOK,
         NEW table \in [Pid -> PCB], NEW queues \in ReadyQueues, Sorted(queues, table),
         NEW p \in Pid, p \notin Queued(queues),
         SamePriorities(table),
         RunProcess(p, table, queues)
  PROVE  Spent(p, Queued(queues))
<1> DEFINE ran == [table EXCEPT ![p] = Ticked(@)]
<1>1. ran[p].priority = pcb[p].priority /\ pcb[p].priority \in 0 .. 3
  BY TickedFields DEF SamePriorities, TypeOK, PCB
<1>2. ASSUME NEW k \in 1 .. 3, ran[p].priority # 0,
             ready' = enqueueToPriority(queues, p, k), current' = NULL, freed' = freed
      PROVE  Spent(p, Queued(queues))
  <2>1. k \in Level
    BY DEF Level
  <2>2. PICK victim \in Queued(queues) \cup {p} :
          /\ victim # p => table[victim].priority = k
          /\ Queued(enqueueToPriority(queues, p, k)) = (Queued(queues) \ {victim}) \cup {p}
    BY <2>1, ToPriorityLosesOne
  <2>3. victim \in Pid
    BY ProcessesArePids DEF Queued, ReadyQueues
  <2>4. victim # p => pcb[victim].priority # 0
    BY <2>2, <2>3 DEF SamePriorities
  <2> QED
    BY <1>1, <1>2, <2>2, <2>4 DEF Spent
<1>3. \/ freed' = freed \cup {p} /\ current' = NULL /\ ready' = queues
      \/ /\ ran[p].priority \in {1, 2}
         /\ ready' = enqueueToPriority(queues, p, ran[p].priority + 1)
         /\ current' = NULL /\ freed' = freed
      \/ /\ ran[p].priority = 3
         /\ ready' = enqueueToPriority(queues, p, 1)
         /\ current' = NULL /\ freed' = freed
      \/ current' = p /\ ready' = queues /\ freed' = freed
  BY DEF RunProcess
<1> HIDE DEF ran
<1>4. CASE ran[p].priority \in {1, 2} /\ ready' = enqueueToPriority(queues, p, ran[p].priority + 1)
           /\ current' = NULL /\ freed' = freed
  <2>1. ran[p].priority + 1 \in 1 .. 3 /\ ran[p].priority # 0
    BY <1>4
  <2> QED
    BY <1>2, <1>4, <2>1
<1>5. CASE ran[p].priority = 3 /\ ready' = enqueueToPriority(queues, p, 1)
           /\ current' = NULL /\ freed' = freed
  BY <1>2, <1>5
<1>6. CASE ready' = queues
  BY <1>3, <1>4, <1>5, <1>6 DEF Spent
<1> QED
  BY <1>3, <1>4, <1>5, <1>6

\* The process at the head of a queue, dispatched for a time unit.
LEMMA DispatchSpends ==
  ASSUME TypeOK,
         NEW pcbs \in [Pid -> PCB], NEW queues \in ReadyQueues, Sorted(queues, pcbs),
         SamePriorities(pcbs),
         NEW k \in Level, HasProcess(queues[k]), NEW slice \in Int,
         Dispatch(k, slice, pcbs, queues)
  PROVE  \E p \in Queued(queues) :
           /\ p \in Pid /\ pcb[p].priority = k
           /\ Spent(p, Queued(queues) \ {p})
<1>1. PICK p : p = queues[k][1].process
  OBVIOUS
<1>2. /\ p \in Pid
      /\ p \in Queued(queues)
      /\ pcbs[p].priority = k
      /\ \E table \in [Pid -> PCB], rest \in ReadyQueues :
           HeadTaken(p, slice, pcbs, queues, table, rest)
  BY <1>1, DispatchEffect
<1>3. PICK table \in [Pid -> PCB], rest \in ReadyQueues :
        HeadTaken(p, slice, pcbs, queues, table, rest)
  BY <1>2
<1>4. /\ Sorted(rest, table)
      /\ Queued(rest) = Queued(queues) \ {p}
      /\ RunProcess(p, table, rest)
      /\ SamePriorities(table)
  BY <1>2, <1>3 DEF HeadTaken, SamePriorities
<1>5. Spent(p, Queued(rest))
  BY <1>2, <1>4, RunSpends
<1> QED
  BY <1>2, <1>4, <1>5 DEF SamePriorities

-----------------------------------------------------------------------------
(***************************************************************************)
(* From the steps of Dispatcher to those of Lifecycle                      *)
(***************************************************************************)

\* A time unit, seen from Lifecycle.
LEMMA SpentIsSpend ==
  ASSUME NEW p \in Pid, NEW others, Spent(p, others),
         pid' = pid, Urgent' = Urgent, Waiting' = Waiting, pc # "done", pc' # "done"
  PROVE  Life!Spend(p, others)
<1>1. Ready' = Queued(ready') /\ p # NULL
  BY PidNotNull DEF Ready, Queued
<1>2. (pid .. MaxProcesses)' = pid .. MaxProcesses /\ (pc # "done")' = (pc # "done")
  OBVIOUS
<1>3. Urgent = {q \in 1 .. pid - 1 : pcb[q].priority = 0}
  BY DEF Urgent
<1>4. ASSUME pcb[p].priority # 0, NEW victim \in others \cup {p},
             victim # p => pcb[victim].priority # 0
      PROVE  (others \ {victim}) \cup {p} \in Life!Joined(others, p) /\ p \notin Urgent
  BY <1>3, <1>4 DEF Life!Joined
<1>5. /\ \/ {current'} \ {NULL} = {p} /\ Ready' = others /\ freed' = freed
         \/ {current'} \ {NULL} = {} /\ Ready' = others /\ freed' = freed \cup {p}
         \/ /\ p \notin Urgent /\ {current'} \ {NULL} = {}
            /\ Ready' \in Life!Joined(others, p) /\ freed' = freed
  BY <1>1, <1>4 DEF Spent
<1> QED
  BY <1>2, <1>3, <1>5 DEF Life!Spend, Urgent

\* doProcessing (hostd.c:95-183) serves one process, in one of three ways.
LEMMA ProcessingLives == Inv /\ Processing => Life!Next
<1> SUFFICES ASSUME Inv, Processing PROVE Life!Next
  OBVIOUS
<1> USE DEF Inv
<1>1. /\ pc = "process" /\ pc' = "update" /\ pid' = pid
      /\ UNCHANGED << dispatcher, queuePtr, newDispatcher >>
  BY DEF Processing, Preempt, Continue, DispatchRealTime, DispatchUser, NextTick, scan
<1>2. Waiting' = Waiting
  BY <1>1 DEF Waiting
<1>3. \A q \in Pid : pcb'[q].priority = 0 <=> pcb[q].priority = 0
  BY ProcessingChosen, ChosenEffect
<1>4. pid - 1 \in 0 .. MaxProcesses /\ 1 .. pid - 1 \subseteq Pid
  BY MaxProcessesAssumption DEF TypeOK, Pid
<1>5. Urgent' = Urgent
  BY <1>1, <1>3, <1>4 DEF Urgent
<1>6. /\ ready \in ReadyQueues
      /\ Sorted(ready, pcb)
      /\ pcb \in [Pid -> PCB]
      /\ Live \subseteq Pid
      /\ current \notin Queued(ready)
      /\ current # NULL => current \in Pid /\ current \in Live
      /\ Ready = Queued(ready) /\ Ready \subseteq Live
      /\ Live \subseteq 1 .. pid - 1
  BY Placement, LivePids DEF TypeOK, ReadyQueues, Live, AllRead, Ready, Queued
<1>7. Urgent = {q \in 1 .. pid - 1 : pcb[q].priority = 0}
  BY DEF Urgent
<1>8. \A q \in Pid : pcb[q].remaining \in Int /\ pcb[q].priority \in Level
  BY <1>6 DEF PCB, Level
<1>9. CASE Preempt
  <2> DEFINE k      == pcb[current].priority
             queues == enqueueToPriority(ready, current, k)
             pcbs   == [pcb EXCEPT ![current].state = "SUSPENDED"]
             slice  == pcb[queues[0][1].process].remaining
  <2>1. /\ current \in Pid /\ current \in Live /\ k # 0 /\ rtUpdated /\ k \in Level
        /\ Dispatch(0, slice, pcbs, queues)
    BY <1>6, <1>8, <1>9 DEF Preempt, Yields
  <2>2. pcbs \in [Pid -> PCB] /\ SamePriorities(pcbs)
    BY <1>6, <2>1 DEF PCB, State, SamePriorities
  <2>3. current \in Pid /\ current \notin Queued(ready) /\ \A j \in Level : WellFormed(ready[j])
    BY <1>6, <2>1 DEF Sorted
  <2>4. /\ queues \in ReadyQueues
        /\ \A j \in Level : j # k => queues[j] = ready[j]
        /\ WellFormed(queues[k])
        /\ Processes(queues[k]) \subseteq Processes(ready[k]) \cup {current}
    <3> HIDE DEF k
    <3> QED
      BY <1>6, <2>1, <2>3, EnqueueToPriority
  <2>5. PICK victim \in Queued(ready) \cup {current} :
          /\ victim # current => pcb[victim].priority = k
          /\ Queued(queues) = (Queued(ready) \ {victim}) \cup {current}
    <3> HIDE DEF k
    <3> QED
      BY <1>6, <2>1, <2>3, ToPriorityLosesOne
  <2>6. Sorted(queues, pcbs)
    <3> HIDE DEF queues, pcbs
    <3>1. \A j \in Level : WellFormed(queues[j])
      BY <2>3, <2>4
    <3>2. ASSUME NEW j \in Level, NEW q \in Processes(queues[j]) PROVE pcbs[q].priority = j
      <4>1. q \in Pid
        BY <2>4, ProcessesArePids DEF ReadyQueues
      <4>2. q \in Processes(ready[j]) \/ (j = k /\ q = current)
        BY <2>4
      <4> QED
        BY <1>6, <2>2, <4>1, <4>2 DEF Sorted, SamePriorities
    <3> QED
      BY <3>1, <3>2 DEF Sorted
  <2>7. HasProcess(queues[0]) /\ 0 \in Level
    <3> HIDE DEF queues, k
    <3>1. 0 \in Level /\ HasProcess(ready[0])
      BY <1>1, <2>1 DEF Level, RealTimeReady
    <3> QED
      BY <2>1, <2>4, <3>1
  <2>8. slice \in Int
    <3> HIDE DEF queues, pcbs
    <3>1. queues[0][1].process \in Pid
      BY <2>4, <2>6, <2>7, DequeueReady
    <3> QED
      BY <1>8, <3>1
  <2> HIDE DEF slice, queues, pcbs
  <2>9. PICK p \in Queued(queues) :
          p \in Pid /\ pcb[p].priority = 0 /\ Spent(p, Queued(queues) \ {p})
    BY <2>1, <2>2, <2>4, <2>6, <2>7, <2>8, DispatchSpends
  <2>10. Life!Spend(p, Queued(queues) \ {p})
    BY <1>1, <1>2, <1>5, <2>9, SpentIsSpend
  <2>11. current \in ({current} \ {NULL}) \ Urgent
    BY <1>7, <2>1, PidNotNull
  <2>12. victim \in {q \in Ready \cup {current} : q \in Urgent <=> current \in Urgent}
    BY <1>6, <1>7, <2>1, <2>5
  <2>13. Queued(queues) \in Life!Joined(Ready, current)
    BY <1>6, <1>7, <2>5, <2>12 DEF Life!Joined
  <2>14. p \in Queued(queues) \cap Urgent
    BY <1>6, <1>7, <2>1, <2>5, <2>9
  <2>15. Life!Preempt
    BY <1>7, <2>10, <2>11, <2>13, <2>14 DEF Life!Preempt
  <2> QED
    BY <1>1, <2>15 DEF Life!Next
<1>10. CASE Continue
  <2>1. current \in Pid /\ RunProcess(current, pcb, ready)
    BY <1>6, <1>10 DEF Continue
  <2>2. Spent(current, Ready)
    BY <1>6, <2>1, RunSpends DEF SamePriorities
  <2>3. Life!Spend(current, Ready)
    BY <1>1, <1>2, <1>5, <2>1, <2>2, SpentIsSpend
  <2>4. current \in {current} \ {NULL}
    BY <2>1, PidNotNull
  <2> QED
    BY <1>1, <2>3, <2>4 DEF Life!Next, Life!Continue
<1>11. ASSUME NEW k \in Level, NEW slice \in Int, current = NULL, HasProcess(ready[k]),
              Dispatch(k, slice, pcb, ready)
       PROVE  Life!Next
  <2>1. PICK p \in Ready : p \in Pid /\ Spent(p, Ready \ {p})
    BY <1>6, <1>11, DispatchSpends DEF SamePriorities
  <2>2. Life!Spend(p, Ready \ {p})
    BY <1>1, <1>2, <1>5, <2>1, SpentIsSpend
  <2>3. {current} \ {NULL} = {}
    BY <1>11
  <2> QED
    BY <1>1, <2>1, <2>2, <2>3 DEF Life!Next, Life!Dispatch
<1>12. CASE DispatchRealTime
  <2>1. /\ current = NULL /\ HasProcess(ready[0]) /\ 0 \in Level
        /\ Dispatch(0, pcb[ready[0][1].process].remaining, pcb, ready)
    BY <1>12 DEF DispatchRealTime, Level
  <2>2. pcb[ready[0][1].process].remaining \in Int
    BY <1>6, <1>8, <2>1, DequeueReady
  <2> QED
    BY <1>11, <2>1, <2>2
<1>13. CASE DispatchUser
  <2>1. PICK k \in 1 .. 3 : HasProcess(ready[k]) /\ Dispatch(k, TimeQuantum[k], pcb, ready)
    BY <1>13 DEF DispatchUser
  <2>2. current = NULL /\ k \in Level /\ TimeQuantum[k] \in Int
    BY <1>13 DEF DispatchUser, Level, TimeQuantum
  <2> QED
    BY <1>11, <2>1, <2>2
<1> QED
  BY <1>9, <1>10, <1>12, <1>13 DEF Processing

\* A turn of readFile (readFile.c:27-71) reads one process.
LEMMA ReadLineLives == Inv /\ ReadLine => Life!Next
<1> SUFFICES ASSUME Inv, ReadLine PROVE Life!Next
  OBVIOUS
<1> USE DEF Inv
<1>1. /\ pc = "read" /\ pc' = "read" /\ pid' = pid + 1
      /\ pid \in 1 .. MaxProcesses /\ pid \in Pid
      /\ dispatcher' = enqueueProcess(dispatcher, pid)
      /\ UNCHANGED << ready, current, freed >>
  BY MaxProcessesAssumption DEF ReadLine, TypeOK, Pid
<1>2. Waiting = Processes(dispatcher) /\ Waiting' = Processes(dispatcher')
  BY <1>1 DEF Waiting
<1>3. pid \notin Processes(dispatcher)
  BY <1>1, <1>2 DEF AllRead
<1>4. Waiting' = Waiting \cup {pid}
  BY <1>1, <1>2, <1>3, PidNotNull, EnqueueProcess DEF WaitLists, OpenQueue, TypeOK
<1>5. \A q \in 1 .. pid - 1 : pcb'[q] = pcb[q]
  <2>1. PICK job \in Job : pcb' = [pcb EXCEPT ![pid] = FromLine(job)]
    BY DEF ReadLine
  <2>2. \A q \in 1 .. pid - 1 : q \in Pid /\ q # pid
    BY <1>1, MaxProcessesAssumption DEF Pid
  <2> QED
    BY <2>1, <2>2 DEF TypeOK
<1>6. 1 .. pid' - 1 = (1 .. pid - 1) \cup {pid} /\ pid \notin 1 .. pid - 1
  BY <1>1
<1>7. Urgent' = Urgent \/ Urgent' = Urgent \cup {pid}
  <2>1. Urgent' = {q \in (1 .. pid - 1) \cup {pid} : pcb'[q].priority = 0}
    BY <1>6 DEF Urgent
  <2>2. \A q \in 1 .. pid - 1 : q \in Urgent' <=> q \in Urgent
    BY <1>5, <2>1 DEF Urgent
  <2>3. Urgent' \subseteq (1 .. pid - 1) \cup {pid} /\ Urgent \subseteq 1 .. pid - 1
    BY <2>1 DEF Urgent
  <2> QED
    BY <2>2, <2>3
<1>8. (pid .. MaxProcesses)' = (pid .. MaxProcesses) \ {pid} /\ pid \in pid .. MaxProcesses
  BY <1>1, MaxProcessesAssumption
<1>9. Ready' = Ready /\ ({current} \ {NULL})' = {current} \ {NULL}
  BY <1>1 DEF Ready
<1>10. Life!Read
  BY <1>1, <1>4, <1>7, <1>8, <1>9 DEF Life!Read, Urgent
<1> QED
  BY <1>1, <1>10 DEF Life!Next

\* An admission (hostd.c:219-247) moves one process from the waiting to the ready.
LEMMA AdmitLives == Inv /\ Admit => Life!Next
<1> SUFFICES ASSUME Inv, Admit PROVE Life!Next
  OBVIOUS
<1> USE DEF Inv
<1> DEFINE p == Scanned
           k == pcb[p].priority
<1>1. /\ NextTurn /\ pc' = pc /\ pid' = pid
      /\ pcb' = [pcb EXCEPT ![p].io = Noted(@, CursorOf(p))]
      /\ ready' = enqueueToPriority(ready, p, k)
      /\ UNCHANGED << newDispatcher, current, freed >>
  BY DEF Admit
<1>2. /\ pc = "scan"
      /\ p \in Pid
      /\ p \in Processes(queuePtr)
      /\ p \notin Processes(newDispatcher)
      /\ p \notin Live
      /\ p \in 1 .. pid - 1
      /\ Processes(queuePtr') = Processes(queuePtr) \ {p}
  BY <1>1, TurnEffect
<1> HIDE DEF p
<1>3. k \in Level
  BY <1>2 DEF TypeOK, PCB, Level
<1>4. \A q \in Pid : pcb'[q].priority = pcb[q].priority
  BY <1>1, <1>2, AttemptTypes
<1>5. /\ Sorted(ready, pcb) /\ ready \in ReadyQueues /\ p \notin Queued(ready)
      /\ Ready = Queued(ready) /\ Ready' = Queued(ready') /\ Ready \subseteq 1 .. pid - 1
  BY <1>2, Placement, LivePids DEF TypeOK, ReadyQueues, Ready, Queued, AllRead
<1>6. PICK victim \in Ready \cup {p} :
        /\ victim # p => pcb[victim].priority = k
        /\ Ready' = (Ready \ {victim}) \cup {p}
  <2> HIDE DEF k
  <2> QED
    BY <1>1, <1>2, <1>3, <1>5, ToPriorityLosesOne
<1>7. 1 .. pid - 1 \subseteq Pid
  BY MaxProcessesAssumption DEF TypeOK, Pid
<1>8. Urgent' = Urgent /\ Urgent = {q \in 1 .. pid - 1 : pcb[q].priority = 0}
  BY <1>1, <1>4, <1>7 DEF Urgent
<1>9. victim \in {q \in Ready \cup {p} : q \in Urgent <=> p \in Urgent}
  BY <1>2, <1>5, <1>6, <1>8
<1>10. Ready' \in Life!Joined(Ready, p)
  BY <1>6, <1>8, <1>9 DEF Life!Joined
<1>11. p \in Waiting /\ Waiting' = Waiting \ {p}
  BY <1>1, <1>2 DEF Waiting
<1>12. ({current} \ {NULL})' = {current} \ {NULL} /\ (pc # "done")' = (pc # "done")
       /\ (pid .. MaxProcesses)' = pid .. MaxProcesses
  BY <1>1
<1>13. Life!Admit
  BY <1>1, <1>8, <1>10, <1>11, <1>12 DEF Life!Admit, Urgent
<1> QED
  BY <1>2, <1>13 DEF Life!Next

\* closeSystem (hostd.c:329-336) ends the processes that still wait.
LEMMA CloseLives == Inv /\ Close => Life!Next
<1> SUFFICES ASSUME Inv, Close PROVE Life!Next
  OBVIOUS
<1>1. /\ pc = "update" /\ pc' = "done"
      /\ freed' = freed \cup Processes(dispatcher) /\ dispatcher' = NullQueue
      /\ UNCHANGED << pid, pcb, ready, current >>
  BY DEF Close
<1>2. Waiting = Processes(dispatcher) /\ Waiting' = {}
  BY <1>1, EmptySeq DEF Waiting, NullQueue, Processes
<1>3. /\ Ready' = Ready /\ ({current} \ {NULL})' = {current} \ {NULL}
      /\ (pid .. MaxProcesses)' = pid .. MaxProcesses
      /\ Urgent' = Urgent
  BY <1>1 DEF Ready, Urgent
<1>4. Life!Close
  BY <1>1, <1>2, <1>3 DEF Life!Close, Urgent
<1> QED
  BY <1>1, <1>4 DEF Life!Next

\* Every other step of the program is none of Lifecycle: a process that is put
\* back or refused (hostd.c:223-250) waits as before.
LEMMA OthersStutter ==
  ASSUME Inv, EndOfFile \/ BeginUpdate \/ PutBack \/ Refuse \/ EndUpdate \/ Idle \/ UNCHANGED vars
  PROVE  UNCHANGED Life!vars
<1> USE DEF Inv
<1>1. /\ pc # "done" => pc' # "done"
      /\ pc = "done" => pc' = "done"
      /\ pid' = pid /\ ready' = ready /\ current' = current /\ freed' = freed
  BY DEF EndOfFile, BeginUpdate, PutBack, Refuse, EndUpdate, Idle, NextTurn, NextTick, vars
<1>2. \A q \in Pid : pcb'[q].priority = pcb[q].priority
  <2>1. CASE Refuse
    BY <2>1, AttemptTypes, TurnEffect DEF Refuse
  <2>2. CASE ~ Refuse
    BY <2>2 DEF EndOfFile, BeginUpdate, PutBack, EndUpdate, Idle, vars
  <2> QED
    BY <2>1, <2>2
<1>3. 1 .. pid - 1 \subseteq Pid
  BY MaxProcessesAssumption DEF TypeOK, Pid
<1>4. Urgent' = Urgent
  BY <1>1, <1>2, <1>3 DEF Urgent
<1>5. Waiting' = Waiting
  <2>1. CASE PutBack \/ Refuse
    <3>1. /\ NextTurn /\ pc' = pc
          /\ newDispatcher' = enqueueProcess(newDispatcher, Scanned)
      BY <2>1 DEF PutBack, Refuse
    <3>2. /\ pc = "scan" /\ Scanned \in Pid /\ Scanned \notin Processes(newDispatcher)
          /\ Scanned \in Processes(queuePtr)
          /\ Processes(queuePtr') = Processes(queuePtr) \ {Scanned}
          /\ OpenQueue(newDispatcher) /\ newDispatcher \in Seq(Node(Pid))
      BY <3>1, TurnEffect DEF TypeOK, WaitLists
    <3>3. Processes(newDispatcher') = Processes(newDispatcher) \cup {Scanned}
      BY <3>1, <3>2, PidNotNull, EnqueueProcess DEF OpenQueue
    <3> QED
      BY <3>1, <3>2, <3>3 DEF Waiting
  <2>2. CASE BeginUpdate
    <3>1. Processes(initializeQueue) = {}
      BY InitializeQueue
    <3> QED
      BY <2>2, <3>1 DEF BeginUpdate, Waiting
  <2>3. CASE EndUpdate
    BY <2>3 DEF EndUpdate, WaitLists, Waiting
  <2>4. CASE EndOfFile \/ Idle \/ UNCHANGED vars
    BY <2>4 DEF EndOfFile, Idle, NextTick, scan, vars, Waiting
  <2> QED
    BY <2>1, <2>2, <2>3, <2>4
<1>6. Ready' = Ready
  BY <1>1 DEF Ready
<1> QED
  BY <1>1, <1>4, <1>5, <1>6 DEF Life!vars, Urgent
-----------------------------------------------------------------------------

\* initSystem (hostd.c:301-324) has read nothing.
LEMMA InitLives == Init => Life!Init
<1> SUFFICES ASSUME Init PROVE Life!Init
  OBVIOUS
<1>1. Processes(initializeQueue) = {} /\ Pid = 1 .. MaxProcesses
  BY InitializeQueue DEF Pid
<1>2. Waiting = {} /\ Ready = {}
  BY <1>1 DEF Init, Waiting, Ready
<1>3. {q \in 1 .. pid - 1 : pcb[q].priority = 0} = {}
  BY DEF Init
<1> QED
  BY <1>1, <1>2, <1>3 DEF Init, Life!Init

\* The dispatcher implements Lifecycle: whatever the job file and the host, each
\* process waits, becomes ready, and runs until its end, and an enqueue costs
\* one other process of its class at most (hostd.c:95-257, queue.c:24-38).
THEOREM LifeImplemented == Spec => ImplementsLifecycle
<1>1. Inv /\ [Next]_vars => [Life!Next]_(Life!vars)
  BY ReadLineLives, AdmitLives, CloseLives, ProcessingLives, OthersStutter DEF Next, Processing
<1> QED
  BY <1>1, InitLives, Invariance, PTL DEF Spec, ImplementsLifecycle, Life!Spec

-----------------------------------------------------------------------------
(***************************************************************************)
(* When the mark 0 can be trusted                                          *)
(***************************************************************************)

\* What resources.c:279 says of a cell marked 0, that no process is using it, is
\* so as long as no process that was read needs two kinds of resource.
THEOREM ZeroRightSingleKind == Spec => [](SingleKind => ZeroMeansUnused)
<1>1. Inv /\ ExclusiveWhenSingleKind => (SingleKind => ZeroMeansUnused)
  <2> SUFFICES ASSUME Inv, ExclusiveWhenSingleKind, SingleKind,
                      NEW p \in Live, NEW r \in Resource, NEW c \in Recorded(pcb[p].io, r)
               PROVE  alloc[r][c] # 0
    BY DEF ZeroMeansUnused
  <2>1. alloc[r][c] = p
    BY DEF SingleKind, ExclusiveWhenSingleKind
  <2> QED
    BY <2>1, PlacesRead
<1> QED
  BY <1>1, Invariance, ExclusiveUse, PTL

-----------------------------------------------------------------------------
(***************************************************************************)
(* Where the time units go                                                 *)
(***************************************************************************)

\* Off doProcessing no process that was read loses time or changes its queue,
\* and none is freed but by closeSystem.
LEMMA BudgetsUntouched ==
  ASSUME Inv, [Next]_vars, ~ Processing
  PROVE  /\ \A q \in 1 .. pid - 1 : /\ pcb'[q].remaining = pcb[q].remaining
                                    /\ pcb'[q].priority = pcb[q].priority
         /\ pc' = "done" \/ freed' = freed
<1> USE DEF Inv
<1>1. 1 .. pid - 1 \subseteq Pid
  BY MaxProcessesAssumption DEF TypeOK, Pid
<1>2. CASE ReadLine
  <2>1. PICK job \in Job : pcb' = [pcb EXCEPT ![pid] = FromLine(job)]
    BY <1>2 DEF ReadLine
  <2>2. freed' = freed
    BY <1>2 DEF ReadLine
  <2>3. \A q \in 1 .. pid - 1 : q # pid
    BY DEF TypeOK
  <2> QED
    BY <1>1, <2>1, <2>2, <2>3 DEF TypeOK
<1>3. CASE Admit
  <2>1. freed' = freed /\ pcb' = [pcb EXCEPT ![Scanned].io = Noted(@, CursorOf(Scanned))]
    BY <1>3 DEF Admit
  <2> QED
    BY <1>1, <2>1 DEF TypeOK, PCB
<1>4. CASE Refuse
  <2>1. freed' = freed
        /\ pcb' = [pcb EXCEPT ![Scanned].io = Noted(pcb[Scanned].io, CursorOf(Scanned))]
    BY <1>4 DEF Refuse
  <2> QED
    BY <1>1, <2>1 DEF TypeOK, PCB
<1>5. CASE pcb' = pcb /\ (pc' = "done" \/ freed' = freed)
  BY <1>5
<1> QED
  BY <1>2, <1>3, <1>4, <1>5
     DEF Next, Processing, EndOfFile, BeginUpdate, PutBack, EndUpdate, Idle, Close, vars

\* A time unit is taken from the process it is spent on and from no other, and
\* that process is freed only with the last one.
LEMMA ChosenCharged ==
  ASSUME Inv, NEW p \in Pid, NEW table \in [Pid -> PCB], NEW rest \in ReadyQueues,
         Chosen(p, table, rest)
  PROVE  /\ pcb'[p].remaining = pcb[p].remaining - 1
         /\ \A q \in Pid \ {p} : /\ pcb'[q].remaining = pcb[q].remaining
                                 /\ pcb'[q].priority = pcb[q].priority
         /\ freed' = freed \/ (freed' = freed \cup {p} /\ pcb'[p].remaining = 0)
<1>1. /\ RunProcess(p, table, rest) /\ Sorted(rest, table) /\ p \notin Queued(rest)
      /\ \A q \in Pid : /\ table[q].priority = pcb[q].priority
                        /\ table[q].remaining = pcb[q].remaining
  BY DEF Chosen
<1>2. /\ \A q \in Pid \ {p} : pcb'[q] = table[q]
      /\ pcb'[p].remaining = table[p].remaining - 1
  BY <1>1, RunEffect DEF Inv
<1>3. freed' = freed \/ (freed' = freed \cup {p} /\ pcb'[p].remaining = 0)
  <2> DEFINE ran == [table EXCEPT ![p] = Ticked(@)]
  <2>1. ran \in [Pid -> PCB]
    BY TickedFields
  <2>2. \/ freed' = freed
        \/ /\ ran[p].remaining = 0
           /\ pcb' = [ran EXCEPT ![p].state = "TERMINATED"]
           /\ freed' = freed \cup {p}
    BY <1>1 DEF RunProcess
  <2> HIDE DEF ran
  <2> QED
    BY <2>1, <2>2 DEF PCB
<1> QED
  BY <1>1, <1>2, <1>3

\* Time is spent on one process per tick of the clock, and on a live one.
TimeUnitOf(p) ==
  /\ pc = "process" /\ time' = time + 1
  /\ p \in Live
  /\ pcb'[p].remaining = pcb[p].remaining - 1
  /\ \A q \in 1 .. pid - 1 : q # p => pcb'[q].remaining = pcb[q].remaining

UnitByUnit ==
  [][\A p \in 1 .. pid - 1 : pcb'[p].remaining # pcb[p].remaining => TimeUnitOf(p)]_vars

\* Whatever is preempted, demoted or refused, the time a process has left changes
\* by one unit only, in a tick in which no other process gets any (hostd.c:95-183).
THEOREM TimeAccounted == Spec => UnitByUnit
<1> DEFINE Step == \A p \in 1 .. pid - 1 : pcb'[p].remaining # pcb[p].remaining => TimeUnitOf(p)
<1>1. Inv /\ [Next]_vars => [Step]_vars
  <2> SUFFICES ASSUME Inv, Next, NEW p \in 1 .. pid - 1, pcb'[p].remaining # pcb[p].remaining
               PROVE  TimeUnitOf(p)
    OBVIOUS
  <2>1. Processing
    BY BudgetsUntouched
  <2>2. PICK q \in Pid, table \in [Pid -> PCB], rest \in ReadyQueues : Chosen(q, table, rest)
    BY <2>1, ProcessingChosen
  <2>3. 1 .. pid - 1 \subseteq Pid
    BY PlacesRead
  <2>4. p = q
    BY <2>2, <2>3, ChosenCharged
  <2>5. pc = "process" /\ time' = time + 1 /\ q \in Live
    BY <2>2 DEF Chosen, NextTick
  <2> QED
    BY <2>2, <2>3, <2>4, <2>5, ChosenCharged DEF TimeUnitOf
<1> QED
  BY <1>1, Invariance, PTL DEF Spec, UnitByUnit

\* A process that ended had all its time.
EndedSpent == pc # "done" => \A p \in freed : pcb[p].remaining = 0

\* No process is freed before its line's processor time is spent, but by
\* closeSystem (hostd.c:161-167, 329-336).
THEOREM EndsWhenSpent == Spec => []EndedSpent
<1>1. Init => EndedSpent
  BY DEF Init, EndedSpent
<1>2. Inv /\ EndedSpent /\ [Next]_vars => EndedSpent'
  <2> SUFFICES ASSUME Inv, EndedSpent, [Next]_vars, pc' # "done", NEW p \in freed'
               PROVE  pcb'[p].remaining = 0
    BY DEF EndedSpent
  <2>1. pc # "done"
    BY DEF Next, ReadLine, EndOfFile, BeginUpdate, NextTurn, PutBack, Admit, Refuse, EndUpdate,
           Preempt, Continue, DispatchRealTime, DispatchUser, Idle, Close, vars
  <2>2. \A q \in freed : q \in 1 .. pid - 1 /\ q \in Pid /\ q \notin Live /\ pcb[q].remaining = 0
    BY <2>1, PlacesRead DEF Inv, AllRead, PlacedOnce, EndedSpent, TypeOK
  <2>3. CASE ~ Processing
    BY <2>2, <2>3, BudgetsUntouched
  <2>4. CASE Processing
    <3>1. PICK q \in Pid, table \in [Pid -> PCB], rest \in ReadyQueues : Chosen(q, table, rest)
      BY <2>4, ProcessingChosen
    <3>2. q \in Live
      BY <3>1 DEF Chosen
    <3> QED
      BY <2>2, <3>1, <3>2, ChosenCharged
  <2> QED
    BY <2>3, <2>4
<1> QED
  BY <1>1, <1>2, Invariance, PTL DEF Spec

-----------------------------------------------------------------------------
(***************************************************************************)
(* Who may wait to the end.  hostd.c:121 asks for an admission before it   *)
(* looks at the real time queue, and hostd.c:130-147 looks at a lower user *)
(* queue only when the pointers of the higher ones are NULL, which an      *)
(* unused queue is not.                                                    *)
(***************************************************************************)

\* A time unit requeues no real time process, and none into the real time queue.
LEMMA RunLeavesRealTime ==
  ASSUME NEW p \in Pid, NEW table \in [Pid -> PCB], NEW queues \in ReadyQueues,
         RunProcess(p, table, queues)
  PROVE  /\ ready'[0] = queues[0]
         /\ table[p].priority = 0 => ready' = queues
<1> DEFINE ran == [table EXCEPT ![p] = Ticked(@)]
<1>1. ran[p].priority = table[p].priority /\ table[p].priority \in 0 .. 3
  BY TickedFields DEF PCB
<1>2. \/ ready' = queues
      \/ ran[p].priority \in {1, 2} /\ ready' = enqueueToPriority(queues, p, ran[p].priority + 1)
      \/ ran[p].priority = 3 /\ ready' = enqueueToPriority(queues, p, 1)
  BY DEF RunProcess
<1> HIDE DEF ran
<1>3. ASSUME NEW k \in 1 .. 3 PROVE enqueueToPriority(queues, p, k)[0] = queues[0]
  BY DEF enqueueToPriority, ReadyQueues, Level
<1>4. ran[p].priority \in {1, 2} => ran[p].priority + 1 \in 1 .. 3
  OBVIOUS
<1> QED
  BY <1>1, <1>2, <1>3, <1>4

\* Without a line of priority 1 the queue of priority 1 stays as initSystem made
\* it (hostd.c:301-324), and only real time processes get to the processor.
FirstUnused ==
  /\ \A q \in 1 .. pid - 1 : pcb[q].priority # 1
  /\ ready[1] = initializeQueue
  /\ current # NULL => pcb[current].priority = 0

\* A tick then is spent on a real time process, or on none.
LEMMA OnlyRealTimeRuns ==
  ASSUME Inv, FirstUnused, Processing
  PROVE  /\ ready'[1] = ready[1]
         /\ \E p \in Pid, table \in [Pid -> PCB], rest \in ReadyQueues :
              Chosen(p, table, rest) /\ pcb[p].priority = 0
<1>1. /\ pcb \in [Pid -> PCB] /\ ready \in ReadyQueues /\ Sorted(ready, pcb)
      /\ current # NULL => current \in Pid
  BY Placement DEF Inv, TypeOK, ReadyQueues
<1>2. ~ Preempt
  BY DEF FirstUnused, Preempt, Yields
<1>3. ~ DispatchUser
  <2>1. ready[1] # NullQueue /\ ~ HasProcess(ready[1])
    BY DEF FirstUnused, initializeQueue, NullQueue, HasProcess
  <2>2. ASSUME NEW k \in 1 .. 3, FirstQueue(k) PROVE k = 1
    BY <2>1, <2>2 DEF FirstQueue
  <2> QED
    BY <2>1, <2>2 DEF DispatchUser
<1>4. PICK p \in Pid, table \in [Pid -> PCB], rest \in ReadyQueues : Chosen(p, table, rest)
  BY ProcessingChosen
<1>5. CASE Continue
  <2>1. /\ current \in Pid /\ pcb[current].priority = 0
        /\ RunProcess(current, pcb, ready)
    BY <1>1, <1>5 DEF Continue, FirstUnused
  <2>2. p = current
    BY <1>4, <2>1, PidNotNull DEF Chosen
  <2> QED
    BY <1>1, <1>4, <2>1, <2>2, RunLeavesRealTime
<1>6. CASE DispatchRealTime
  <2> DEFINE head   == ready[0][1].process
             queues == [ready EXCEPT ![0] = dequeueProcess(@)]
             pcbs   == [pcb EXCEPT ![head].slice = pcb[head].remaining]
  <2>1. rtUpdated /\ HasProcess(ready[0]) /\ 0 \in Level
    BY <1>6 DEF DispatchRealTime, Level
  <2>2. head \in Pid /\ pcb[head].priority = 0 /\ queues \in ReadyQueues
    BY <1>1, <2>1, DequeueReady
  <2>3. queues[1] = ready[1]
    BY <1>1 DEF ReadyQueues, Level
  <2>4. RunProcess(head, pcbs, queues)
    BY <1>6 DEF DispatchRealTime, Dispatch
  <2> HIDE DEF head, queues
  <2>5. pcbs \in [Pid -> PCB] /\ pcbs[head].priority = 0
    BY <1>1, <2>2 DEF PCB
  <2> HIDE DEF pcbs
  <2>6. ready' = queues
    BY <2>2, <2>4, <2>5, RunLeavesRealTime
  <2>7. pcb[p].priority = 0
    BY <1>4, <2>1 DEF Chosen
  <2> QED
    BY <1>4, <2>3, <2>6, <2>7
<1> QED
  BY <1>2, <1>3, <1>5, <1>6 DEF Processing

\* FirstUnused over every step, when no line has priority 1.
LEMMA FirstStaysUnused ==
  ASSUME \A job \in Job : job.priority # 1, Inv, FirstUnused, [Next]_vars
  PROVE  FirstUnused'
<1> USE DEF Inv
<1>1. 1 .. pid - 1 \subseteq Pid /\ (current # NULL => current \in 1 .. pid - 1)
  BY PlacesRead DEF Live
<1>2. CASE Processing
  <2>1. PICK p \in Pid, table \in [Pid -> PCB], rest \in ReadyQueues :
          Chosen(p, table, rest) /\ pcb[p].priority = 0
    BY <1>2, OnlyRealTimeRuns
  <2>2. ready'[1] = ready[1] /\ pid' = pid
    BY <1>2, <2>1, OnlyRealTimeRuns DEF Chosen
  <2>3. current' \in {p, NULL} /\ pcb'[p].priority = 0
    BY <2>1, ChosenEffect
  <2>4. \A q \in Pid \ {p} : pcb'[q].priority = pcb[q].priority
    BY <2>1, ChosenCharged
  <2> QED
    BY <1>1, <2>2, <2>3, <2>4 DEF FirstUnused
<1>3. CASE ~ Processing
  <2>1. current' = current /\ \A q \in 1 .. pid - 1 : pcb'[q].priority = pcb[q].priority
    BY <1>3, BudgetsUntouched DEF Next, Processing, ReadLine, EndOfFile, BeginUpdate, PutBack, Admit,
       Refuse, EndUpdate, Idle, Close, vars
  <2>2. current' # NULL => pcb'[current'].priority = 0
    BY <1>1, <2>1 DEF FirstUnused
  <2>3. \A q \in 1 .. pid' - 1 : pcb'[q].priority # 1
    <3>1. CASE ReadLine
      <4>1. PICK job \in Job : pcb' = [pcb EXCEPT ![pid] = FromLine(job)]
        BY <3>1 DEF ReadLine
      <4>2. pid \in Pid /\ pid' = pid + 1
        BY <3>1, MaxProcessesAssumption DEF ReadLine, TypeOK, Pid
      <4>3. pcb'[pid].priority = job.priority
        BY <4>1, <4>2 DEF TypeOK, FromLine, newPCB
      <4>4. 1 .. pid' - 1 = (1 .. pid - 1) \cup {pid}
        BY <4>2 DEF TypeOK
      <4>5. job.priority # 1 /\ \A q \in 1 .. pid - 1 : pcb'[q].priority # 1
        BY <2>1 DEF FirstUnused
      <4> QED
        BY <4>3, <4>4, <4>5
    <3>2. CASE ~ ReadLine
      <4>1. pid' = pid
        BY <1>3, <3>2 DEF Next, Processing, EndOfFile, BeginUpdate, PutBack, Admit, Refuse, EndUpdate,
           Idle, Close, vars
      <4> QED
        BY <2>1, <4>1 DEF FirstUnused
    <3> QED
      BY <3>1, <3>2
  <2>4. ready'[1] = ready[1]
    <3>1. CASE Admit
      <4>1. /\ NextTurn
            /\ ready' = enqueueToPriority(ready, Scanned, pcb[Scanned].priority)
        BY <3>1 DEF Admit
      <4>2. pcb[Scanned].priority # 1 /\ pcb[Scanned].priority \in Level
        BY <1>1, <4>1, TurnEffect DEF FirstUnused, TypeOK, PCB, Level
      <4> QED
        BY <4>1, <4>2 DEF enqueueToPriority, TypeOK, Level
    <3>2. CASE ready' = ready
      BY <3>2
    <3> QED
      BY <1>3, <3>1, <3>2 DEF Next, Processing, ReadLine, EndOfFile, BeginUpdate, PutBack, Refuse,
         EndUpdate, Idle, Close, vars
  <2> QED
    BY <2>2, <2>3, <2>4 DEF FirstUnused
<1> QED
  BY <1>2, <1>3

UsersGetNothing ==
  [][\A p \in 1 .. pid - 1 : pcb[p].priority # 0 => pcb'[p].remaining = pcb[p].remaining]_vars

\* With a job file that has no line of priority 1, no process of priority 2 or 3
\* is ever given a time unit: p1Queue is made by initSystem, so its pointer is
\* not NULL, and it never carries a process (hostd.c:130-147).
THEOREM UsersNeedFirst ==
  ASSUME \A job \in Job : job.priority # 1
  PROVE  Spec => UsersGetNothing
<1> DEFINE Step == \A p \in 1 .. pid - 1 :
                     pcb[p].priority # 0 => pcb'[p].remaining = pcb[p].remaining
<1>1. Init => FirstUnused
  BY DEF Init, FirstUnused, Level
<1>2. Inv /\ FirstUnused /\ [Next]_vars => FirstUnused'
  BY FirstStaysUnused
<1>3. Inv /\ FirstUnused /\ [Next]_vars => [Step]_vars
  <2> SUFFICES ASSUME Inv, FirstUnused, Next, NEW p \in 1 .. pid - 1, pcb[p].priority # 0
               PROVE  pcb'[p].remaining = pcb[p].remaining
    OBVIOUS
  <2>1. CASE ~ Processing
    BY <2>1, BudgetsUntouched
  <2>2. CASE Processing
    <3>1. PICK q \in Pid, table \in [Pid -> PCB], rest \in ReadyQueues :
            Chosen(q, table, rest) /\ pcb[q].priority = 0
      BY <2>2, OnlyRealTimeRuns
    <3>2. p \in Pid /\ p # q
      BY <3>1, PlacesRead
    <3> QED
      BY <3>1, <3>2, ChosenCharged
  <2> QED
    BY <2>1, <2>2
<1> QED
  BY <1>1, <1>2, <1>3, Invariance, PTL DEF Spec, UsersGetNothing

\* No real time process waits to be admitted, and none was in this tick.
NoneToAdmit ==
  /\ pc # "read"
  /\ pc \in {"scan", "process"} => ~ rtUpdated
  /\ \A p \in Waiting : pcb[p].priority # 0

Stranded == [][NoneToAdmit => NoneToAdmit' /\ ready'[0] = ready[0]]_vars

\* Once the file is read, only readFile could add to the processes that wait.
LEMMA WaitingShrinks ==
  ASSUME Inv, [Next]_vars, ~ ReadLine
  PROVE  Waiting' \subseteq Waiting
<1>1. CASE Admit
  <2>1. NextTurn /\ pc' = pc /\ newDispatcher' = newDispatcher
    BY <1>1 DEF Admit
  <2> QED
    BY <2>1, TurnEffect DEF Waiting
<1>2. CASE Refuse
  BY <1>2, OthersStutter DEF Life!vars
<1>3. CASE Processing
  BY <1>3 DEF Processing, Preempt, Continue, DispatchRealTime, DispatchUser, NextTick, scan, Waiting
<1> QED
  BY <1>1, <1>2, <1>3, BystanderPlaces DEF Next, Processing

\* The processes left in the real time queue when the last real time admission is
\* over stay there, to the end, in the order they have: hostd.c:121 looks at that
\* queue only in a tick of an admission.
THEOREM RealTimeStranded == Spec => Stranded
<1>1. Inv /\ [Next]_vars => [NoneToAdmit => NoneToAdmit' /\ ready'[0] = ready[0]]_vars
  <2> SUFFICES ASSUME Inv, Next, NoneToAdmit PROVE NoneToAdmit' /\ ready'[0] = ready[0]
    OBVIOUS
  <2> USE DEF Inv
  <2>1. pc # "read" /\ ~ ReadLine /\ pc' # "read"
    BY DEF NoneToAdmit, Next, ReadLine, EndOfFile, BeginUpdate, NextTurn, PutBack, Admit, Refuse,
           EndUpdate, Preempt, Continue, DispatchRealTime, DispatchUser, Idle, NextTick, Close
  <2>2. Waiting' \subseteq Waiting /\ Waiting \subseteq 1 .. pid - 1 /\ Waiting \subseteq Pid
        /\ Waiting \cap Live = {}
    BY <2>1, WaitingShrinks, PlacesRead DEF PlacedOnce
  <2>3. ready \in ReadyQueues /\ pcb \in [Pid -> PCB] /\ Sorted(ready, pcb)
        /\ (current # NULL => current \in Pid)
    BY Placement DEF TypeOK, ReadyQueues
  <2>4. CASE Processing
    <3>1. ~ rtUpdated /\ pc = "process"
      BY <2>4 DEF NoneToAdmit, Processing, Preempt, Continue, DispatchRealTime, DispatchUser
    <3>2. PICK p \in Pid, table \in [Pid -> PCB], rest \in ReadyQueues : Chosen(p, table, rest)
      BY <2>4, ProcessingChosen
    <3>3. \A q \in Waiting : pcb'[q].priority = pcb[q].priority
      BY <2>2, <3>2, ChosenCharged DEF Chosen
    <3>4. NoneToAdmit'
      <4>1. \A q \in Waiting' : pcb'[q].priority # 0
        BY <2>2, <3>3 DEF NoneToAdmit
      <4>2. pc' = "update"
        BY <3>2 DEF Chosen, NextTick
      <4> QED
        BY <4>1, <4>2 DEF NoneToAdmit
    <3>5. CASE Continue
      BY <2>3, <3>4, <3>5, RunLeavesRealTime DEF Continue
    <3>6. CASE DispatchUser
      <4>1. PICK k \in 1 .. 3 : HasProcess(ready[k]) /\ Dispatch(k, TimeQuantum[k], pcb, ready)
        BY <3>6 DEF DispatchUser
      <4> DEFINE head   == ready[k][1].process
                 queues == [ready EXCEPT ![k] = dequeueProcess(@)]
                 pcbs   == [pcb EXCEPT ![head].slice = TimeQuantum[k]]
      <4>2. k \in Level /\ TimeQuantum[k] \in Int
        BY DEF Level, TimeQuantum
      <4>3. RunProcess(head, pcbs, queues)
        BY <4>1 DEF Dispatch
      <4>4. head \in Pid /\ queues \in ReadyQueues
        BY <2>3, <4>1, <4>2, DequeueReady
      <4>5. queues[0] = ready[0]
        BY <2>3, <4>2 DEF ReadyQueues, Level
      <4> HIDE DEF head, queues
      <4>6. pcbs \in [Pid -> PCB]
        BY <2>3, <4>2, <4>4 DEF PCB
      <4> HIDE DEF pcbs
      <4> QED
        BY <3>4, <4>3, <4>4, <4>5, <4>6, RunLeavesRealTime
    <3> QED
      BY <2>4, <3>1, <3>4, <3>5, <3>6 DEF Processing, Preempt, DispatchRealTime
  <2>5. CASE ~ Processing
    <3>1. \A q \in Waiting : pcb'[q].priority = pcb[q].priority
      BY <2>2, <2>5, BudgetsUntouched
    <3>2. \A q \in Waiting' : pcb'[q].priority # 0
      BY <2>2, <3>1 DEF NoneToAdmit
    <3>3. CASE Admit
      <4>1. /\ NextTurn /\ pc' = pc
            /\ rtUpdated' = (rtUpdated \/ pcb[Scanned].priority = 0)
            /\ ready' = enqueueToPriority(ready, Scanned, pcb[Scanned].priority)
        BY <3>3 DEF Admit
      <4>2. pc = "scan" /\ Scanned \in Waiting /\ Scanned \in Pid
        BY <4>1, TurnEffect DEF Waiting
      <4>3. pcb[Scanned].priority \in 1 .. 3
        BY <2>3, <4>2 DEF NoneToAdmit, PCB
      <4>4. ready'[0] = ready[0]
        BY <2>3, <4>1, <4>3 DEF enqueueToPriority, ReadyQueues, Level
      <4> QED
        BY <2>1, <3>2, <4>1, <4>2, <4>3, <4>4 DEF NoneToAdmit
    <3>4. CASE ~ Admit
      <4>1. ready' = ready
        BY <2>1, <2>5, <3>4 DEF Next, Processing, EndOfFile, BeginUpdate, PutBack, Refuse, EndUpdate,
           Idle, Close
      <4>2. pc' \in {"scan", "process"} => ~ rtUpdated'
        BY <2>1, <2>5, <3>4 DEF NoneToAdmit, Next, Processing, EndOfFile, BeginUpdate, NextTurn, PutBack,
           Refuse, EndUpdate, Idle, NextTick, Close
      <4> QED
        BY <2>1, <3>2, <4>1, <4>2 DEF NoneToAdmit
    <3> QED
      BY <3>3, <3>4
  <2> QED
    BY <2>4, <2>5
<1> QED
  BY <1>1, Invariance, PTL DEF Spec, Stranded

-----------------------------------------------------------------------------
(***************************************************************************)
(* Which processes are lost.  An enqueue that meets an unmarked node in    *)
(* front stores into it (queue.c:25-28): the proofs below show that this   *)
(* is the only way for a process to be lost.                               *)
(***************************************************************************)

\* Read, and nowhere any more.
Lost == (1 .. pid - 1) \ (Waiting \cup Live \cup freed)

\* p stood at the unmarked head of a queue, and another process took its node.
Overwritten(before, after, p) ==
  /\ HasProcess(before) /\ before[1].process = p /\ ~ before[1].isHead
  /\ after[1].isHead /\ after[1].process # p

\* enqueueToPriority keeps every queued process but the one it overwrites.
LEMMA ToPriorityKeeps ==
  ASSUME NEW queues \in ReadyQueues, NEW p \in Pid, NEW k \in Level,
         \A j \in Level : WellFormed(queues[j]), p \notin Queued(queues),
         NEW q \in Queued(queues)
  PROVE  \/ q \in Queued(enqueueToPriority(queues, p, k))
         \/ Overwritten(queues[k], enqueueToPriority(queues, p, k)[k], q)
<1> DEFINE result == enqueueToPriority(queues, p, k)
<1>1. PICK j \in Level : q \in Processes(queues[j])
  BY DEF Queued
<1>2. /\ queues[k] \in Seq(Node(Pid)) /\ WellFormed(queues[k])
      /\ p \notin Processes(queues[k]) /\ q # p
  BY DEF ReadyQueues, Queued
<1>3. CASE j # k
  <2>1. result[j] = queues[j]
    BY <1>3, EnqueueToPriority
  <2> QED
    BY <1>1, <2>1 DEF Queued
<1>4. CASE j = k
  <2>1. q \in Processes(queues[k])
    BY <1>1, <1>4
  <2>2. queues[k] # NullQueue
    BY <2>1, EmptySeq DEF NullQueue, Processes
  <2>3. result[k] = enqueueProcess(queues[k], p)
    BY <2>2 DEF enqueueToPriority, ReadyQueues
  <2> HIDE DEF result
  <2>4. CASE Marked(queues[k])
    <3>1. Processes(enqueueProcess(queues[k], p)) = Processes(queues[k]) \cup {p}
      BY <1>2, <2>2, <2>4, PidNotNull, EnqueueProcess
    <3>2. q \in Processes(result[k])
      BY <2>1, <2>3, <3>1
    <3> QED
      BY <3>2 DEF Queued, result
  <2>5. CASE ~ Marked(queues[k])
    <3> DEFINE queue == queues[k]
               node  == [isHead |-> TRUE, process |-> p]
               after == [queue EXCEPT ![1] = node]
    <3>1. /\ Len(queue) \in Nat \ {0} /\ 1 \in 1 .. Len(queue)
          /\ DOMAIN queue = 1 .. Len(queue)
      BY <1>2, <2>2, EmptySeq, LenProperties DEF NullQueue
    <3>2. ~ queue[1].isHead /\ queue[1].process # NULL
      BY <2>5 DEF Marked
    <3>3. result[k] = after
      BY <2>3, <3>2 DEF enqueueProcess
    <3> HIDE DEF queue
    <3>4. /\ DOMAIN after = 1 .. Len(queue)
          /\ after[1].process = p /\ after[1].isHead
          /\ \A n \in 1 .. Len(queue) : n # 1 => after[n].process = queue[n].process
      BY <3>1
    <3> HIDE DEF after
    <3>5. PICK n \in 1 .. Len(queue) : q = queue[n].process /\ q # NULL
      BY <2>1, <3>1 DEF Processes, queue
    <3>6. CASE n = 1
      <4>1. HasProcess(queue)
        BY <2>2, <3>2 DEF HasProcess, queue
      <4> QED
        BY <1>2, <3>2, <3>3, <3>4, <3>5, <3>6, <4>1 DEF Overwritten, queue, result
    <3>7. CASE n # 1
      <4>1. q \in Processes(after)
        BY <3>4, <3>5, <3>7 DEF Processes
      <4> QED
        BY <3>3, <4>1 DEF Queued, result
    <3> QED
      BY <3>6, <3>7
  <2> QED
    BY <2>4, <2>5
<1> QED
  BY <1>3, <1>4

\* A time unit of p overwrites a process of another queue than p's at most, and
\* none if p is a real time process.
LEMMA RunKeeps ==
  ASSUME NEW table \in [Pid -> PCB], NEW queues \in ReadyQueues, Sorted(queues, table),
         NEW p \in Pid, p \notin Queued(queues), RunProcess(p, table, queues),
         NEW q \in Queued(queues) \cup {p}
  PROVE  \/ q \in Queued(ready') \/ q = current' \/ q \in freed'
         \/ /\ table[p].priority # 0
            /\ \E k \in 1 .. 3 : k # table[p].priority /\ Overwritten(queues[k], ready'[k], q)
<1> DEFINE ran == [table EXCEPT ![p] = Ticked(@)]
<1>1. ran[p].priority = table[p].priority
  BY TickedFields
<1>2. \/ freed' = freed \cup {p} /\ ready' = queues
      \/ ran[p].priority \in {1, 2} /\ ready' = enqueueToPriority(queues, p, ran[p].priority + 1)
      \/ ran[p].priority = 3 /\ ready' = enqueueToPriority(queues, p, 1)
      \/ current' = p /\ ready' = queues
  BY DEF RunProcess
<1> HIDE DEF ran
<1>3. ASSUME NEW k \in 1 .. 3, ready' = enqueueToPriority(queues, p, k)
      PROVE  q \in Queued(ready') \/ Overwritten(queues[k], ready'[k], q)
  <2>1. k \in Level /\ \A j \in Level : WellFormed(queues[j])
    BY DEF Level, Sorted
  <2>2. CASE q = p
    <3>1. p \in Processes(ready'[k])
      BY <1>3, <2>1, EnqueueToPriority
    <3> QED
      BY <2>1, <2>2, <3>1 DEF Queued
  <2>3. CASE q \in Queued(queues)
    BY <1>3, <2>1, <2>3, ToPriorityKeeps
  <2> QED
    BY <2>2, <2>3
<1>4. ran[p].priority \in {1, 2} => ran[p].priority + 1 \in 1 .. 3 /\ ran[p].priority + 1 # ran[p].priority
  OBVIOUS
<1> QED
  BY <1>1, <1>2, <1>3, <1>4

\* The same for the process at the head of queue k.
LEMMA DispatchKeeps ==
  ASSUME NEW pcbs \in [Pid -> PCB], NEW queues \in ReadyQueues, Sorted(queues, pcbs),
         NEW k \in Level, HasProcess(queues[k]), NEW slice \in Int,
         Dispatch(k, slice, pcbs, queues), NEW q \in Queued(queues)
  PROVE  /\ \/ q \in Queued(ready') \/ q = current' \/ q \in freed'
            \/ k # 0 /\ \E j \in 1 .. 3 : Overwritten(queues[j], ready'[j], q)
         /\ k = 0 => \A j \in 1 .. 3 : ready'[j] = queues[j]
<1> DEFINE head  == queues[k][1].process
           rest  == [queues EXCEPT ![k] = dequeueProcess(@)]
           table == [pcbs EXCEPT ![head].slice = slice]
<1>1. /\ rest \in ReadyQueues /\ Sorted(rest, pcbs)
      /\ head \in Pid
      /\ head \in Queued(queues)
      /\ pcbs[head].priority = k
      /\ Queued(rest) = Queued(queues) \ {head}
  <2>1. rest \in ReadyQueues /\ Sorted(rest, pcbs)
    BY DequeueReady
  <2>2. head \in Pid
    BY DequeueReady
  <2>3. head \in Queued(queues)
    BY DequeueReady
  <2>4. pcbs[head].priority = k
    <3>1. queues[k] \in Seq(Node(Pid)) /\ WellFormed(queues[k])
      BY DEF ReadyQueues, Sorted
    <3>2. head \in Processes(queues[k])
      BY <3>1, PidNotNull, DequeueProcess
    <3> HIDE DEF head
    <3> QED
      BY <3>2 DEF Sorted
  <2>5. Queued(rest) = Queued(queues) \ {head}
    BY DequeueReady
  <2> HIDE DEF head, rest
  <2> QED
    BY <2>1, <2>2, <2>3, <2>4, <2>5
<1>2. \A j \in 1 .. 3 : j # k => rest[j] = queues[j]
  BY DEF ReadyQueues, Level
<1>3. RunProcess(head, table, rest)
  BY DEF Dispatch
<1> HIDE DEF head, rest
<1>4. /\ table \in [Pid -> PCB] /\ table[head].priority = k
      /\ \A p \in Pid : table[p].priority = pcbs[p].priority
  BY <1>1 DEF PCB
<1> HIDE DEF table
<1>5. Queued(rest) \subseteq Pid
  BY <1>1, ProcessesArePids DEF Queued, ReadyQueues
<1>6. Sorted(rest, table)
  BY <1>1, <1>4, <1>5 DEF Sorted, Queued
<1>7. q \in Queued(rest) \cup {head} /\ head \notin Queued(rest)
  BY <1>1
<1>8. \/ q \in Queued(ready') \/ q = current' \/ q \in freed'
      \/ k # 0 /\ \E j \in 1 .. 3 : j # k /\ Overwritten(rest[j], ready'[j], q)
  BY <1>1, <1>3, <1>4, <1>6, <1>7, RunKeeps
<1>9. k = 0 => ready' = rest
  BY <1>1, <1>3, <1>4, RunLeavesRealTime
<1> QED
  BY <1>2, <1>8, <1>9

\* A process that leaves the ready queues or the processor has ended or was
\* overwritten.
LEMMA LiveAccounted ==
  ASSUME Inv, [Next]_vars, NEW q \in Live
  PROVE  \/ q \in Live' \/ q \in freed'
         \/ \E k \in Level : Overwritten(ready[k], ready'[k], q)
<1> USE DEF Inv
<1>1. /\ ready \in ReadyQueues /\ Sorted(ready, pcb) /\ pcb \in [Pid -> PCB]
      /\ \A j \in Level : WellFormed(ready[j])
      /\ current \notin Queued(ready)
      /\ current # NULL => current \in Pid
      /\ \A p \in Pid : pcb[p].remaining \in Int /\ pcb[p].priority \in Level
  BY Placement DEF TypeOK, ReadyQueues, Sorted, PCB, Level
<1>2. Live = Queued(ready) \cup ({current} \ {NULL})
      /\ Live' = Queued(ready') \cup ({current'} \ {NULL})
  BY DEF Live, Ready, Queued
<1>3. q \in Pid /\ q # NULL
  BY LivePids, PidNotNull
<1>4. 1 .. 3 \subseteq Level /\ 0 \in Level
  BY DEF Level
<1>5. CASE Admit
  <2>1. /\ NextTurn /\ current' = current
        /\ ready' = enqueueToPriority(ready, Scanned, pcb[Scanned].priority)
    BY <1>5 DEF Admit
  <2>2. Scanned \in Pid /\ Scanned \notin Queued(ready)
    BY <1>2, <2>1, TurnEffect
  <2>3. pcb[Scanned].priority \in Level
    BY <1>1, <2>2
  <2>4. CASE q \in Queued(ready)
    <3>1. \/ q \in Queued(ready')
          \/ Overwritten(ready[pcb[Scanned].priority], ready'[pcb[Scanned].priority], q)
      BY <1>1, <2>1, <2>2, <2>3, <2>4, ToPriorityKeeps
    <3> QED
      BY <1>2, <2>3, <3>1
  <2> QED
    BY <1>2, <2>1, <2>4
<1>6. CASE Continue
  <2>1. current # NULL /\ current \in Pid /\ RunProcess(current, pcb, ready)
    BY <1>1, <1>6 DEF Continue
  <2>2. q \in Queued(ready) \cup {current}
    BY <1>2
  <2>3. \/ q \in Queued(ready') \/ q = current' \/ q \in freed'
        \/ \E k \in 1 .. 3 : Overwritten(ready[k], ready'[k], q)
    BY <1>1, <2>1, <2>2, RunKeeps
  <2> QED
    BY <1>2, <1>3, <1>4, <2>3
<1>7. CASE DispatchRealTime
  <2>1. current = NULL /\ HasProcess(ready[0])
    BY <1>7 DEF DispatchRealTime
  <2> DEFINE slice == pcb[ready[0][1].process].remaining
  <2>2. slice \in Int
    BY <1>1, <1>4, <2>1, DequeueReady
  <2>3. Dispatch(0, slice, pcb, ready)
    BY <1>7 DEF DispatchRealTime
  <2> HIDE DEF slice
  <2>4. q \in Queued(ready') \/ q = current' \/ q \in freed'
    BY <1>1, <1>2, <1>4, <2>1, <2>2, <2>3, DispatchKeeps
  <2> QED
    BY <1>2, <1>3, <2>4
<1>8. CASE DispatchUser
  <2>1. PICK k \in 1 .. 3 : HasProcess(ready[k]) /\ Dispatch(k, TimeQuantum[k], pcb, ready)
    BY <1>8 DEF DispatchUser
  <2>2. current = NULL /\ k \in Level /\ TimeQuantum[k] \in Int
    BY <1>8 DEF DispatchUser, Level, TimeQuantum
  <2>3. \/ q \in Queued(ready') \/ q = current' \/ q \in freed'
        \/ \E j \in 1 .. 3 : Overwritten(ready[j], ready'[j], q)
    BY <1>1, <1>2, <2>1, <2>2, DispatchKeeps
  <2> QED
    BY <1>2, <1>3, <1>4, <2>3
<1>9. CASE Preempt
  <2> DEFINE k      == pcb[current].priority
             queues == enqueueToPriority(ready, current, k)
             pcbs   == [pcb EXCEPT ![current].state = "SUSPENDED"]
             slice  == pcb[queues[0][1].process].remaining
  <2>1. /\ current \in Pid /\ k # 0 /\ k \in Level /\ rtUpdated /\ pc = "process"
        /\ Dispatch(0, slice, pcbs, queues)
    BY <1>1, <1>9 DEF Preempt, Yields
  <2>2. pcbs \in [Pid -> PCB] /\ \A p \in Pid : pcbs[p].priority = pcb[p].priority
    BY <1>1, <2>1 DEF PCB, State
  <2>3. /\ queues \in ReadyQueues
        /\ \A j \in Level : j # k => queues[j] = ready[j]
        /\ WellFormed(queues[k])
        /\ current \in Processes(queues[k])
        /\ Processes(queues[k]) \subseteq Processes(ready[k]) \cup {current}
    <3>1. current \in Pid /\ current \notin Queued(ready) /\ ready \in ReadyQueues
      BY <1>1, <2>1
    <3>2. \A j \in Level : WellFormed(ready[j])
      BY <1>1
    <3> HIDE DEF k
    <3> QED
      BY <2>1, <3>1, <3>2, EnqueueToPriority
  <2>4. q \in Queued(queues) \/ Overwritten(ready[k], queues[k], q)
    <3>1. CASE q = current
      BY <2>1, <2>3, <3>1 DEF Queued
    <3>2. CASE q \in Queued(ready)
      <4> HIDE DEF k
      <4> QED
        BY <1>1, <2>1, <3>2, ToPriorityKeeps
    <3> QED
      BY <1>2, <3>1, <3>2
  <2> HIDE DEF queues, pcbs
  <2>5. Sorted(queues, pcbs)
    <3>1. \A j \in Level : WellFormed(queues[j])
      BY <1>1, <2>3
    <3>2. ASSUME NEW j \in Level, NEW p \in Processes(queues[j]) PROVE pcbs[p].priority = j
      <4>1. p \in Pid
        BY <2>3, ProcessesArePids DEF ReadyQueues
      <4>2. p \in Processes(ready[j]) \/ (j = k /\ p = current)
        BY <2>3
      <4> QED
        BY <1>1, <2>2, <4>1, <4>2 DEF Sorted
    <3> QED
      BY <3>1, <3>2 DEF Sorted
  <2>6. HasProcess(queues[0])
    <3>1. HasProcess(ready[0])
      BY <2>1 DEF RealTimeReady
    <3> QED
      BY <1>4, <2>1, <2>3, <3>1
  <2>7. slice \in Int
    <3>1. queues[0][1].process \in Pid
      BY <1>4, <2>3, <2>5, <2>6, DequeueReady
    <3> QED
      BY <1>1, <3>1
  <2> HIDE DEF slice
  <2>8. CASE q \in Queued(queues)
    <3>1. q \in Queued(ready') \/ q = current' \/ q \in freed'
      BY <1>4, <2>1, <2>2, <2>3, <2>5, <2>6, <2>7, <2>8, DispatchKeeps
    <3> QED
      BY <1>2, <1>3, <3>1
  <2>9. CASE Overwritten(ready[k], queues[k], q)
    <3>1. current \in Queued(queues) /\ k \in 1 .. 3
      BY <2>1, <2>3 DEF Queued, Level
    <3>2. \A j \in 1 .. 3 : ready'[j] = queues[j]
      <4> HIDE DEF k
      <4> QED
        BY <1>4, <2>1, <2>2, <2>3, <2>5, <2>6, <2>7, <3>1, DispatchKeeps
    <3> QED
      BY <2>1, <2>9, <3>1, <3>2
  <2> QED
    BY <2>4, <2>8, <2>9
<1>10. CASE ready' = ready /\ current' = current
  BY <1>2, <1>10
<1> QED
  BY <1>5, <1>6, <1>7, <1>8, <1>9, <1>10
     DEF Next, ReadLine, EndOfFile, BeginUpdate, PutBack, Refuse, EndUpdate, Idle, Close, vars

\* A process that waits is admitted or freed, one that was freed stays so, and
\* what was read and is nowhere stays nowhere.
LEMMA PlacesAccounted ==
  ASSUME Inv, [Next]_vars
  PROVE  /\ Waiting \subseteq Waiting' \cup Live' \cup freed'
         /\ freed \subseteq freed'
         /\ pid' = pid \/ (pid' = pid + 1 /\ pid \in Waiting')
         /\ Waiting' \cup Live' \cup freed' \subseteq Waiting \cup Live \cup freed \cup (pid .. pid' - 1)
<1> USE DEF Inv
<1>1. CASE ReadLine
  <2>1. /\ pc = "read" /\ pc' = "read" /\ pid' = pid + 1 /\ pid \in Pid
        /\ dispatcher' = enqueueProcess(dispatcher, pid)
        /\ UNCHANGED << ready, current, freed >>
    BY <1>1, MaxProcessesAssumption DEF ReadLine, TypeOK, Pid
  <2>2. Waiting = Processes(dispatcher) /\ Waiting' = Processes(dispatcher')
    BY <2>1 DEF Waiting
  <2>3. pid \notin Processes(dispatcher)
    BY <2>1, <2>2 DEF AllRead, Pid
  <2>4. Waiting' = Waiting \cup {pid}
    BY <2>1, <2>2, <2>3, PidNotNull, EnqueueProcess DEF WaitLists, OpenQueue, TypeOK
  <2>5. Live' = Live /\ pid \in pid .. pid' - 1
    BY <2>1 DEF Live, Ready, Pid
  <2> QED
    BY <2>1, <2>4, <2>5
<1>2. CASE Admit
  <2>1. /\ NextTurn /\ pc' = pc /\ UNCHANGED << pid, newDispatcher, current, freed >>
        /\ ready' = enqueueToPriority(ready, Scanned, pcb[Scanned].priority)
    BY <1>2 DEF Admit
  <2>2. /\ pc = "scan" /\ Scanned \in Pid /\ Scanned \in Waiting /\ Scanned \notin Queued(ready)
        /\ Waiting \subseteq Waiting' \cup {Scanned} /\ Waiting' \subseteq Waiting
    BY <2>1, TurnEffect, LivePids DEF Waiting
  <2>3. /\ pcb[Scanned].priority \in Level /\ ready \in ReadyQueues
        /\ \A j \in Level : WellFormed(ready[j])
    BY <2>2 DEF TypeOK, PCB, Level, ReadyQueues, PlacedOnce
  <2>4. /\ Scanned \in Processes(ready'[pcb[Scanned].priority])
        /\ Queued(ready') \subseteq Queued(ready) \cup {Scanned}
    BY <2>1, <2>2, <2>3, EnqueueToPriority
  <2>5. Scanned \in Live' /\ Live' \subseteq Live \cup {Scanned}
    BY <2>1, <2>3, <2>4 DEF Live, Ready, Queued
  <2> QED
    BY <2>1, <2>2, <2>5
<1>3. CASE Processing
  <2>1. PICK p \in Pid, table \in [Pid -> PCB], rest \in ReadyQueues : Chosen(p, table, rest)
    BY <1>3, ProcessingChosen
  <2>2. /\ pc = "process" /\ pc' = "update" /\ pid' = pid
        /\ UNCHANGED << dispatcher, queuePtr, newDispatcher >>
    BY <2>1 DEF Chosen, NextTick, scan
  <2>3. Waiting' = Waiting
    BY <2>2 DEF Waiting
  <2>4. p \in Live /\ Live' \subseteq Live /\ (freed' = freed \/ freed' = freed \cup {p})
    BY <2>1, ChosenEffect
  <2> QED
    BY <2>2, <2>3, <2>4
<1>4. CASE Close
  <2>1. pc = "update" /\ freed' = freed \cup Processes(dispatcher) /\ pid' = pid
    BY <1>4 DEF Close
  <2>2. Waiting = Processes(dispatcher) /\ Waiting' \subseteq Waiting /\ Live' = Live
    BY <1>4, <2>1, BystanderPlaces DEF Waiting
  <2> QED
    BY <2>1, <2>2
<1>5. CASE EndOfFile \/ BeginUpdate \/ PutBack \/ Refuse \/ EndUpdate \/ Idle \/ UNCHANGED vars
  <2>1. Waiting' = Waiting /\ Ready' = Ready /\ ({current} \ {NULL})' = {current} \ {NULL}
        /\ freed' = freed
    BY <1>5, OthersStutter DEF Life!vars
  <2>2. pid' = pid
    BY <1>5 DEF EndOfFile, BeginUpdate, PutBack, Refuse, EndUpdate, Idle, vars
  <2> QED
    BY <2>1, <2>2 DEF Live
<1> QED
  BY <1>1, <1>2, <1>3, <1>4, <1>5 DEF Next, Processing

LostByOverwriting ==
  [][\A p \in Lost' : p \in Lost \/ \E k \in Level : Overwritten(ready[k], ready'[k], p)]_vars

\* A process is lost in one way only: it stands unmarked at the head of a ready
\* queue, where a dequeue left it, and another process is enqueued there
\* (queue.c:24-38, 44-56).  No refusal, admission or demotion of its own loses it.
THEOREM LostOnlyOverwritten == Spec => LostByOverwriting
<1> DEFINE Step == \A p \in Lost' : p \in Lost \/ \E k \in Level : Overwritten(ready[k], ready'[k], p)
<1>1. Inv /\ [Next]_vars => [Step]_vars
  <2> SUFFICES ASSUME Inv, Next, NEW p \in Lost', p \notin Lost
               PROVE  \E k \in Level : Overwritten(ready[k], ready'[k], p)
    OBVIOUS
  <2>1. /\ p \in 1 .. pid' - 1
        /\ p \notin Waiting' /\ p \notin Live' /\ p \notin freed'
    BY DEF Lost
  <2>2. p \in 1 .. pid - 1
    BY <2>1, PlacesAccounted DEF Inv, TypeOK
  <2>3. p \in Live
    BY <2>1, <2>2, PlacesAccounted DEF Lost
  <2> QED
    BY <2>1, <2>3, LiveAccounted
<1> QED
  BY <1>1, Invariance, PTL DEF Spec, LostByOverwriting

LostForGood == [][Lost \subseteq Lost']_vars

\* A lost process never comes back: no later tick runs it, and nothing ever
\* frees it: only its end, or closeSystem while it waits, would (hostd.c:161-167,
\* 329-336).
THEOREM LostStaysLost == Spec => LostForGood
<1>1. Inv /\ [Next]_vars => [Lost \subseteq Lost']_vars
  <2> SUFFICES ASSUME Inv, Next, NEW p \in Lost PROVE p \in Lost'
    OBVIOUS
  <2>1. p \in 1 .. pid - 1 /\ p \notin Waiting \cup Live \cup freed
    BY DEF Lost
  <2>2. p \in 1 .. pid' - 1 /\ p \notin pid .. pid' - 1
    BY <2>1, PlacesAccounted DEF Inv, TypeOK
  <2> QED
    BY <2>1, <2>2, PlacesAccounted DEF Lost
<1> QED
  BY <1>1, Invariance, PTL DEF Spec, LostForGood
=============================================================================
