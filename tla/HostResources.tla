----------------------------- MODULE HostResources -----------------------------
(***************************************************************************)
(* The resource tables of Assignment5/dispatcher/resources: five arrays of *)
(* cells, each holding the pid of the process that uses the cell, or 0.    *)
(* Four are devices; the memory array is cut in two windows, its first     *)
(* RTMemory cells for real time processes and the rest for user processes. *)
(***************************************************************************)
EXTENDS Integers, FiniteSets

CONSTANTS Capacity,     \* the MAX_* constants: the cells of each resource
          RTMemory      \* MAX_RTMEMSPACE: the cells of the real time window

Device == {"printers", "scanners", "modems", "disks"}
Resource == Device \cup {"memory"}

ASSUME CapacityAssumption == Capacity \in [Resource -> Nat]
ASSUME RTMemoryAssumption == RTMemory \in 0 .. Capacity["memory"]

Cell(r) == 0 .. Capacity[r] - 1

\* The five tables, whose cells hold a pid or 0.
IsTable(alloc, pids) ==
  /\ alloc = [r \in Resource |-> alloc[r]]
  /\ \A r \in Resource : alloc[r] \in [Cell(r) -> pids \cup {0}]

\* What initSystem leaves: no cell is used.
NoneAllocated == [r \in Resource |-> [c \in Cell(r) |-> 0]]

\* Fault: real time processes are shown the whole memory.
WholeMemory(r, priority) == Capacity[r]

\* The window of cells that a process of the given priority may be given.
Base(r, priority) == IF r = "memory" /\ priority # 0 THEN RTMemory ELSE 0
Limit(r, priority) == IF r = "memory" /\ priority = 0 THEN RTMemory ELSE Capacity[r]
Window(r, priority) == Base(r, priority) .. Limit(r, priority) - 1

\* The cells that a run of n cells starting at cursor covers.
Run(cursor, n) == cursor .. cursor + n - 1

\* The runs of n free cells inside the window.
FreeRuns(cells, n, base, limit) ==
  {s \in base .. limit - n : \A c \in Run(s, n) : cells[c] = 0}

\* Fault: the run is taken for complete one cell too early.
ShortFit(cells, n, pid, base, limit) ==
  LET runs == {s \in base .. limit - n : \A c \in Run(s, n - 1) : cells[c] = 0}
  IN  IF runs = {} THEN -1 ELSE CHOOSE s \in runs : \A t \in runs : s <= t

\* checkResourcesFreeFirstFit: the lowest free run of n > 0 cells, or -1 when
\* there is none, or when a cell of pid's own is met before that run is full.
FirstFit(cells, n, pid, base, limit) ==
  LET runs  == FreeRuns(cells, n, base, limit)
      first == CHOOSE s \in runs : \A t \in runs : s <= t
  IN  IF runs = {} \/ \E c \in base .. first + n - 1 : cells[c] = pid
      THEN -1
      ELSE first

\* The cell loops of the allocate functions and of freeHostResources.
Fill(cells, cursor, n, pid) ==
  [c \in DOMAIN cells |-> IF c \in Run(cursor, n) THEN pid ELSE cells[c]]

(***************************************************************************)
(* The PCBIO of a process: for each resource how many cells it needs, how  *)
(* many it has, and where they start (-1 before the first allocation).     *)
(***************************************************************************)
IO == [need : [Resource -> Nat], have : [Resource -> Nat], start : [Resource -> Int]]

\* The cells that a PCBIO records for a resource.
Recorded(io, r) == IF io.start[r] = -1 THEN {} ELSE Run(io.start[r], io.have[r])

\* What checkResourcesFreeFirstFit answers, resource by resource.
Cursor(alloc, io, pid, priority) ==
  [r \in Resource |->
     FirstFit(alloc[r], io.need[r], pid, Base(r, priority), Limit(r, priority))]

\* The resources an attempt obtains: one that is not needed is left alone.
Obtained(io, cursor) == {r \in Resource : io.need[r] # 0 /\ cursor[r] # -1}

\* The attempt fails when one resource is needed and not obtained.
Refused(io, cursor) == \E r \in Resource : io.need[r] # 0 /\ cursor[r] = -1

\* allocatePrinters, allocateScanners, allocateModems, allocateDisks and
\* allocateRealTimeMemory or allocateMemory, all of them tried in every attempt.
Taken(alloc, io, cursor, pid) ==
  [r \in Resource |-> IF r \in Obtained(io, cursor)
                      THEN Fill(alloc[r], cursor[r], io.need[r], pid)
                      ELSE alloc[r]]

\* Fault: the number of cells is not recorded.
NotedStartOnly(io, cursor) ==
  [io EXCEPT !.start = [r \in Resource |-> IF r \in Obtained(io, cursor)
                                           THEN cursor[r] ELSE io.start[r]]]

Noted(io, cursor) ==
  [io EXCEPT !.have  = [r \in Resource |-> IF r \in Obtained(io, cursor)
                                           THEN io.need[r] ELSE io.have[r]],
             !.start = [r \in Resource |-> IF r \in Obtained(io, cursor)
                                           THEN cursor[r] ELSE io.start[r]]]

\* Fault: the last cell of each resource is forgotten.
FreeAllButLast(alloc, io) ==
  [r \in Resource |-> [c \in Cell(r) |-> IF c \in Run(io.start[r], io.have[r] - 1) THEN 0 ELSE alloc[r][c]]]

\* freeHostResources: every recorded cell is zeroed, whoever it belongs to, and
\* the record is kept.
freeHostResources(alloc, io) ==
  [r \in Resource |-> [c \in Cell(r) |-> IF c \in Recorded(io, r) THEN 0 ELSE alloc[r][c]]]
=============================================================================
