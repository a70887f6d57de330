---------------------------- MODULE ReplacementQueue ----------------------------
(***************************************************************************)
(* What both tables of Assignment4/VirtualMemoryManager promise about the  *)
(* choice of a victim: "FIFO, or w/e you want" (vmm.c:182-183), "evicts    *)
(* the oldest one when needed" (vmm.c:265).  The items, the one inserted   *)
(* the longest ago first.                                                  *)
(***************************************************************************)
EXTENDS Sequences

CONSTANTS Room,     \* how many items there is room for
          Item

VARIABLE queue

Init == queue = << >>

Insert(item) == queue' = Append(IF Len(queue) = Room THEN Tail(queue) ELSE queue, item)

\* An item is inserted while it is there already.
Repeat == \E item \in Item : Insert(item)

\* Items are inserted only while they are not there.
Replace == \E item \in Item : (\A n \in DOMAIN queue : queue[n] # item) /\ Insert(item)

Fifo == Init /\ [][Repeat]_queue
FifoSet == Init /\ [][Replace]_queue
=============================================================================
