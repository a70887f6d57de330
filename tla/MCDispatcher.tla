----------------------------- MODULE MCDispatcher -----------------------------
(***************************************************************************)
(* A small host and a choice of job lines for TLC.  The device counts are  *)
(* those of pcb.h; memory is four cells, the first one real time.          *)
(***************************************************************************)
EXTENDS Dispatcher

MCCapacity == [printers |-> 2, scanners |-> 1, modems |-> 1, disks |-> 2, memory |-> 4]

Needs(printers, modems, memory) ==
  [printers |-> printers, scanners |-> 0, modems |-> modems, disks |-> 0, memory |-> memory]

Line(arrival, priority, cpu, need) ==
  [arrival |-> arrival, priority |-> priority, cpu |-> cpu, need |-> need]

\* Lines that ask for nothing, for one kind of resource and for several; that
\* arrive at once and late; of every priority; that end within a quantum, after
\* several, and (no processor time) never.
MCJob ==
  { Line(0, 0, 3, Needs(0, 0, 1)),
    Line(2, 0, 1, Needs(1, 0, 0)),
    Line(0, 1, 1, Needs(0, 0, 0)),
    Line(0, 1, 4, Needs(0, 1, 0)),
    Line(0, 1, 2, Needs(1, 1, 0)),
    Line(1, 1, 7, Needs(1, 0, 2)),
    Line(0, 2, 3, Needs(2, 0, 0)),
    Line(2, 2, 2, Needs(1, 0, 0)),
    Line(0, 3, 4, Needs(0, 0, 2)),
    Line(1, 3, 0, Needs(0, 0, 0)) }
=============================================================================
