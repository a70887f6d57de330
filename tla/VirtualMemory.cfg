\* Three frames and two TLB entries for four pages, lists of up to four addresses,
\* and the three threads of the code.
CONSTANTS
  PAGECOUNT = 3
  TLBSIZE = 2
  MAX_ADDRESSES = 5
  Thread = {t1, t2, t3}
  Page = {1, 2, 3, 4}
SPECIFICATION Spec
INVARIANTS
  TypeOK
  PagesOnce
  TLBAgrees
  CursorBounds
PROPERTIES
  PageTableFifo
  TLBFifo
  Finishes
