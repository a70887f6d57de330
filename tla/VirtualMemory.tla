----------------------------- MODULE VirtualMemory -----------------------------
(***************************************************************************)
(* The virtual memory manager of Assignment4/VirtualMemoryManager/vmm.c:   *)
(* the addresses of a file are translated through a TLB and a page table   *)
(* of fewer frames than there are pages, either by main alone or by a      *)
(* number of threads that share a cursor into the list.                    *)
(*                                                                         *)
(* Of an address only its page number is kept, and of the contents of a    *)
(* frame only whose page it is.  The entries a table has in use are a      *)
(* sequence: index 0 of the C arrays is position 1.                        *)
(***************************************************************************)
EXTENDS Integers, Sequences, FiniteSets

CONSTANTS PAGECOUNT,       \* the frames of the page table
          TLBSIZE,         \* the entries of the TLB
          MAX_ADDRESSES,   \* the capacity of the address list
          Thread,          \* the MAX_CONCURRENT threads of --threaded
          Page             \* the page numbers addresses can have

ASSUME PageCountAssumption == PAGECOUNT \in Nat \ {0}
ASSUME TLBSizeAssumption == TLBSIZE \in Nat \ {0}
ASSUME MaxAddressesAssumption == MAX_ADDRESSES \in Nat \ {0}
ASSUME ThreadAssumption == IsFiniteSet(Thread) /\ Thread # {}
ASSUME PageAssumption == Page \subseteq 0 .. 255      \* GetPageNumber keeps 8 bits

None == 0                  \* no index: -1 in the code
NoPage == -1               \* a thread between two addresses

VARIABLES main,            \* where main stands
          pc,              \* where each thread stands
          fetched,         \* the page number of the address a thread has read
          looked,          \* what a thread that translates has found in the tables
          pageTableLock,   \* the threads that hold this mutex: one, or none
          addressCursor,
          numAddresses,
          pageTable,       \* the frames in use: pageNumbers, pages and ageCounter
          tlb,             \* the entries in use: pageNumbers, frameNumbers and ageCounter
          pageFaults,
          TLBHits

vars == << main, pc, fetched, looked, pageTableLock, addressCursor, numAddresses, pageTable, tlb,
           pageFaults, TLBHits >>
tables == << pageTable, tlb, pageFaults, TLBHits >>
section == << looked, pageTableLock >>

Frame == 1 .. PAGECOUNT

\* Nothing found: -1 from both searches.
Nothing == [hit |-> None, index |-> None]

TypeOK ==
  /\ main \in {"start", "sequential", "threaded", "exit"}
  /\ pc \in [Thread -> {"new", "loop", "fetch", "translate", "ended"}]
  /\ fetched \in [Thread -> Page \cup {NoPage}]
  /\ looked \in [Thread -> [hit : Frame \cup {None}, index : Frame \cup {None}]]
  /\ pageTableLock \in SUBSET Thread /\ Cardinality(pageTableLock) <= 1
  /\ addressCursor \in Nat
  /\ numAddresses \in 0 .. MAX_ADDRESSES - 1
  /\ pageTable \in Seq([page : Page, age : Nat]) /\ Len(pageTable) <= PAGECOUNT
  /\ tlb \in Seq([page : Page, frame : Frame, age : Nat]) /\ Len(tlb) <= TLBSIZE
  /\ pageFaults \in Nat
  /\ TLBHits \in Nat

\* ClearPageNumbers, ClearTLB.
Init ==
  /\ main = "start"
  /\ pc = [t \in Thread |-> "new"]
  /\ fetched = [t \in Thread |-> NoPage]
  /\ looked = [t \in Thread |-> Nothing]
  /\ pageTableLock = {}
  /\ addressCursor = 0
  /\ numAddresses = 0
  /\ pageTable = << >>
  /\ tlb = << >>
  /\ pageFaults = 0
  /\ TLBHits = 0

-----------------------------------------------------------------------------
(***************************************************************************)
(* The two tables                                                          *)
(***************************************************************************)

\* The first entry of a page.
IndexOf(entries, page) ==
  LET found == {n \in DOMAIN entries : entries[n].page = page}
  IN  IF found = {} THEN None ELSE CHOOSE n \in found : \A m \in found : n <= m

CheckTLB(page) == IF IndexOf(tlb, page) = None THEN None ELSE tlb[IndexOf(tlb, page)].frame

FindPageIndex(page) == IndexOf(pageTable, page)

\* The oldest entry, and of equals the last.
\* Fault: the youngest entry is taken for it.
Youngest(entries) ==
  CHOOSE n \in DOMAIN entries : \A m \in DOMAIN entries : entries[n].age <= entries[m].age
Oldest(entries) ==
  CHOOSE n \in DOMAIN entries :
    \A m \in DOMAIN entries : \/ entries[m].age < entries[n].age
                              \/ entries[m].age = entries[n].age /\ m <= n

\* The place a new entry takes.  Fault: it is told after the count has advanced.
PlaceAfterCount(entries, room) == IF Len(entries) = room THEN Oldest(entries) ELSE Len(entries) + 2
Place(entries, room) == IF Len(entries) = room THEN Oldest(entries) ELSE Len(entries) + 1

\* The entry is put in its place and every age advances, the new one's included.
\* Fault: an entry that replaces another keeps the age of that one.
AgeKept(entries, place, entry) ==
  LET put == IF place \in DOMAIN entries
             THEN [entries EXCEPT ![place] = [entry EXCEPT !.age = entries[place].age]]
             ELSE Append(entries, entry)
  IN  [n \in DOMAIN put |-> [put[n] EXCEPT !.age = @ + 1]]
Put(entries, place, entry) ==
  LET put == IF place \in DOMAIN entries THEN [entries EXCEPT ![place] = entry]
                                         ELSE Append(entries, entry)
  IN  [n \in DOMAIN put |-> [put[n] EXCEPT !.age = @ + 1]]

\* ReadPage and UpdatePageTable: the page is loaded from the backing store.
UpdatePageTable(page, place) ==
  pageTable' = Put(pageTable, place, [page |-> page, age |-> 0])

\* UpdateTLB: an entry is made for every translation, also for one that hit.
UpdateTLB(page, frame) ==
  tlb' = Put(tlb, Place(tlb, TLBSIZE), [page |-> page, frame |-> frame, age |-> 0])

\* The searches of a translation, both before it changes anything, and what it does
\* with what they found.  A hit of the TLB is not compared with the page table.
Lookup(page) == [hit |-> CheckTLB(page), index |-> FindPageIndex(page)]

TranslateFound(page, found) ==
  \/ /\ found.hit # None
     /\ TLBHits' = TLBHits + 1
     /\ UpdateTLB(page, found.hit)
     /\ UNCHANGED << pageTable, pageFaults >>
  \/ /\ found.hit = None
     /\ found.index # None
     /\ UpdateTLB(page, found.index)
     /\ UNCHANGED << pageTable, pageFaults, TLBHits >>
  \/ /\ found.hit = None
     /\ found.index = None
     /\ LET frame == Place(pageTable, PAGECOUNT)
        IN  UpdatePageTable(page, frame) /\ UpdateTLB(page, frame)
     /\ pageFaults' = pageFaults + 1
     /\ UNCHANGED TLBHits

Translate(page) == TranslateFound(page, Lookup(page))

-----------------------------------------------------------------------------
(***************************************************************************)
(* main                                                                    *)
(***************************************************************************)

\* A file with fewer addresses than the list holds; then main translates them
\* itself or starts the threads, each of which runs when it pleases.
ReadAddresses ==
  /\ main = "start"
  /\ numAddresses' \in 0 .. MAX_ADDRESSES - 1
  /\ main' \in {"sequential", "threaded"}
  /\ pc' = [t \in Thread |-> IF main' = "threaded" THEN "loop" ELSE "new"]
  /\ UNCHANGED << fetched, addressCursor, section, tables >>

\* A file that fills the list makes ReadAddresses return 0, and main return.
TooManyAddresses ==
  /\ main = "start"
  /\ main' = "exit"
  /\ UNCHANGED << pc, fetched, addressCursor, numAddresses, section, tables >>

\* A turn of main's own loop.
TranslateNext ==
  /\ main = "sequential"
  /\ addressCursor < numAddresses
  /\ \E page \in Page : Translate(page)
  /\ addressCursor' = addressCursor + 1
  /\ UNCHANGED << main, pc, fetched, numAddresses, section >>

\* main prints the statistics, frees the pages and returns.
\* Fault: instead of joining the threads, main waits for the end of the list.
FinishAtEnd ==
  /\ main \in {"sequential", "threaded"}
  /\ addressCursor = numAddresses
  /\ main' = "exit"
  /\ UNCHANGED << pc, fetched, addressCursor, numAddresses, section, tables >>
Finish ==
  /\ \/ main = "sequential" /\ addressCursor = numAddresses
     \/ main = "threaded" /\ \A t \in Thread : pc[t] = "ended"
  /\ main' = "exit"
  /\ UNCHANGED << pc, fetched, addressCursor, numAddresses, section, tables >>

-----------------------------------------------------------------------------
(***************************************************************************)
(* checkMemory, the body of a thread                                       *)
(***************************************************************************)

\* The loop test, which is made without a lock: the cursor may have advanced
\* when the thread reads its address.  Fault: the test allows one turn more.
OneFurther == addressCursor <= numAddresses
InList == addressCursor < numAddresses

Enter(t) ==
  /\ pc[t] = "loop"
  /\ InList
  /\ pc' = [pc EXCEPT ![t] = "fetch"]
  /\ UNCHANGED << main, fetched, addressCursor, numAddresses, section, tables >>

Leave(t) ==
  /\ pc[t] = "loop"
  /\ ~ InList
  /\ pc' = [pc EXCEPT ![t] = "ended"]
  /\ UNCHANGED << main, fetched, addressCursor, numAddresses, section, tables >>

\* The cursor is read and advanced under cursorLock.  Past the list the address
\* is whatever the memory holds.
Fetch(t) ==
  /\ pc[t] = "fetch"
  /\ \E page \in Page : fetched' = [fetched EXCEPT ![t] = page]
  /\ addressCursor' = addressCursor + 1
  /\ pc' = [pc EXCEPT ![t] = "translate"]
  /\ UNCHANGED << main, numAddresses, section, tables >>

\* The thread takes pageTableLock and searches the tables.  Fault: it does not wait.
NotWaiting(t) == t \notin pageTableLock
Unlocked(t) == pageTableLock = {}

LookUp(t) ==
  /\ pc[t] = "translate"
  /\ Unlocked(t)
  /\ pageTableLock' = pageTableLock \cup {t}
  /\ looked' = [looked EXCEPT ![t] = Lookup(fetched[t])]
  /\ UNCHANGED << main, pc, fetched, addressCursor, numAddresses, tables >>

\* It translates with what it has found, and unlocks.
TranslateFetched(t) ==
  /\ pc[t] = "translate"
  /\ t \in pageTableLock
  /\ TranslateFound(fetched[t], looked[t])
  /\ pageTableLock' = pageTableLock \ {t}
  /\ pc' = [pc EXCEPT ![t] = "loop"]
  /\ fetched' = [fetched EXCEPT ![t] = NoPage]
  /\ looked' = [looked EXCEPT ![t] = Nothing]
  /\ UNCHANGED << main, addressCursor, numAddresses >>

checkMemory(t) == Enter(t) \/ Leave(t) \/ Fetch(t) \/ LookUp(t) \/ TranslateFetched(t)

mainThread == ReadAddresses \/ TooManyAddresses \/ TranslateNext \/ Finish

\* main has returned: the program is over.
Over == main = "exit" /\ UNCHANGED vars

Next == mainThread \/ (\E t \in Thread : checkMemory(t)) \/ Over

\* The threads run; pageTableLock is free again after each section, so the mutex need
\* not be fair: it is enough that a thread that can run does.
Fairness == WF_vars(mainThread) /\ \A t \in Thread : WF_vars(checkMemory(t))

Spec == Init /\ [][Next]_vars /\ Fairness

-----------------------------------------------------------------------------
(***************************************************************************)
(* Properties                                                              *)
(***************************************************************************)

\* A page is never loaded into two frames, though several threads may miss it
\* at about the same time and a page may be known to the TLB only
\* (vmm.c:400-429).
PagesOnce ==
  \A m, n \in DOMAIN pageTable : pageTable[m].page = pageTable[n].page => m = n

\* The TLB has several entries for a page, as each translation makes one
\* (vmm.c:428), and which of them CheckTLB meets first is an accident; they all
\* name the same frame, and if the page is in the page table, the frame it is in.
\* So a translation can only be wrong for a page that has been evicted.
TLBAgrees ==
  /\ \A m, n \in DOMAIN tlb : tlb[m].page = tlb[n].page => tlb[m].frame = tlb[n].frame
  /\ \A n \in DOMAIN tlb, frame \in DOMAIN pageTable :
       pageTable[frame].page = tlb[n].page => tlb[n].frame = frame

\* Every address of the list is translated before main prints its statistics;
\* of the threads that pass the unlocked test (vmm.c:387) together, all but one
\* may read past the list, each of them once.
CursorBounds ==
  /\ addressCursor <= numAddresses + (IF main = "sequential" THEN 0 ELSE Cardinality(Thread) - 1)
  /\ main = "exit" => addressCursor >= numAddresses

\* The entries of a table, the oldest first.
ByAge(entries) ==
  LET order == CHOOSE place \in [DOMAIN entries -> DOMAIN entries] :
                 \A j, k \in DOMAIN entries :
                   j < k => place[j] # place[k] /\ entries[place[j]].age >= entries[place[k]].age
  IN  [k \in DOMAIN entries |-> entries[order[k]]]

\* The ages that UpdatePageTable keeps (vmm.c:274-293) make it evict the page
\* that was loaded the longest ago, and only pages that are not there are loaded.
PageQueue ==
  INSTANCE ReplacementQueue WITH
    Room <- PAGECOUNT, Item <- Page,
    queue <- LET sorted == ByAge(pageTable) IN [n \in DOMAIN pageTable |-> sorted[n].page]
PageTableFifo == PageQueue!FifoSet

\* The ages that UpdateTLB keeps (vmm.c:191-209) make it evict the translation
\* that was entered the longest ago.
TLBQueue ==
  INSTANCE ReplacementQueue WITH
    Room <- TLBSIZE, Item <- Page \X Frame,
    queue <- LET sorted == ByAge(tlb) IN [n \in DOMAIN tlb |-> << sorted[n].page, sorted[n].frame >>]
TLBFifo == TLBQueue!Fifo

\* The program ends, with and without threads: every thread leaves its loop and
\* main, which joins them, returns.
Finishes == <>(main = "exit")

\* vmm.c:163-165: CheckTLB "checks to see if the TLB contains a translation for
\* pageNumber, If it does, return the translation".  So the frame it returns for
\* a page is the frame the page is in.
TranslationRight ==
  \A page \in Page : CheckTLB(page) # None => pageTable[CheckTLB(page)].page = page
=============================================================================
