-------------------------- MODULE VirtualMemoryProofs --------------------------
(***************************************************************************)
(* Proofs about VirtualMemory, for every size of the tables and the list   *)
(* and any number of threads.                                              *)
(***************************************************************************)
EXTENDS VirtualMemory, TLAPS, WellFoundedInduction, FiniteSetTheorems, SequenceTheorems

\* What an entry of the page table, and of the TLB, consists of.
PageEntry == [page : Page, age : Nat]
TLBEntry == [page : Page, frame : Frame, age : Nat]

\* A set of naturals that is not empty has a least element.
LEMMA LeastNat ==
  ASSUME NEW S, S \subseteq Nat, S # {}
  PROVE  \E n \in S : \A m \in S : n <= m
<1> DEFINE Less == {pair \in Nat \X Nat : pair[1] < pair[2]}
<1>1. IsWellFoundedOn(Less, Nat)
  BY NatLessThanWellFounded DEF OpToRel
<1> HIDE DEF Less
<1>2. PICK n \in S : \A m \in S : ~ (<< m, n >> \in Less)
  BY <1>1, WFMin
<1>3. \A m \in S : ~ (m < n)
  BY <1>2 DEF Less
<1> QED
  BY <1>3

-----------------------------------------------------------------------------
(***************************************************************************)
(* The tables                                                              *)
(***************************************************************************)

\* The search returns an entry of the page, or None if there is none.
LEMMA IndexOfPage ==
  ASSUME NEW E, NEW entries \in Seq(E), NEW page
  PROVE  \/ /\ IndexOf(entries, page) \in DOMAIN entries
            /\ IndexOf(entries, page) # None
            /\ entries[IndexOf(entries, page)].page = page
         \/ /\ IndexOf(entries, page) = None
            /\ \A n \in DOMAIN entries : entries[n].page # page
<1> DEFINE found == {n \in DOMAIN entries : entries[n].page = page}
<1>1. DOMAIN entries = 1 .. Len(entries) /\ Len(entries) \in Nat
  OBVIOUS
<1>2. IndexOf(entries, page) =
        IF found = {} THEN None ELSE CHOOSE n \in found : \A m \in found : n <= m
  BY DEF IndexOf
<1>3. CASE found = {}
  BY <1>2, <1>3
<1>4. CASE found # {}
  <2>1. found \subseteq Nat
    BY <1>1
  <2>2. \E n \in found : \A m \in found : n <= m
    BY <1>4, <2>1, LeastNat
  <2> HIDE DEF found
  <2>3. IndexOf(entries, page) \in found
    BY <1>2, <1>4, <2>2
  <2> USE DEF found
  <2> QED
    BY <1>1, <2>3 DEF None
<1> QED
  BY <1>3, <1>4

\* Every entry of a table has an age.
Aged(entries) == \A n \in DOMAIN entries : entries[n].age \in Nat

\* Entry n is the last of the oldest among the first k.
OldestOf(entries, n, k) ==
  /\ n \in 1 .. k
  /\ \A m \in 1 .. k : \/ entries[m].age < entries[n].age
                       \/ entries[m].age = entries[n].age /\ m <= n

\* One entry more is the oldest itself or leaves the oldest what it is.
LEMMA OldestOfOneMore ==
  ASSUME NEW E, NEW entries \in Seq(E), Aged(entries),
         NEW k \in Nat, k + 1 <= Len(entries), NEW n, OldestOf(entries, n, k)
  PROVE  OldestOf(entries, k + 1, k + 1) \/ OldestOf(entries, n, k + 1)
<1> DEFINE age(m) == entries[m].age
<1>1. /\ n \in 1 .. k
      /\ \A m \in 1 .. k : age(m) < age(n) \/ (age(m) = age(n) /\ m <= n)
  BY DEF OldestOf
<1>2. \A m \in 1 .. k + 1 : age(m) \in Nat
  BY DEF Aged
<1> HIDE DEF age
<1>3. CASE age(k + 1) >= age(n)
  <2>1. \A m \in 1 .. k + 1 : age(m) < age(k + 1) \/ (age(m) = age(k + 1) /\ m <= k + 1)
    BY <1>1, <1>2, <1>3
  <2> QED
    BY <2>1 DEF OldestOf, age
<1>4. CASE age(k + 1) < age(n)
  <2>1. \A m \in 1 .. k + 1 : age(m) < age(n) \/ (age(m) = age(n) /\ m <= n)
    BY <1>1, <1>2, <1>4
  <2> QED
    BY <1>1, <2>1 DEF OldestOf, age
<1> QED
  BY <1>1, <1>2, <1>3, <1>4

\* A table with entries has an oldest one: were there none, take the shortest front
\* part of the table without one.
LEMMA OldestExists ==
  ASSUME NEW E, NEW entries \in Seq(E), Aged(entries), entries # << >>
  PROVE  Oldest(entries) \in DOMAIN entries
<1> DEFINE without == {k \in 1 .. Len(entries) : \A n \in 1 .. k : ~ OldestOf(entries, n, k)}
<1>1. Len(entries) \in Nat \ {0} /\ DOMAIN entries = 1 .. Len(entries)
  BY EmptySeq, LenProperties
<1>2. without = {}
  <2> SUFFICES ASSUME without # {} PROVE FALSE
    OBVIOUS
  <2>1. without \subseteq Nat
    BY <1>1
  <2>2. PICK k \in without : \A m \in without : k <= m
    BY <2>1, LeastNat
  <2>3. k \in 1 .. Len(entries) /\ \A n \in 1 .. k : ~ OldestOf(entries, n, k)
    BY <2>2
  <2>4. CASE k = 1
    <3>1. OldestOf(entries, 1, 1)
      BY DEF OldestOf
    <3> QED
      BY <2>3, <2>4, <3>1
  <2>5. CASE k # 1
    <3>1. k - 1 \in 1 .. Len(entries) /\ ~ (k <= k - 1)
      BY <1>1, <2>3, <2>5
    <3>2. k - 1 \notin without
      BY <2>2, <3>1
    <3>3. PICK n \in 1 .. k - 1 : OldestOf(entries, n, k - 1)
      BY <3>1, <3>2
    <3>4. (k - 1) + 1 = k /\ k - 1 \in Nat /\ k <= Len(entries)
      BY <1>1, <2>3, <2>5
    <3>5. OldestOf(entries, k, k) \/ OldestOf(entries, n, k)
      BY <3>3, <3>4, OldestOfOneMore
    <3>6. k \in 1 .. k /\ n \in 1 .. k
      BY <1>1, <2>3, <3>3
    <3> QED
      BY <2>3, <3>5, <3>6
  <2> QED
    BY <2>4, <2>5
<1>3. PICK n \in 1 .. Len(entries) : OldestOf(entries, n, Len(entries))
  <2>1. Len(entries) \in 1 .. Len(entries) /\ Len(entries) \notin without
    BY <1>1, <1>2
  <2> QED
    BY <2>1
<1> HIDE DEF without
<1>4. \A m \in DOMAIN entries : \/ entries[m].age < entries[n].age
                                \/ entries[m].age = entries[n].age /\ m <= n
  BY <1>1, <1>3 DEF OldestOf
<1> QED
  BY <1>1, <1>4, Zenon DEF Oldest

\* A new entry takes the place of another or the first free one.
LEMMA PlaceInRoom ==
  ASSUME NEW E, NEW entries \in Seq(E), Aged(entries),
         NEW room \in Nat \ {0}, Len(entries) <= room
  PROVE  /\ Place(entries, room) \in 1 .. room
         /\ Place(entries, room) \in DOMAIN entries
              \/ (Place(entries, room) = Len(entries) + 1 /\ Len(entries) < room)
<1>1. Len(entries) \in Nat /\ DOMAIN entries = 1 .. Len(entries)
  OBVIOUS
<1>2. CASE Len(entries) = room
  <2>1. Oldest(entries) \in DOMAIN entries
    BY <1>2, EmptySeq, OldestExists
  <2> QED
    BY <1>1, <1>2, <2>1 DEF Place
<1>3. CASE Len(entries) # room
  <2>1. Place(entries, room) = Len(entries) + 1
    BY <1>3 DEF Place
  <2>2. room \in Int /\ Len(entries) < room
    <3>1. Len(entries) \in Nat /\ room \in Nat
      BY <1>1
    <3>2. Len(entries) # room /\ Len(entries) <= room
      BY <1>3
    <3> QED
      BY <3>1, <3>2
  <2>3. Len(entries) + 1 \in 1 .. room
    BY <1>1, <2>2
  <2> QED
    BY <2>1, <2>2, <2>3
<1> QED
  BY <1>2, <1>3

\* An entry, a translation later.
Older(entry) == [entry EXCEPT !.age = @ + 1]

\* It stays an entry, of the same page and the same frame.
LEMMA OlderEntry ==
  /\ \A entry \in PageEntry : Older(entry) \in PageEntry /\ Older(entry).page = entry.page
  /\ \A entry \in TLBEntry : /\ Older(entry) \in TLBEntry
                             /\ Older(entry).page = entry.page
                             /\ Older(entry).frame = entry.frame
<1>1. ASSUME NEW entry \in PageEntry
      PROVE  Older(entry) \in PageEntry /\ Older(entry).page = entry.page
  BY DEF Older, PageEntry
<1>2. ASSUME NEW entry \in TLBEntry
      PROVE  /\ Older(entry) \in TLBEntry
             /\ Older(entry).page = entry.page
             /\ Older(entry).frame = entry.frame
  BY DEF Older, TLBEntry
<1> QED
  BY <1>1, <1>2

\* What Put does: the entry is at its place, the others stay, all are older, and the
\* table grows if the place is behind its entries.
IsPut(E, entries, place, entry, result) ==
  /\ result \in Seq(E)
  /\ DOMAIN result = DOMAIN entries \cup {place}
  /\ Len(result) = IF place \in DOMAIN entries THEN Len(entries) ELSE place
  /\ result[place] = Older(entry)
  /\ \A n \in DOMAIN entries \ {place} : result[n] = Older(entries[n])

\* Put does so with entries of any kind.
LEMMA PutEffect ==
  ASSUME NEW E, \A e \in E : Older(e) \in E,
         NEW entries \in Seq(E), NEW entry \in E,
         NEW place \in Nat, place \in DOMAIN entries \/ place = Len(entries) + 1
  PROVE  IsPut(E, entries, place, entry, Put(entries, place, entry))
<1> DEFINE put    == IF place \in DOMAIN entries THEN [entries EXCEPT ![place] = entry]
                                                 ELSE Append(entries, entry)
           result == Put(entries, place, entry)
<1>1. Len(entries) \in Nat /\ DOMAIN entries = 1 .. Len(entries)
  OBVIOUS
<1>2. /\ put \in Seq(E)
      /\ DOMAIN put = DOMAIN entries \cup {place}
      /\ Len(put) = IF place \in DOMAIN entries THEN Len(entries) ELSE place
      /\ \A n \in DOMAIN put : put[n] = IF n = place THEN entry ELSE entries[n]
  <2>1. CASE place \in DOMAIN entries
    <3>1. put = [entries EXCEPT ![place] = entry]
      BY <2>1
    <3> QED
      BY <1>1, <2>1, <3>1
  <2>2. CASE place \notin DOMAIN entries
    <3>1. put = Append(entries, entry) /\ place = Len(entries) + 1
      BY <2>2
    <3>2. /\ put \in Seq(E) /\ Len(put) = Len(entries) + 1
          /\ \A n \in 1 .. Len(entries) : put[n] = entries[n]
          /\ put[Len(entries) + 1] = entry
      BY <3>1, AppendProperties
    <3> HIDE DEF put
    <3>3. DOMAIN put = 1 .. Len(entries) + 1
      BY <3>2
    <3>4. DOMAIN put = DOMAIN entries \cup {place}
      BY <1>1, <3>1, <3>3
    <3>5. ASSUME NEW n \in DOMAIN put PROVE put[n] = IF n = place THEN entry ELSE entries[n]
      BY <1>1, <2>2, <3>1, <3>2, <3>4
    <3> QED
      BY <2>2, <3>1, <3>2, <3>4, <3>5
  <2> QED
    BY <2>1, <2>2
<1>3. result = [n \in DOMAIN put |-> Older(put[n])]
  BY DEF Put, Older
<1> HIDE DEF put, result
<1>4. DOMAIN result = DOMAIN put /\ DOMAIN put = 1 .. Len(put) /\ Len(put) \in Nat
  BY <1>2, <1>3
<1>5. \A n \in DOMAIN put : Older(put[n]) \in E /\ result[n] = Older(put[n])
  BY <1>2, <1>3, ElementOfSeq
<1>6. result \in Seq(E) /\ Len(result) = Len(put)
  <2>1. result \in [1 .. Len(put) -> E]
    BY <1>3, <1>4, <1>5
  <2> QED
    BY <1>4, <2>1
<1> QED
  BY <1>2, <1>4, <1>5, <1>6 DEF result, IsPut

-----------------------------------------------------------------------------
(***************************************************************************)
(* Translations                                                            *)
(***************************************************************************)

\* What is said of the two tables: their types, PagesOnce and TLBAgrees.
Tables ==
  /\ pageTable \in Seq(PageEntry) /\ Len(pageTable) <= PAGECOUNT
  /\ tlb \in Seq(TLBEntry) /\ Len(tlb) <= TLBSIZE
  /\ PagesOnce
  /\ TLBAgrees

\* Entries have ages.
LEMMA TablesAged == Tables => Aged(pageTable) /\ Aged(tlb)
<1> SUFFICES ASSUME Tables PROVE Aged(pageTable) /\ Aged(tlb)
  OBVIOUS
<1>1. \A n \in DOMAIN pageTable : pageTable[n] \in PageEntry
  BY ElementOfSeq DEF Tables
<1>2. \A n \in DOMAIN tlb : tlb[n] \in TLBEntry
  BY ElementOfSeq DEF Tables
<1> QED
  BY <1>1, <1>2 DEF Aged, PageEntry, TLBEntry

\* An entry of the TLB is one that it had or the new one.
Kept(page, frame) ==
  \A n \in DOMAIN tlb' :
    \/ tlb'[n].page = page /\ tlb'[n].frame = frame
    \/ \E m \in DOMAIN tlb : tlb'[n].page = tlb[m].page /\ tlb'[n].frame = tlb[m].frame

\* UpdateTLB keeps the entries of a page in agreement if the new one agrees.
LEMMA UpdateTLBEffect ==
  ASSUME Tables, NEW page \in Page, NEW frame \in Frame, UpdateTLB(page, frame),
         \A n \in DOMAIN tlb : tlb[n].page = page => tlb[n].frame = frame
  PROVE  /\ tlb' \in Seq(TLBEntry) /\ Len(tlb') <= TLBSIZE
         /\ Kept(page, frame)
         /\ \A m, n \in DOMAIN tlb' : tlb'[m].page = tlb'[n].page => tlb'[m].frame = tlb'[n].frame
<1> DEFINE entry == [page |-> page, frame |-> frame, age |-> 0]
           place == Place(tlb, TLBSIZE)
<1>1. tlb \in Seq(TLBEntry) /\ Len(tlb) <= TLBSIZE /\ Aged(tlb)
  BY TablesAged DEF Tables
<1>2. place \in 1 .. TLBSIZE /\ (place \in DOMAIN tlb \/ place = Len(tlb) + 1)
  BY <1>1, TLBSizeAssumption, PlaceInRoom
<1>3. entry \in TLBEntry /\ entry.page = page /\ entry.frame = frame
  BY DEF TLBEntry
<1>4. tlb' = Put(tlb, place, entry)
  BY DEF UpdateTLB
<1> HIDE DEF place, entry
<1>5. /\ tlb' \in Seq(TLBEntry)
      /\ DOMAIN tlb' = DOMAIN tlb \cup {place}
      /\ Len(tlb') = IF place \in DOMAIN tlb THEN Len(tlb) ELSE place
      /\ tlb'[place] = Older(entry)
      /\ \A n \in DOMAIN tlb \ {place} : tlb'[n] = Older(tlb[n])
  <2>1. place \in Nat /\ \A e \in TLBEntry : Older(e) \in TLBEntry
    BY <1>2, OlderEntry
  <2>2. IsPut(TLBEntry, tlb, place, entry, Put(tlb, place, entry))
    BY <1>1, <1>2, <1>3, <2>1, PutEffect
  <2> QED
    BY <1>4, <2>2 DEF IsPut
<1>6. Len(tlb') <= TLBSIZE
  BY <1>1, <1>2, <1>5
<1>7. Kept(page, frame)
  <2>1. tlb'[place].page = page /\ tlb'[place].frame = frame
    BY <1>3, <1>5, OlderEntry
  <2>2. \A n \in DOMAIN tlb \ {place} : tlb'[n].page = tlb[n].page /\ tlb'[n].frame = tlb[n].frame
    BY <1>1, <1>5, OlderEntry, ElementOfSeq
  <2> QED
    BY <1>5, <2>1, <2>2 DEF Kept
<1>8. \A m, n \in DOMAIN tlb : tlb[m].page = tlb[n].page => tlb[m].frame = tlb[n].frame
  BY DEF Tables, TLBAgrees
<1>9. ASSUME NEW m \in DOMAIN tlb', NEW n \in DOMAIN tlb', tlb'[m].page = tlb'[n].page
      PROVE  tlb'[m].frame = tlb'[n].frame
  BY <1>7, <1>8, <1>9 DEF Kept
<1> QED
  BY <1>5, <1>6, <1>7, <1>9

\* A translation keeps what is said of the tables.
LEMMA TranslateKeeps ==
  ASSUME Tables, pageFaults \in Nat, TLBHits \in Nat, NEW page \in Page, Translate(page)
  PROVE  Tables' /\ pageFaults' \in Nat /\ TLBHits' \in Nat
<1>1. /\ pageTable \in Seq(PageEntry) /\ Len(pageTable) <= PAGECOUNT
      /\ tlb \in Seq(TLBEntry)
      /\ Aged(pageTable)
      /\ \A m, n \in DOMAIN pageTable : pageTable[m].page = pageTable[n].page => m = n
      /\ \A m, n \in DOMAIN tlb : tlb[m].page = tlb[n].page => tlb[m].frame = tlb[n].frame
      /\ \A n \in DOMAIN tlb, frame \in DOMAIN pageTable :
           pageTable[frame].page = tlb[n].page => tlb[n].frame = frame
  BY TablesAged DEF Tables, PagesOnce, TLBAgrees
<1>2. \A n \in DOMAIN tlb : tlb[n].frame \in Frame
  <2>1. \A n \in DOMAIN tlb : tlb[n] \in TLBEntry
    BY <1>1, ElementOfSeq
  <2> QED
    BY <2>1 DEF TLBEntry
<1>3. DOMAIN pageTable \subseteq Frame
  BY <1>1, PageCountAssumption DEF Frame
<1>4. pageFaults' \in Nat /\ TLBHits' \in Nat
  BY DEF Translate, TranslateFound, Lookup
<1>5. None \notin Frame
  BY DEF None, Frame
<1>6. CASE /\ CheckTLB(page) # None
           /\ UpdateTLB(page, CheckTLB(page))
           /\ UNCHANGED pageTable
  <2>1. PICK k \in DOMAIN tlb : CheckTLB(page) = tlb[k].frame /\ tlb[k].page = page
    BY <1>1, <1>6, IndexOfPage DEF CheckTLB
  <2>2. \A n \in DOMAIN tlb : tlb[n].page = page => tlb[n].frame = CheckTLB(page)
    BY <1>1, <2>1
  <2>3. /\ tlb' \in Seq(TLBEntry) /\ Len(tlb') <= TLBSIZE
        /\ Kept(page, CheckTLB(page))
        /\ \A m, n \in DOMAIN tlb' : tlb'[m].page = tlb'[n].page => tlb'[m].frame = tlb'[n].frame
    BY <1>2, <1>6, <2>1, <2>2, UpdateTLBEffect
  <2>4. \A n \in DOMAIN tlb', frame \in DOMAIN pageTable' :
          pageTable'[frame].page = tlb'[n].page => tlb'[n].frame = frame
    BY <1>1, <1>6, <2>1, <2>3 DEF Kept
  <2> QED
    BY <1>1, <1>4, <1>6, <2>3, <2>4 DEF Tables, PagesOnce, TLBAgrees
<1>7. ASSUME CheckTLB(page) = None
      PROVE  \A n \in DOMAIN tlb : tlb[n].page # page
  <2>1. IndexOf(tlb, page) \in DOMAIN tlb => tlb[IndexOf(tlb, page)].frame # None
    BY <1>2, <1>5
  <2> QED
    BY <1>1, <1>7, <2>1, IndexOfPage DEF CheckTLB
<1>8. CASE /\ CheckTLB(page) = None
           /\ FindPageIndex(page) # None
           /\ UpdateTLB(page, FindPageIndex(page))
           /\ UNCHANGED pageTable
  <2> DEFINE found == FindPageIndex(page)
  <2>1. found \in DOMAIN pageTable /\ pageTable[found].page = page
    BY <1>1, <1>8, IndexOfPage DEF FindPageIndex
  <2>2. \A n \in DOMAIN tlb : tlb[n].page # page
    BY <1>7, <1>8
  <2> HIDE DEF found
  <2>3. /\ tlb' \in Seq(TLBEntry) /\ Len(tlb') <= TLBSIZE
        /\ Kept(page, found)
        /\ \A m, n \in DOMAIN tlb' : tlb'[m].page = tlb'[n].page => tlb'[m].frame = tlb'[n].frame
    BY <1>3, <1>8, <2>1, <2>2, UpdateTLBEffect DEF found
  <2>4. \A n \in DOMAIN tlb', frame \in DOMAIN pageTable' :
          pageTable'[frame].page = tlb'[n].page => tlb'[n].frame = frame
    BY <1>1, <1>8, <2>1, <2>3 DEF Kept
  <2> QED
    BY <1>1, <1>4, <1>8, <2>3, <2>4 DEF Tables, PagesOnce, TLBAgrees
<1>9. CASE /\ CheckTLB(page) = None
           /\ FindPageIndex(page) = None
           /\ UpdatePageTable(page, Place(pageTable, PAGECOUNT))
           /\ UpdateTLB(page, Place(pageTable, PAGECOUNT))
  <2> DEFINE place == Place(pageTable, PAGECOUNT)
             entry == [page |-> page, age |-> 0]
  <2>1. place \in Frame /\ (place \in DOMAIN pageTable \/ place = Len(pageTable) + 1)
    BY <1>1, PageCountAssumption, PlaceInRoom DEF Frame
  <2>2. \A n \in DOMAIN tlb : tlb[n].page # page
    BY <1>7, <1>9
  <2>3. \A n \in DOMAIN pageTable : pageTable[n].page # page
    <3>1. None \notin DOMAIN pageTable
      BY <1>3, <1>5
    <3> QED
      BY <1>1, <1>9, <3>1, IndexOfPage DEF FindPageIndex
  <2>4. pageTable' = Put(pageTable, place, entry) /\ entry \in PageEntry /\ entry.page = page
    BY <1>9 DEF UpdatePageTable, PageEntry
  <2>5. UpdateTLB(page, place)
    BY <1>9
  <2> HIDE DEF place, entry
  <2>6. place \in Nat /\ place <= PAGECOUNT
    BY <2>1, PageCountAssumption DEF Frame
  <2>7. /\ pageTable' \in Seq(PageEntry)
        /\ DOMAIN pageTable' = DOMAIN pageTable \cup {place}
        /\ Len(pageTable') = IF place \in DOMAIN pageTable THEN Len(pageTable) ELSE place
        /\ pageTable'[place].page = page
        /\ \A n \in DOMAIN pageTable \ {place} : pageTable'[n].page = pageTable[n].page
    <3>1. \A e \in PageEntry : Older(e) \in PageEntry
      BY OlderEntry
    <3>2. IsPut(PageEntry, pageTable, place, entry, Put(pageTable, place, entry))
      BY <1>1, <2>1, <2>4, <2>6, <3>1, PutEffect
    <3>3. \A n \in DOMAIN pageTable : pageTable[n] \in PageEntry
      BY <1>1, ElementOfSeq
    <3> QED
      BY <2>4, <3>2, <3>3, OlderEntry DEF IsPut
  <2>8. Len(pageTable') <= PAGECOUNT
    BY <1>1, <2>6, <2>7
  <2>9. \A m, n \in DOMAIN pageTable' : pageTable'[m].page = pageTable'[n].page => m = n
    <3> SUFFICES ASSUME NEW m \in DOMAIN pageTable', NEW n \in DOMAIN pageTable',
                        pageTable'[m].page = pageTable'[n].page
                 PROVE  m = n
      OBVIOUS
    <3>1. CASE m = place \/ n = place
      BY <2>3, <2>4, <2>7, <3>1
    <3>2. CASE m # place /\ n # place
      BY <1>1, <2>7, <3>2
    <3> QED
      BY <3>1, <3>2
  <2>10. /\ tlb' \in Seq(TLBEntry) /\ Len(tlb') <= TLBSIZE
         /\ Kept(page, place)
         /\ \A m, n \in DOMAIN tlb' : tlb'[m].page = tlb'[n].page => tlb'[m].frame = tlb'[n].frame
    BY <2>1, <2>2, <2>5, UpdateTLBEffect
  <2>11. \A n \in DOMAIN tlb', frame \in DOMAIN pageTable' :
           pageTable'[frame].page = tlb'[n].page => tlb'[n].frame = frame
    <3> SUFFICES ASSUME NEW n \in DOMAIN tlb', NEW frame \in DOMAIN pageTable',
                        pageTable'[frame].page = tlb'[n].page
                 PROVE  tlb'[n].frame = frame
      OBVIOUS
    <3>1. CASE tlb'[n].page = page /\ tlb'[n].frame = place
      BY <2>3, <2>7, <3>1
    <3>2. CASE \E m \in DOMAIN tlb : tlb'[n].page = tlb[m].page /\ tlb'[n].frame = tlb[m].frame
      BY <1>1, <2>2, <2>4, <2>7, <3>2
    <3> QED
      BY <2>10, <3>1, <3>2 DEF Kept
  <2> QED
    BY <1>4, <2>7, <2>8, <2>9, <2>10, <2>11 DEF Tables, PagesOnce, TLBAgrees
<1> QED
  BY <1>6, <1>8, <1>9 DEF Translate, TranslateFound, Lookup

-----------------------------------------------------------------------------
(***************************************************************************)
(* The inductive invariant                                                 *)
(***************************************************************************)

\* The threads between the loop test and the cursor.
Fetching == {t \in Thread : pc[t] = "fetch"}

\* When the cursor has reached the end of the list, each thread that may still take it
\* further is one of those that passed the test before, and the thread whose fetch
\* reached the end is none of them.
Overshoot ==
  addressCursor < numAddresses
    \/ addressCursor + Cardinality(Fetching) <= numAddresses + Cardinality(Thread) - 1

\* How far the list is worked off, by where main and the threads are.
Progress ==
  /\ main = "start" => addressCursor = 0 /\ numAddresses = 0
  /\ main \in {"start", "sequential"} => \A t \in Thread : pc[t] = "new"
  /\ main = "sequential" => addressCursor <= numAddresses
  /\ main = "exit" => addressCursor >= numAddresses
  /\ main \in {"threaded", "exit"} => Overshoot
  /\ \A t \in Thread : /\ pc[t] = "ended" => addressCursor >= numAddresses
                       /\ pc[t] = "translate" => fetched[t] \in Page

\* One thread at most is in the critical section, and the tables are still as it has
\* found them.
Held ==
  /\ \A s, t \in pageTableLock : s = t
  /\ \A t \in pageTableLock : pc[t] = "translate" /\ looked[t] = Lookup(fetched[t])

Inv == TypeOK /\ Tables /\ Progress /\ Held

\* So what the thread does with what it has found is a translation.
LEMMA HolderTranslates ==
  ASSUME Held, NEW t \in Thread, TranslateFetched(t)
  PROVE  Translate(fetched[t])
BY DEF Held, TranslateFetched, Translate

\* A step that leaves the tables and the threads in the section alone keeps Held.
LEMMA HeldKept ==
  ASSUME Held, UNCHANGED << section, tables >>,
         \A t \in pageTableLock : pc'[t] = pc[t] /\ fetched'[t] = fetched[t]
  PROVE  Held'
<1>1. \A page : CheckTLB(page)' = CheckTLB(page) /\ FindPageIndex(page)' = FindPageIndex(page)
  BY DEF tables, CheckTLB, FindPageIndex
<1>2. pageTableLock' = pageTableLock /\ looked' = looked
  BY DEF section
<1>3. ASSUME NEW t \in pageTableLock PROVE Lookup(fetched[t])' = Lookup(fetched[t])
  <2>1. fetched'[t] = fetched[t]
    OBVIOUS
  <2> QED
    BY <1>1, <2>1 DEF tables, Lookup, CheckTLB, FindPageIndex
<1> QED
  BY <1>2, <1>3 DEF Held

\* When no thread has passed the loop test, the section is empty.
LEMMA NoneHeld ==
  ASSUME Held, pageTableLock \subseteq Thread, \A t \in Thread : pc[t] # "translate"
  PROVE  pageTableLock = {}
BY DEF Held

\* Cardinalities of the sets of threads are numbers; there is a thread.
LEMMA Counts ==
  /\ Cardinality(Thread) \in Nat \ {0}
  /\ Cardinality({}) = 0
  /\ \A S \in SUBSET Thread : /\ IsFiniteSet(S) /\ Cardinality(S) \in Nat
                              /\ Cardinality(S) <= Cardinality(Thread)
<1>1. Cardinality(Thread) \in Nat \ {0}
  BY ThreadAssumption, FS_CardinalityType, FS_EmptySet
<1>2. ASSUME NEW S \in SUBSET Thread
      PROVE  /\ IsFiniteSet(S) /\ Cardinality(S) \in Nat
             /\ Cardinality(S) <= Cardinality(Thread)
  BY ThreadAssumption, FS_Subset, FS_CardinalityType
<1> QED
  BY <1>1, <1>2, FS_EmptySet

\* Fetching is one of them.
LEMMA FetchingCount ==
  /\ IsFiniteSet(Fetching) /\ Cardinality(Fetching) \in Nat
  /\ Cardinality(Fetching) <= Cardinality(Thread)
<1>1. Fetching \in SUBSET Thread
  BY DEF Fetching
<1> QED
  BY <1>1, Counts

\* The invariant holds when the tables have been cleared.
LEMMA InitInv == Init => Inv
<1> SUFFICES ASSUME Init PROVE Inv
  OBVIOUS
<1>1. << >> \in Seq(PageEntry) /\ << >> \in Seq(TLBEntry) /\ Len(<< >>) = 0
  BY EmptySeq
<1>2. TypeOK
  BY <1>1, Counts, PageCountAssumption, TLBSizeAssumption, MaxAddressesAssumption
  DEF Init, TypeOK, PageEntry, TLBEntry, Nothing
<1>3. Tables
  BY <1>1, PageCountAssumption, TLBSizeAssumption DEF Init, Tables, PagesOnce, TLBAgrees
<1>4. Progress /\ Held
  BY DEF Init, Progress, Held
<1> QED
  BY <1>2, <1>3, <1>4 DEF Inv

\* A step that leaves the tables alone keeps Tables.
LEMMA TablesUnchanged == Tables /\ UNCHANGED tables => Tables'
BY DEF Tables, tables, PagesOnce, TLBAgrees

\* A translation keeps the types of the tables, too.
LEMMA TranslateTypes ==
  ASSUME Inv, NEW page \in Page, Translate(page)
  PROVE  /\ Tables'
         /\ pageTable' \in Seq([page : Page, age : Nat]) /\ Len(pageTable') <= PAGECOUNT
         /\ tlb' \in Seq([page : Page, frame : Frame, age : Nat]) /\ Len(tlb') <= TLBSIZE
         /\ pageFaults' \in Nat /\ TLBHits' \in Nat
<1>1. Tables' /\ pageFaults' \in Nat /\ TLBHits' \in Nat
  BY TranslateKeeps DEF Inv, TypeOK
<1> QED
  BY <1>1 DEF Tables, PageEntry, TLBEntry

\* The searches find an index or nothing.
LEMMA LookupType ==
  ASSUME Tables, NEW page
  PROVE  Lookup(page) \in [hit : Frame \cup {None}, index : Frame \cup {None}]
<1>1. /\ pageTable \in Seq(PageEntry) /\ Len(pageTable) <= PAGECOUNT
      /\ tlb \in Seq(TLBEntry)
  BY DEF Tables
<1>2. DOMAIN pageTable \subseteq Frame
  BY <1>1, PageCountAssumption DEF Frame
<1>3. \A n \in DOMAIN tlb : tlb[n].frame \in Frame
  <2>1. \A n \in DOMAIN tlb : tlb[n] \in TLBEntry
    BY <1>1, ElementOfSeq
  <2> QED
    BY <2>1 DEF TLBEntry
<1>4. CheckTLB(page) \in Frame \cup {None}
  BY <1>1, <1>3, IndexOfPage DEF CheckTLB
<1>5. FindPageIndex(page) \in Frame \cup {None}
  BY <1>1, <1>2, IndexOfPage DEF FindPageIndex
<1> QED
  BY <1>4, <1>5 DEF Lookup

\* The invariant is inductive.
LEMMA NextInv == Inv /\ [Next]_vars => Inv'
<1> SUFFICES ASSUME Inv, [Next]_vars PROVE Inv'
  OBVIOUS
<1> USE MaxAddressesAssumption
<1>1. CASE ReadAddresses
  <2>1. TypeOK'
    BY <1>1 DEF ReadAddresses, Inv, TypeOK, tables, section
  <2>2. Tables'
    BY <1>1, TablesUnchanged DEF ReadAddresses, Inv
  <2>3. \A t \in Thread : pc'[t] \in {"new", "loop"} /\ (main' = "sequential" => pc'[t] = "new")
    BY <1>1 DEF ReadAddresses
  <2>4. /\ addressCursor' = 0 /\ numAddresses' \in Nat /\ main' \in {"sequential", "threaded"}
    BY <1>1 DEF ReadAddresses, Inv, Progress
  <2>5. Fetching' = {}
    BY <2>3 DEF Fetching
  <2>6. Overshoot'
    BY <2>4, <2>5, Counts DEF Overshoot
  <2>7. pageTableLock = {}
    BY <1>1, NoneHeld DEF ReadAddresses, Inv, TypeOK, Progress
  <2>8. Held'
    BY <1>1, <2>7, HeldKept DEF ReadAddresses, Inv
  <2> QED
    BY <2>1, <2>2, <2>3, <2>4, <2>6, <2>8 DEF Inv, Progress
<1>2. CASE TooManyAddresses
  <2>1. TypeOK'
    BY <1>2 DEF TooManyAddresses, Inv, TypeOK, tables, section
  <2>2. Tables'
    BY <1>2, TablesUnchanged DEF TooManyAddresses, Inv
  <2>3. /\ \A t \in Thread : pc'[t] = "new"
        /\ addressCursor' = 0 /\ numAddresses' = 0 /\ main' = "exit"
    BY <1>2 DEF TooManyAddresses, Inv, Progress
  <2>4. Fetching' = {}
    BY <2>3 DEF Fetching
  <2>5. Overshoot'
    BY <2>3, <2>4, Counts DEF Overshoot
  <2>6. Held'
    BY <1>2, HeldKept DEF TooManyAddresses, Inv
  <2> QED
    BY <2>1, <2>2, <2>3, <2>5, <2>6 DEF Inv, Progress
<1>3. CASE TranslateNext
  <2>1. PICK page \in Page : Translate(page)
    BY <1>3 DEF TranslateNext
  <2>2. TypeOK'
    <3>1. addressCursor' \in Nat
      BY <1>3 DEF TranslateNext, Inv, TypeOK
    <3> QED
      BY <1>3, <2>1, <3>1, TranslateTypes DEF TranslateNext, Inv, TypeOK, section
  <2>3. Tables'
    BY <2>1, TranslateTypes
  <2>4. Progress'
    BY <1>3 DEF TranslateNext, Inv, TypeOK, Progress
  <2>5. pageTableLock = {}
    BY <1>3, NoneHeld DEF TranslateNext, Inv, TypeOK, Progress
  <2>6. Held'
    BY <1>3, <2>5 DEF TranslateNext, section, Held
  <2> QED
    BY <2>2, <2>3, <2>4, <2>6 DEF Inv
<1>4. CASE Finish
  <2>1. TypeOK'
    BY <1>4 DEF Finish, Inv, TypeOK, tables, section
  <2>2. Tables'
    BY <1>4, TablesUnchanged DEF Finish, Inv
  <2>3. addressCursor \in Nat /\ numAddresses \in Nat
    BY DEF Inv, TypeOK
  <2>4. addressCursor >= numAddresses
    BY <1>4, <2>3, ThreadAssumption DEF Finish, Inv, Progress
  <2>5. Overshoot
    <3>1. CASE main = "sequential"
      <4>1. Fetching = {}
        BY <3>1 DEF Inv, Progress, Fetching
      <4> QED
        BY <1>4, <2>3, <3>1, <4>1, Counts DEF Finish, Overshoot
    <3>2. CASE main = "threaded"
      BY <3>2 DEF Inv, Progress
    <3> QED
      BY <1>4, <3>1, <3>2 DEF Finish
  <2>6. Overshoot'
    BY <1>4, <2>5 DEF Finish, Overshoot, Fetching
  <2>7. Progress'
    BY <1>4, <2>4, <2>6 DEF Finish, Inv, Progress
  <2>8. Held'
    BY <1>4, HeldKept DEF Finish, Inv
  <2> QED
    BY <2>1, <2>2, <2>7, <2>8 DEF Inv
<1>5. ASSUME NEW t \in Thread, Enter(t) PROVE Inv'
  <2>1. TypeOK'
    BY <1>5 DEF Enter, Inv, TypeOK, tables, section
  <2>2. Tables'
    BY <1>5, TablesUnchanged DEF Enter, Inv
  <2>3. main \notin {"start", "sequential"}
    BY <1>5 DEF Enter, Inv, Progress
  <2>4. addressCursor < numAddresses
    BY <1>5 DEF Enter, InList
  <2>5. Overshoot'
    BY <1>5, <2>4 DEF Enter, Overshoot
  <2>6. \A s \in Thread : pc'[s] = IF s = t THEN "fetch" ELSE pc[s]
    BY <1>5 DEF Enter, Inv, TypeOK
  <2>7. Progress'
    BY <1>5, <2>3, <2>4, <2>5, <2>6 DEF Enter, Inv, Progress
  <2>8. Held'
    <3>1. \A s \in pageTableLock : pc'[s] = pc[s] /\ fetched'[s] = fetched[s]
      BY <1>5, <2>6 DEF Enter, Inv, TypeOK, Held
    <3> QED
      BY <1>5, <3>1, HeldKept DEF Enter, Inv
  <2> QED
    BY <2>1, <2>2, <2>7, <2>8 DEF Inv
<1>6. ASSUME NEW t \in Thread, Leave(t) PROVE Inv'
  <2>1. TypeOK'
    BY <1>6 DEF Leave, Inv, TypeOK, tables, section
  <2>2. Tables'
    BY <1>6, TablesUnchanged DEF Leave, Inv
  <2>3. main \notin {"start", "sequential"}
    BY <1>6 DEF Leave, Inv, Progress
  <2>4. addressCursor >= numAddresses
    BY <1>6 DEF Leave, InList, Inv, TypeOK
  <2>5. \A s \in Thread : pc'[s] = IF s = t THEN "ended" ELSE pc[s]
    BY <1>6 DEF Leave, Inv, TypeOK
  <2>6. Fetching' = Fetching
    BY <1>6, <2>5 DEF Leave, Fetching
  <2>7. Overshoot => Overshoot'
    BY <1>6, <2>6 DEF Leave, Overshoot
  <2>8. Progress'
    BY <1>6, <2>3, <2>4, <2>5, <2>7 DEF Leave, Inv, Progress
  <2>9. Held'
    <3>1. \A s \in pageTableLock : pc'[s] = pc[s] /\ fetched'[s] = fetched[s]
      BY <1>6, <2>5 DEF Leave, Inv, TypeOK, Held
    <3> QED
      BY <1>6, <3>1, HeldKept DEF Leave, Inv
  <2> QED
    BY <2>1, <2>2, <2>8, <2>9 DEF Inv
<1>7. ASSUME NEW t \in Thread, Fetch(t) PROVE Inv'
  <2>1. TypeOK'
    BY <1>7 DEF Fetch, Inv, TypeOK, tables, section
  <2>2. Tables'
    BY <1>7, TablesUnchanged DEF Fetch, Inv
  <2>3. main \notin {"start", "sequential"}
    BY <1>7 DEF Fetch, Inv, Progress
  <2>4. /\ \A s \in Thread : pc'[s] = IF s = t THEN "translate" ELSE pc[s]
        /\ fetched'[t] \in Page
        /\ \A s \in Thread : s # t => fetched'[s] = fetched[s]
    BY <1>7 DEF Fetch, Inv, TypeOK
  <2>5. Fetching' = Fetching \ {t} /\ t \in Fetching
    BY <1>7, <2>4 DEF Fetch, Fetching
  <2>6. Cardinality(Fetching') = Cardinality(Fetching) - 1
    BY <2>5, FetchingCount, FS_RemoveElement
  <2>7. addressCursor \in Nat /\ numAddresses \in Nat
    BY DEF Inv, TypeOK
  <2>8. addressCursor' = addressCursor + 1 /\ numAddresses' = numAddresses
    BY <1>7 DEF Fetch
  <2>9. Overshoot => Overshoot'
    BY <2>6, <2>7, <2>8, Counts, FetchingCount DEF Overshoot
  <2>10. Progress'
    BY <1>7, <2>3, <2>4, <2>7, <2>8, <2>9 DEF Fetch, Inv, Progress
  <2>11. Held'
    <3>1. \A s \in pageTableLock : pc'[s] = pc[s] /\ fetched'[s] = fetched[s]
      BY <1>7, <2>4 DEF Fetch, Inv, TypeOK, Held
    <3> QED
      BY <1>7, <3>1, HeldKept DEF Fetch, Inv
  <2> QED
    BY <2>1, <2>2, <2>10, <2>11 DEF Inv
<1>8. ASSUME NEW t \in Thread, LookUp(t) PROVE Inv'
  <2>1. /\ pageTableLock = {} /\ pageTableLock' = {t}
        /\ pc' = pc /\ fetched' = fetched /\ UNCHANGED tables
        /\ pc[t] = "translate"
    BY <1>8 DEF LookUp, Unlocked
  <2>2. Lookup(fetched[t]) \in [hit : Frame \cup {None}, index : Frame \cup {None}]
    BY LookupType DEF Inv
  <2>3. Cardinality({t}) = 1
    BY FS_Singleton
  <2>4. TypeOK'
    BY <1>8, <2>1, <2>2, <2>3 DEF LookUp, Inv, TypeOK, tables
  <2>5. Tables'
    BY <2>1, TablesUnchanged DEF Inv
  <2>6. Progress'
    BY <1>8, <2>1 DEF LookUp, Inv, Progress, Overshoot, Fetching
  <2>7. looked'[t] = Lookup(fetched[t])
    BY <1>8 DEF LookUp, Inv, TypeOK
  <2>8. Lookup(fetched[t])' = Lookup(fetched[t])
    BY <2>1 DEF tables, Lookup, CheckTLB, FindPageIndex
  <2>9. Held'
    BY <2>1, <2>7, <2>8 DEF Held
  <2> QED
    BY <2>4, <2>5, <2>6, <2>9 DEF Inv
<1>9. ASSUME NEW t \in Thread, TranslateFetched(t) PROVE Inv'
  <2>1. fetched[t] \in Page /\ Translate(fetched[t])
    BY <1>9, HolderTranslates DEF TranslateFetched, Inv, Progress
  <2>2. pageTableLock' = {}
    BY <1>9 DEF TranslateFetched, Inv, Held
  <2>3. Nothing \in [hit : Frame \cup {None}, index : Frame \cup {None}]
    BY DEF Nothing
  <2>4. TypeOK'
    <3>1. /\ pc' \in [Thread -> {"new", "loop", "fetch", "translate", "ended"}]
          /\ fetched' \in [Thread -> Page \cup {NoPage}]
          /\ looked' \in [Thread -> [hit : Frame \cup {None}, index : Frame \cup {None}]]
      BY <1>9, <2>3 DEF TranslateFetched, Inv, TypeOK
    <3>2. pageTableLock' \in SUBSET Thread /\ Cardinality(pageTableLock') <= 1
      BY <2>2, Counts
    <3>3. /\ pageTable' \in Seq([page : Page, age : Nat]) /\ Len(pageTable') <= PAGECOUNT
          /\ tlb' \in Seq([page : Page, frame : Frame, age : Nat]) /\ Len(tlb') <= TLBSIZE
          /\ pageFaults' \in Nat /\ TLBHits' \in Nat
      BY <2>1, TranslateTypes
    <3> QED
      BY <1>9, <3>1, <3>2, <3>3 DEF TranslateFetched, Inv, TypeOK
  <2>5. Tables'
    BY <1>9, <2>1, TranslateTypes DEF TranslateFetched
  <2>6. main \notin {"start", "sequential"}
    BY <1>9 DEF TranslateFetched, Inv, Progress
  <2>7. /\ \A s \in Thread : pc'[s] = IF s = t THEN "loop" ELSE pc[s]
        /\ \A s \in Thread : s # t => fetched'[s] = fetched[s]
    BY <1>9 DEF TranslateFetched, Inv, TypeOK
  <2>8. Fetching' = Fetching
    BY <1>9, <2>7 DEF TranslateFetched, Fetching
  <2>9. Overshoot => Overshoot'
    BY <1>9, <2>8 DEF TranslateFetched, Overshoot
  <2>10. Progress'
    BY <1>9, <2>6, <2>7, <2>9 DEF TranslateFetched, Inv, Progress
  <2>11. Held'
    BY <2>2 DEF Held
  <2> QED
    BY <2>4, <2>5, <2>10, <2>11 DEF Inv
<1>10. CASE UNCHANGED vars
  <2>1. TypeOK'
    BY <1>10 DEF vars, tables, section, Inv, TypeOK
  <2>2. Tables'
    BY <1>10, TablesUnchanged DEF vars, tables, Inv
  <2>3. Progress'
    BY <1>10 DEF vars, Inv, Progress, Overshoot, Fetching
  <2>4. Held'
    BY <1>10, HeldKept DEF vars, tables, section, Inv
  <2> QED
    BY <2>1, <2>2, <2>3, <2>4 DEF Inv
<1> QED
  BY <1>1, <1>2, <1>3, <1>4, <1>5, <1>6, <1>7, <1>8, <1>9, <1>10
  DEF Next, mainThread, checkMemory, Over

\* What the threads do to the cursor.
LEMMA CursorBoundsFollows == Inv => CursorBounds
<1> SUFFICES ASSUME Inv PROVE CursorBounds
  OBVIOUS
<1>1. addressCursor \in Nat /\ numAddresses \in Nat
  BY MaxAddressesAssumption DEF Inv, TypeOK
<1>2. main \in {"start", "sequential", "threaded", "exit"} /\ Progress
  BY DEF Inv, TypeOK
<1>3. ASSUME Overshoot PROVE addressCursor <= numAddresses + Cardinality(Thread) - 1
  BY <1>1, <1>3, Counts, FetchingCount DEF Overshoot
<1> QED
  BY <1>1, <1>2, <1>3, Counts DEF Progress, CursorBounds

-----------------------------------------------------------------------------

\* The invariant of the virtual memory manager.
THEOREM Invariance == Spec => []Inv
BY InitInv, NextInv, PTL DEF Spec

\* Every variable keeps its type (vmm.h:19-38): no index leaves its table.
THEOREM TypeCorrect == Spec => []TypeOK
<1>1. Inv => TypeOK
  BY DEF Inv
<1> QED
  BY <1>1, Invariance, PTL

\* No page is in two frames (vmm.c:400-429).
THEOREM PagesLoadedOnce == Spec => []PagesOnce
<1>1. Inv => PagesOnce
  BY DEF Inv, Tables
<1> QED
  BY <1>1, Invariance, PTL

\* The entries of the TLB agree with each other and with the page table (vmm.c:428).
THEOREM TLBAlwaysAgrees == Spec => []TLBAgrees
<1>1. Inv => TLBAgrees
  BY DEF Inv, Tables
<1> QED
  BY <1>1, Invariance, PTL

\* Every address is handled, and no thread reads further than one behind the list
\* more than once (vmm.c:387).
THEOREM CursorBounded == Spec => []CursorBounds
BY Invariance, CursorBoundsFollows, PTL

-----------------------------------------------------------------------------
(***************************************************************************)
(* The choice of a victim                                                  *)
(***************************************************************************)

\* The ages of a table with k entries are 1 to k: each put makes all entries older,
\* the new one is the only one of age 1, and the one of age k is replaced when there
\* is no room.
Ranked(entries) ==
  /\ \A n \in DOMAIN entries : entries[n].age \in 1 .. Len(entries)
  /\ \A m, n \in DOMAIN entries : entries[m].age = entries[n].age => m = n
  /\ \A age \in 1 .. Len(entries) : \E n \in DOMAIN entries : entries[n].age = age

\* A function that falls from at most k down to at least 1 in k steps falls by one in
\* each: consider the first place where it is too high, or the last where it is too low.
LEMMA FallsByOne ==
  ASSUME NEW k \in Nat, NEW a \in [1 .. k -> 1 .. k],
         \A j, m \in 1 .. k : j < m => a[m] < a[j]
  PROVE  \A j \in 1 .. k : a[j] = k + 1 - j
<1>1. \A j \in 1 .. k : a[j] \in Nat /\ 1 <= a[j] /\ a[j] <= k
  OBVIOUS
<1>2. ASSUME NEW j \in 1 .. k, a[j] > k + 1 - j PROVE FALSE
  <2> DEFINE high == {m \in 1 .. k : a[m] > k + 1 - m}
  <2>1. high \subseteq Nat /\ j \in high
    BY <1>2
  <2>2. PICK m \in high : \A o \in high : m <= o
    BY <2>1, LeastNat
  <2>3. m \in 1 .. k /\ a[m] > k + 1 - m
    BY <2>2
  <2>4. m # 1
    BY <1>1, <2>3
  <2>5. m - 1 \in 1 .. k /\ m - 1 < m
    BY <2>3, <2>4
  <2>6. ~ (a[m - 1] > k + 1 - (m - 1))
    <3>1. ~ (m <= m - 1)
      BY <2>3
    <3>2. m - 1 \notin high
      BY <2>2, <3>1
    <3> QED
      BY <2>5, <3>2
  <2> QED
    BY <1>1, <2>3, <2>5, <2>6
<1>3. ASSUME NEW j \in 1 .. k, a[j] < k + 1 - j PROVE FALSE
  <2> DEFINE low == {m \in 0 .. k - 1 : a[k - m] < m + 1}
  <2>1. low \subseteq Nat /\ k - j \in low
    BY <1>3
  <2>2. PICK m \in low : \A o \in low : m <= o
    BY <2>1, LeastNat
  <2>3. m \in 0 .. k - 1 /\ a[k - m] < m + 1 /\ k - m \in 1 .. k
    BY <2>2
  <2>4. m # 0
    BY <1>1, <2>3
  <2>5. m - 1 \in 0 .. k - 1 /\ k - (m - 1) \in 1 .. k /\ k - m < k - (m - 1)
    BY <2>3, <2>4
  <2>6. ~ (a[k - (m - 1)] < (m - 1) + 1)
    <3>1. ~ (m <= m - 1)
      BY <2>3
    <3>2. m - 1 \notin low
      BY <2>2, <3>1
    <3> QED
      BY <2>5, <3>2
  <2> QED
    BY <1>1, <2>3, <2>5, <2>6
<1>4. ASSUME NEW j \in 1 .. k PROVE a[j] = k + 1 - j
  <2>1. ~ (a[j] > k + 1 - j) /\ ~ (a[j] < k + 1 - j)
    BY <1>2, <1>3
  <2> QED
    BY <1>1, <2>1
<1> QED
  BY <1>4

\* By age, the entry at position k is the one of that rank.
LEMMA ByAgeRank ==
  ASSUME NEW E, NEW entries \in Seq(E), Ranked(entries)
  PROVE  /\ DOMAIN ByAge(entries) = 1 .. Len(entries)
         /\ \A n \in DOMAIN entries : ByAge(entries)[Len(entries) + 1 - entries[n].age] = entries[n]
         /\ \A k \in 1 .. Len(entries) : \E n \in DOMAIN entries :
              entries[n].age = Len(entries) + 1 - k /\ ByAge(entries)[k] = entries[n]
<1> DEFINE L == Len(entries)
           Places == [DOMAIN entries -> DOMAIN entries]
           sorted(place) == \A j, k \in DOMAIN entries :
                              j < k => place[j] # place[k] /\ entries[place[j]].age >= entries[place[k]].age
           order == CHOOSE place \in Places : sorted(place)
           byRank == [k \in 1 .. L |-> CHOOSE n \in DOMAIN entries : entries[n].age = L + 1 - k]
<1>1. L \in Nat /\ DOMAIN entries = 1 .. L
  OBVIOUS
<1>2. /\ \A n \in DOMAIN entries : entries[n].age \in 1 .. L
      /\ \A m, n \in DOMAIN entries : entries[m].age = entries[n].age => m = n
      /\ \A age \in 1 .. L : \E n \in DOMAIN entries : entries[n].age = age
  BY DEF Ranked
<1>3. ByAge(entries) = [k \in DOMAIN entries |-> entries[order[k]]]
  BY DEF ByAge
<1> HIDE DEF L
<1>4. byRank \in Places /\ sorted(byRank)
  <2>1. \A k \in 1 .. L : L + 1 - k \in 1 .. L
    BY <1>1
  <2>2. \A k \in 1 .. L : byRank[k] \in DOMAIN entries /\ entries[byRank[k]].age = L + 1 - k
    BY <1>2, <2>1
  <2>3. byRank \in Places
    BY <1>1, <2>2
  <2> HIDE DEF byRank
  <2>4. ASSUME NEW j \in 1 .. L, NEW k \in 1 .. L, j < k
        PROVE  byRank[j] # byRank[k] /\ entries[byRank[j]].age >= entries[byRank[k]].age
    <3>1. L + 1 - j > L + 1 - k
      BY <1>1, <2>4
    <3> QED
      BY <1>1, <2>2, <3>1
  <2> QED
    BY <1>1, <2>3, <2>4
<1>5. order \in Places /\ sorted(order)
  <2> HIDE DEF byRank, sorted, Places
  <2> QED
    BY <1>4
<1> HIDE DEF order, byRank
<1> DEFINE a == [k \in 1 .. L |-> entries[order[k]].age]
<1>6. a \in [1 .. L -> 1 .. L]
  <2>1. \A k \in 1 .. L : order[k] \in DOMAIN entries
    BY <1>1, <1>5
  <2>2. \A k \in 1 .. L : entries[order[k]].age \in 1 .. L
    BY <1>2, <2>1
  <2> QED
    BY <2>2
<1>7. ASSUME NEW j \in 1 .. L, NEW k \in 1 .. L, j < k PROVE a[k] < a[j]
  <2>1. /\ order[j] # order[k] /\ entries[order[j]].age >= entries[order[k]].age
        /\ order[j] \in DOMAIN entries /\ order[k] \in DOMAIN entries
    BY <1>1, <1>5, <1>7
  <2>2. entries[order[j]].age # entries[order[k]].age
    BY <1>2, <2>1
  <2>3. a[j] >= a[k] /\ a[j] # a[k] /\ a[j] \in Nat /\ a[k] \in Nat
    BY <1>6, <2>1, <2>2
  <2> QED
    BY <2>3
<1>8. \A k \in 1 .. L : a[k] = L + 1 - k
  <2> HIDE DEF a
  <2> QED
    BY <1>1, <1>6, <1>7, FallsByOne
<1>9. ASSUME NEW k \in 1 .. L
      PROVE  order[k] \in DOMAIN entries /\ entries[order[k]].age = L + 1 - k
  BY <1>1, <1>5, <1>8
<1>10. ASSUME NEW n \in DOMAIN entries
       PROVE  ByAge(entries)[L + 1 - entries[n].age] = entries[n]
  <2> DEFINE k == L + 1 - entries[n].age
  <2>1. k \in 1 .. L /\ L + 1 - k = entries[n].age
    <3>1. \A age \in 1 .. L : L + 1 - age \in 1 .. L /\ L + 1 - (L + 1 - age) = age
      BY <1>1
    <3> QED
      BY <1>2, <3>1
  <2> HIDE DEF k
  <2>2. order[k] = n
    BY <1>2, <1>9, <2>1
  <2>3. ByAge(entries)[k] = entries[n]
    BY <1>1, <1>3, <2>1, <2>2
  <2> QED
    BY <2>3 DEF k
<1>11. ASSUME NEW k \in 1 .. L
       PROVE  \E n \in DOMAIN entries : entries[n].age = L + 1 - k /\ ByAge(entries)[k] = entries[n]
  BY <1>1, <1>3, <1>9
<1>12. DOMAIN ByAge(entries) = 1 .. L
  BY <1>1, <1>3
<1> QED
  BY <1>10, <1>11, <1>12 DEF L

\* What is ordered are entries.
LEMMA ByAgeEntries ==
  ASSUME NEW E, NEW entries \in Seq(E), Ranked(entries)
  PROVE  \A n \in DOMAIN entries : ByAge(entries)[n] \in E
BY ByAgeRank, ElementOfSeq

\* A table without entries is ranked.
LEMMA RankedEmpty == Ranked(<< >>)
BY DEF Ranked

\* The oldest of ranked entries has the last rank.
LEMMA OldestRank ==
  ASSUME NEW E, NEW entries \in Seq(E), Ranked(entries), Len(entries) # 0
  PROVE  Oldest(entries) \in DOMAIN entries /\ entries[Oldest(entries)].age = Len(entries)
<1>1. Len(entries) \in Nat \ {0} /\ DOMAIN entries = 1 .. Len(entries)
  OBVIOUS
<1>2. PICK n \in DOMAIN entries : entries[n].age = Len(entries)
  BY <1>1 DEF Ranked
<1>3. \A m \in DOMAIN entries : entries[m].age \in 1 .. Len(entries) /\ (entries[m].age = Len(entries) => m = n)
  BY <1>2 DEF Ranked
<1>4. \A m \in DOMAIN entries : \/ entries[m].age < entries[n].age
                                \/ entries[m].age = entries[n].age /\ m <= n
  BY <1>1, <1>2, <1>3
<1>5. /\ Oldest(entries) \in DOMAIN entries
      /\ \A m \in DOMAIN entries : \/ entries[m].age < entries[Oldest(entries)].age
                                   \/ entries[m].age = entries[Oldest(entries)].age /\ m <= Oldest(entries)
  BY <1>4, Zenon DEF Oldest
<1>6. \/ entries[n].age < entries[Oldest(entries)].age
      \/ entries[n].age = entries[Oldest(entries)].age /\ n <= Oldest(entries)
  BY <1>2, <1>5
<1> QED
  BY <1>1, <1>2, <1>3, <1>5, <1>6

\* How many entries a table has after a put.
Grown(entries, room) == IF Len(entries) = room THEN Len(entries) ELSE Len(entries) + 1

\* A put keeps the ranks.
LEMMA PutRanked ==
  ASSUME NEW E, NEW entries \in Seq(E), Ranked(entries),
         NEW room \in Nat \ {0}, Len(entries) <= room,
         NEW entry \in E, entry.age = 0,
         \A e \in E : Older(e) \in E /\ (e.age \in Nat => Older(e).age = e.age + 1),
         NEW result, IsPut(E, entries, Place(entries, room), entry, result)
  PROVE  /\ Ranked(result)
         /\ Len(result) = Grown(entries, room)
         /\ \A n \in DOMAIN entries :
              n # Place(entries, room) => result[n].age = entries[n].age + 1
         /\ result[Place(entries, room)].age = 1
         /\ Place(entries, room) \in DOMAIN entries => entries[Place(entries, room)].age = room
<1> DEFINE place == Place(entries, room)
           L == Len(entries)
<1>1. L \in Nat /\ DOMAIN entries = 1 .. L /\ L <= room
  OBVIOUS
<1>2. /\ result \in Seq(E)
      /\ DOMAIN result = DOMAIN entries \cup {place}
      /\ Len(result) = IF place \in DOMAIN entries THEN L ELSE place
      /\ result[place] = Older(entry)
      /\ \A n \in DOMAIN entries \ {place} : result[n] = Older(entries[n])
  BY DEF IsPut
<1>3. /\ \A n \in DOMAIN entries : entries[n].age \in 1 .. L
      /\ \A m, n \in DOMAIN entries : entries[m].age = entries[n].age => m = n
      /\ \A age \in 1 .. L : \E n \in DOMAIN entries : entries[n].age = age
  BY DEF Ranked
<1>4. CASE L = room
  <2>1. place = Oldest(entries) /\ Len(entries) # 0
    BY <1>4 DEF Place
  <2>2. place \in DOMAIN entries /\ entries[place].age = L
    BY <2>1, OldestRank
  <2> HIDE DEF place, L
  <2>3. Len(result) = L /\ DOMAIN result = DOMAIN entries
    BY <1>2, <2>2
  <2>4. result[place].age = 1
    BY <1>2
  <2>5. ASSUME NEW n \in DOMAIN entries, n # place
        PROVE  result[n].age = entries[n].age + 1 /\ entries[n].age \in 1 .. L - 1
    <3>1. entries[n] \in E /\ entries[n].age \in 1 .. L /\ entries[n].age # L
      BY <1>3, <2>2, <2>5, ElementOfSeq
    <3>2. result[n] = Older(entries[n]) /\ entries[n].age \in Nat
      BY <1>1, <1>2, <2>5, <3>1
    <3> QED
      BY <1>1, <3>1, <3>2
  <2>6. \A n \in DOMAIN result : result[n].age \in 1 .. L
    BY <1>1, <1>4, <2>3, <2>4, <2>5
  <2>7. ASSUME NEW m \in DOMAIN result, NEW n \in DOMAIN result, result[m].age = result[n].age
        PROVE  m = n
    <3>1. CASE m = place \/ n = place
      BY <1>1, <2>3, <2>4, <2>5, <2>7, <3>1
    <3>2. CASE m # place /\ n # place
      <4>1. entries[m].age = entries[n].age
        BY <1>1, <2>3, <2>5, <2>7, <3>2
      <4> QED
        BY <1>3, <2>3, <4>1
    <3> QED
      BY <3>1, <3>2
  <2>8. ASSUME NEW age \in 1 .. L PROVE \E n \in DOMAIN result : result[n].age = age
    <3>1. CASE age = 1
      BY <2>2, <2>3, <2>4, <3>1
    <3>2. CASE age # 1
      <4>1. age - 1 \in 1 .. L /\ age - 1 # L /\ (age - 1) + 1 = age
        BY <1>1, <2>8, <3>2
      <4>2. PICK n \in DOMAIN entries : entries[n].age = age - 1
        BY <1>3, <4>1
      <4>3. n # place
        BY <2>2, <4>1, <4>2
      <4> QED
        BY <2>3, <2>5, <4>1, <4>2, <4>3
    <3> QED
      BY <3>1, <3>2
  <2>9. Ranked(result)
    BY <2>3, <2>6, <2>7, <2>8 DEF Ranked
  <2> QED
    BY <1>4, <2>2, <2>3, <2>4, <2>5, <2>9 DEF Grown, place, L
<1>5. CASE L # room
  <2>1. place = L + 1 /\ place \notin DOMAIN entries
    <3>1. place = L + 1
      BY <1>5 DEF Place
    <3>2. L + 1 \notin 1 .. L
      BY <1>1
    <3> QED
      BY <1>1, <3>1, <3>2
  <2> HIDE DEF place, L
  <2>2. Len(result) = L + 1 /\ DOMAIN result = DOMAIN entries \cup {place}
    BY <1>2, <2>1
  <2>3. result[place].age = 1
    BY <1>2
  <2>4. ASSUME NEW n \in DOMAIN entries
        PROVE  n # place /\ result[n].age = entries[n].age + 1 /\ entries[n].age \in 1 .. L
    <3>1. entries[n] \in E /\ entries[n].age \in 1 .. L
      BY <1>3, ElementOfSeq
    <3>2. result[n] = Older(entries[n]) /\ entries[n].age \in Nat
      BY <1>1, <1>2, <2>1, <3>1
    <3> QED
      BY <2>1, <3>1, <3>2
  <2>5. \A n \in DOMAIN result : result[n].age \in 1 .. L + 1
    BY <1>1, <2>2, <2>3, <2>4
  <2>6. ASSUME NEW m \in DOMAIN result, NEW n \in DOMAIN result, result[m].age = result[n].age
        PROVE  m = n
    <3>1. CASE m = place \/ n = place
      BY <1>1, <2>2, <2>3, <2>4, <2>6, <3>1
    <3>2. CASE m # place /\ n # place
      <4>1. entries[m].age = entries[n].age
        BY <1>1, <2>2, <2>4, <2>6, <3>2
      <4> QED
        BY <1>3, <2>2, <3>2, <4>1
    <3> QED
      BY <3>1, <3>2
  <2>7. ASSUME NEW age \in 1 .. L + 1 PROVE \E n \in DOMAIN result : result[n].age = age
    <3>1. CASE age = 1
      BY <2>2, <2>3, <3>1
    <3>2. CASE age # 1
      <4>1. age - 1 \in 1 .. L /\ (age - 1) + 1 = age
        BY <1>1, <2>7, <3>2
      <4>2. PICK n \in DOMAIN entries : entries[n].age = age - 1
        BY <1>3, <4>1
      <4> QED
        BY <2>2, <2>4, <4>1, <4>2
    <3> QED
      BY <3>1, <3>2
  <2>8. Ranked(result)
    BY <2>2, <2>5, <2>6, <2>7 DEF Ranked
  <2> QED
    BY <1>5, <2>1, <2>2, <2>3, <2>4, <2>8 DEF Grown, place, L
<1> QED
  BY <1>4, <1>5

\* The order by age after a put: the first entry is gone if there was no room, the
\* others follow as before, a translation older, and the new one is the last.
LEMMA PutOrder ==
  ASSUME NEW E, NEW entries \in Seq(E), Ranked(entries),
         NEW room \in Nat \ {0}, Len(entries) <= room,
         NEW entry \in E, entry.age = 0,
         \A e \in E : Older(e) \in E /\ (e.age \in Nat => Older(e).age = e.age + 1),
         NEW result, IsPut(E, entries, Place(entries, room), entry, result)
  PROVE  LET k == Grown(entries, room)
             lost == IF Len(entries) = room THEN 1 ELSE 0
         IN  /\ DOMAIN ByAge(result) = 1 .. k
             /\ ByAge(result)[k] = Older(entry)
             /\ \A j \in 1 .. k - 1 : ByAge(result)[j] = Older(ByAge(entries)[j + lost])
<1> DEFINE place == Place(entries, room)
           L == Len(entries)
           k == Grown(entries, room)
           lost == IF L = room THEN 1 ELSE 0
<1>1. L \in Nat /\ DOMAIN entries = 1 .. L
  OBVIOUS
<1>2. k \in Nat /\ k = L + 1 - lost /\ lost \in {0, 1}
  <2>1. k = (IF L = room THEN L ELSE L + 1)
    BY DEF Grown
  <2> HIDE DEF k, L
  <2> QED
    BY <1>1, <2>1
<1>3. /\ Ranked(result)
      /\ Len(result) = k
      /\ \A n \in DOMAIN entries : n # place => result[n].age = entries[n].age + 1
      /\ result[place].age = 1
      /\ place \in DOMAIN entries => entries[place].age = room
  BY PutRanked
<1>4. /\ result \in Seq(E) /\ result[place] = Older(entry)
      /\ DOMAIN result = DOMAIN entries \cup {place}
      /\ \A n \in DOMAIN entries \ {place} : result[n] = Older(entries[n])
  BY DEF IsPut
<1> HIDE DEF place, k, lost
<1>5. /\ DOMAIN ByAge(result) = 1 .. k
      /\ \A n \in DOMAIN result : ByAge(result)[k + 1 - result[n].age] = result[n]
      /\ \A j \in 1 .. k : \E n \in DOMAIN result :
           result[n].age = k + 1 - j /\ ByAge(result)[j] = result[n]
  <2>1. /\ DOMAIN ByAge(result) = 1 .. Len(result)
        /\ \A n \in DOMAIN result : ByAge(result)[Len(result) + 1 - result[n].age] = result[n]
        /\ \A j \in 1 .. Len(result) : \E n \in DOMAIN result :
             result[n].age = Len(result) + 1 - j /\ ByAge(result)[j] = result[n]
    <3>1. result \in Seq(E) /\ Ranked(result)
      BY <1>3, <1>4
    <3> QED
      BY <3>1, ByAgeRank
  <2> QED
    BY <1>3, <2>1, Zenon
<1>6. \A n \in DOMAIN entries : ByAge(entries)[L + 1 - entries[n].age] = entries[n]
  BY ByAgeRank
<1>7. ByAge(result)[k] = Older(entry)
  <2>1. place \in DOMAIN result /\ k + 1 - result[place].age = k
    BY <1>2, <1>3, <1>4
  <2> QED
    BY <1>4, <1>5, <2>1
<1>8. ASSUME NEW j \in 1 .. k - 1 PROVE ByAge(result)[j] = Older(ByAge(entries)[j + lost])
  <2>1. PICK n \in DOMAIN result : result[n].age = k + 1 - j /\ ByAge(result)[j] = result[n]
    BY <1>2, <1>5
  <2>2. n # place
    BY <1>2, <1>3, <2>1
  <2>3. n \in DOMAIN entries /\ result[n] = Older(entries[n]) /\ result[n].age = entries[n].age + 1
    BY <1>3, <1>4, <2>2
  <2>4. entries[n].age \in 1 .. L
    BY <2>3 DEF Ranked
  <2>5. L + 1 - entries[n].age = j + lost
    <3> HIDE DEF L
    <3>1. k + 1 - j = entries[n].age + 1
      BY <2>1, <2>3
    <3>2. \A age \in 1 .. L : k + 1 - j = age + 1 => L + 1 - age = j + lost
      BY <1>1, <1>2
    <3> QED
      BY <2>4, <3>1, <3>2
  <2> QED
    BY <1>6, <2>1, <2>3, <2>5
<1> QED
  BY <1>5, <1>7, <1>8 DEF k, lost

\* What an item is told of an entry: the same, however old the entry is.
Queue(entries, P) == [n \in DOMAIN entries |-> P[ByAge(entries)[n]]]

\* A put is an insertion into the queue of the items.
LEMMA PutInserts ==
  ASSUME NEW E, NEW entries \in Seq(E), Ranked(entries),
         NEW room \in Nat \ {0}, Len(entries) <= room,
         NEW entry \in E, entry.age = 0,
         \A e \in E : Older(e) \in E /\ (e.age \in Nat => Older(e).age = e.age + 1),
         NEW result, IsPut(E, entries, Place(entries, room), entry, result),
         NEW P, \A e \in E : P[Older(e)] = P[e]
  PROVE  Queue(result, P) =
           Append(IF Len(Queue(entries, P)) = room THEN Tail(Queue(entries, P)) ELSE Queue(entries, P),
                  P[entry])
<1> DEFINE q == Queue(entries, P)
           L == Len(entries)
           k == Grown(entries, room)
           lost == IF L = room THEN 1 ELSE 0
           rest == IF Len(q) = room THEN Tail(q) ELSE q
           r == Queue(result, P)
           Item == {P[e] : e \in E}
<1>1. L \in Nat /\ DOMAIN entries = 1 .. L
  OBVIOUS
<1>2. /\ DOMAIN ByAge(result) = 1 .. k
      /\ ByAge(result)[k] = Older(entry)
      /\ \A j \in 1 .. k - 1 : ByAge(result)[j] = Older(ByAge(entries)[j + lost])
  BY PutOrder
<1>3. k \in Nat \ {0} /\ k = L + 1 - lost /\ lost \in {0, 1}
  <2>1. k = (IF L = room THEN L ELSE L + 1)
    BY DEF Grown
  <2> HIDE DEF k, L
  <2> QED
    BY <1>1, <2>1
<1>4. DOMAIN result = 1 .. k
  <2>1. Len(result) = k
    BY PutRanked
  <2>2. result \in Seq(E)
    BY DEF IsPut
  <2> QED
    BY <2>1, <2>2
<1>5. \A j \in 1 .. L : ByAge(entries)[j] \in E
  BY <1>1, ByAgeRank, ElementOfSeq
<1> HIDE DEF L, k, lost
<1>6. q \in Seq(Item) /\ Len(q) = L /\ \A j \in 1 .. L : q[j] = P[ByAge(entries)[j]]
  <2>1. q = [j \in 1 .. L |-> P[ByAge(entries)[j]]]
    BY <1>1 DEF Queue
  <2>2. \A j \in 1 .. L : P[ByAge(entries)[j]] \in Item
    BY <1>5
  <2> HIDE DEF q
  <2> QED
    BY <1>1, <2>1, <2>2
<1> HIDE DEF q
<1>7. rest \in Seq(Item) /\ Len(rest) = k - 1 /\ \A j \in 1 .. k - 1 : rest[j] = q[j + lost]
  <2>1. CASE L = room
    <3>1. rest = Tail(q) /\ lost = 1 /\ k = L
      BY <1>1, <1>3, <1>6, <2>1 DEF lost
    <3>2. q # << >>
      BY <1>6, <2>1, EmptySeq
    <3> QED
      BY <1>1, <1>6, <3>1, <3>2, HeadTailProperties
  <2>2. CASE L # room
    <3>1. rest = q /\ lost = 0 /\ k = L + 1
      BY <1>1, <1>3, <1>6, <2>2 DEF lost
    <3> QED
      BY <1>1, <1>6, <3>1
  <2> QED
    BY <2>1, <2>2
<1> HIDE DEF rest
<1>8. \A j \in 1 .. k - 1 : r[j] = rest[j]
  <2> SUFFICES ASSUME NEW j \in 1 .. k - 1 PROVE r[j] = rest[j]
    OBVIOUS
  <2>1. j \in 1 .. k /\ j + lost \in 1 .. L
    BY <1>1, <1>3
  <2>2. r[j] = P[Older(ByAge(entries)[j + lost])]
    BY <1>2, <1>4, <2>1 DEF Queue
  <2>3. P[Older(ByAge(entries)[j + lost])] = P[ByAge(entries)[j + lost]]
    BY <1>5, <2>1
  <2> QED
    BY <1>6, <1>7, <2>1, <2>2, <2>3
<1>9. r[k] = P[entry]
  BY <1>2, <1>3, <1>4 DEF Queue
<1>10. r = [j \in 1 .. k |-> r[j]]
  BY <1>4 DEF Queue
<1> HIDE DEF r
<1>11. r = Append(rest, P[entry])
  <2>1. /\ Append(rest, P[entry]) \in Seq(Item) /\ Len(Append(rest, P[entry])) = (k - 1) + 1
        /\ \A j \in 1 .. k - 1 : Append(rest, P[entry])[j] = rest[j]
        /\ Append(rest, P[entry])[(k - 1) + 1] = P[entry]
    BY <1>7, AppendProperties
  <2>2. \A j \in 1 .. k : r[j] = Append(rest, P[entry])[j]
    BY <1>3, <1>8, <1>9, <2>1
  <2>3. Append(rest, P[entry]) = [j \in 1 .. k |-> Append(rest, P[entry])[j]]
    BY <1>3, <2>1
  <2> QED
    BY <1>10, <2>2, <2>3
<1> QED
  BY <1>11 DEF r, rest, q

-----------------------------------------------------------------------------
\* Both tables are ranked.
RankedTables == Ranked(pageTable) /\ Ranked(tlb)

\* Older entries have a greater age.
LEMMA OlderAge ==
  /\ \A e \in PageEntry : Older(e) \in PageEntry /\ (e.age \in Nat => Older(e).age = e.age + 1)
  /\ \A e \in TLBEntry : Older(e) \in TLBEntry /\ (e.age \in Nat => Older(e).age = e.age + 1)
<1>1. ASSUME NEW e \in PageEntry
      PROVE  Older(e) \in PageEntry /\ (e.age \in Nat => Older(e).age = e.age + 1)
  BY DEF Older, PageEntry
<1>2. ASSUME NEW e \in TLBEntry
      PROVE  Older(e) \in TLBEntry /\ (e.age \in Nat => Older(e).age = e.age + 1)
  BY DEF Older, TLBEntry
<1> QED
  BY <1>1, <1>2

\* What is kept in the two queues.
PageOf == [e \in PageEntry |-> e.page]
TranslationOf == [e \in TLBEntry |-> << e.page, e.frame >>]
Pages == Queue(pageTable, PageOf)
Translations == Queue(tlb, TranslationOf)

\* Those are the queues of PageTableFifo and TLBFifo.
LEMMA QueuesMeant ==
  ASSUME Tables, RankedTables
  PROVE  /\ Pages = [n \in DOMAIN pageTable |-> ByAge(pageTable)[n].page]
         /\ Translations = [n \in DOMAIN tlb |-> << ByAge(tlb)[n].page, ByAge(tlb)[n].frame >>]
<1>1. \A n \in DOMAIN pageTable : ByAge(pageTable)[n] \in PageEntry
  BY ByAgeEntries DEF Tables, RankedTables
<1>2. \A n \in DOMAIN tlb : ByAge(tlb)[n] \in TLBEntry
  BY ByAgeEntries DEF Tables, RankedTables
<1> QED
  BY <1>1, <1>2 DEF Pages, Translations, Queue, PageOf, TranslationOf

\* An update of the TLB is an insertion into the queue of its translations.
LEMMA UpdateTLBInserts ==
  ASSUME Tables, Ranked(tlb), NEW page \in Page, NEW frame \in Frame, UpdateTLB(page, frame)
  PROVE  /\ Ranked(tlb')
         /\ Translations' = Append(IF Len(Translations) = TLBSIZE THEN Tail(Translations) ELSE Translations,
                                   << page, frame >>)
<1> DEFINE entry == [page |-> page, frame |-> frame, age |-> 0]
           place == Place(tlb, TLBSIZE)
<1>1. tlb \in Seq(TLBEntry) /\ Len(tlb) <= TLBSIZE /\ Aged(tlb)
  BY TablesAged DEF Tables
<1>2. place \in 1 .. TLBSIZE /\ (place \in DOMAIN tlb \/ place = Len(tlb) + 1)
  BY <1>1, TLBSizeAssumption, PlaceInRoom
<1>3. entry \in TLBEntry /\ entry.age = 0
  BY DEF TLBEntry
<1>4. TranslationOf[entry] = << page, frame >>
  BY <1>3 DEF TranslationOf
<1>5. tlb' = Put(tlb, place, entry)
  BY DEF UpdateTLB
<1> HIDE DEF place, entry
<1>6. IsPut(TLBEntry, tlb, place, entry, tlb')
  BY <1>1, <1>2, <1>3, <1>5, OlderEntry, PutEffect
<1>7. IsPut(TLBEntry, tlb, Place(tlb, TLBSIZE), entry, tlb')
  BY <1>6 DEF place
<1>8. \A e \in TLBEntry : TranslationOf[Older(e)] = TranslationOf[e]
  BY OlderEntry DEF TranslationOf
<1>9. Ranked(tlb')
  BY <1>1, <1>3, <1>7, OlderAge, TLBSizeAssumption, PutRanked
<1>10. Queue(tlb', TranslationOf) =
         Append(IF Len(Queue(tlb, TranslationOf)) = TLBSIZE THEN Tail(Queue(tlb, TranslationOf))
                                                            ELSE Queue(tlb, TranslationOf),
                TranslationOf[entry])
  BY <1>1, <1>3, <1>7, <1>8, OlderAge, TLBSizeAssumption, PutInserts
<1> QED
  BY <1>4, <1>9, <1>10 DEF Translations

\* An update of the page table is an insertion into the queue of the pages.
LEMMA UpdatePageTableInserts ==
  ASSUME Tables, Ranked(pageTable), NEW page \in Page,
         UpdatePageTable(page, Place(pageTable, PAGECOUNT))
  PROVE  /\ Ranked(pageTable')
         /\ Pages' = Append(IF Len(Pages) = PAGECOUNT THEN Tail(Pages) ELSE Pages, page)
<1> DEFINE entry == [page |-> page, age |-> 0]
           place == Place(pageTable, PAGECOUNT)
<1>1. pageTable \in Seq(PageEntry) /\ Len(pageTable) <= PAGECOUNT /\ Aged(pageTable)
  BY TablesAged DEF Tables
<1>2. place \in 1 .. PAGECOUNT /\ (place \in DOMAIN pageTable \/ place = Len(pageTable) + 1)
  BY <1>1, PageCountAssumption, PlaceInRoom
<1>3. entry \in PageEntry /\ entry.age = 0
  BY DEF PageEntry
<1>4. PageOf[entry] = page
  BY <1>3 DEF PageOf
<1>5. pageTable' = Put(pageTable, place, entry)
  BY DEF UpdatePageTable
<1> HIDE DEF place, entry
<1>6. IsPut(PageEntry, pageTable, place, entry, pageTable')
  BY <1>1, <1>2, <1>3, <1>5, OlderEntry, PutEffect
<1>7. IsPut(PageEntry, pageTable, Place(pageTable, PAGECOUNT), entry, pageTable')
  BY <1>6 DEF place
<1>8. \A e \in PageEntry : PageOf[Older(e)] = PageOf[e]
  BY OlderEntry DEF PageOf
<1>9. Ranked(pageTable')
  BY <1>1, <1>3, <1>7, OlderAge, PageCountAssumption, PutRanked
<1>10. Queue(pageTable', PageOf) =
         Append(IF Len(Queue(pageTable, PageOf)) = PAGECOUNT THEN Tail(Queue(pageTable, PageOf))
                                                             ELSE Queue(pageTable, PageOf),
                PageOf[entry])
  BY <1>1, <1>3, <1>7, <1>8, OlderAge, PageCountAssumption, PutInserts
<1> QED
  BY <1>4, <1>9, <1>10 DEF Pages

\* A translation is an insertion into the queue of the TLB, and into that of the pages
\* if its page is not there.
LEMMA TranslateInserts ==
  ASSUME Tables, RankedTables, NEW page \in Page, Translate(page)
  PROVE  /\ RankedTables'
         /\ \E item \in Page \X Frame :
              Translations' = Append(IF Len(Translations) = TLBSIZE THEN Tail(Translations) ELSE Translations, item)
         /\ \/ Pages' = Pages
            \/ /\ \A n \in DOMAIN Pages : Pages[n] # page
               /\ Pages' = Append(IF Len(Pages) = PAGECOUNT THEN Tail(Pages) ELSE Pages, page)
<1>1. /\ pageTable \in Seq(PageEntry) /\ Len(pageTable) <= PAGECOUNT /\ Aged(pageTable)
      /\ tlb \in Seq(TLBEntry)
      /\ Ranked(pageTable) /\ Ranked(tlb)
  BY TablesAged DEF Tables, RankedTables
<1>2. ASSUME NEW frame \in Frame, UpdateTLB(page, frame)
      PROVE  /\ Ranked(tlb')
             /\ \E item \in Page \X Frame :
                  Translations' = Append(IF Len(Translations) = TLBSIZE THEN Tail(Translations)
                                                                        ELSE Translations, item)
  <2>1. << page, frame >> \in Page \X Frame
    OBVIOUS
  <2> QED
    BY <1>1, <1>2, <2>1, UpdateTLBInserts
<1>3. UNCHANGED pageTable => Pages' = Pages /\ Ranked(pageTable')
  BY <1>1 DEF Pages
<1>4. CASE /\ CheckTLB(page) # None
           /\ UpdateTLB(page, CheckTLB(page))
           /\ UNCHANGED pageTable
  <2>1. PICK n \in DOMAIN tlb : CheckTLB(page) = tlb[n].frame
    BY <1>1, <1>4, IndexOfPage DEF CheckTLB
  <2>2. CheckTLB(page) \in Frame
    <3>1. tlb[n] \in TLBEntry
      BY <1>1, ElementOfSeq
    <3> QED
      BY <2>1, <3>1 DEF TLBEntry
  <2> QED
    BY <1>2, <1>3, <1>4, <2>2 DEF RankedTables
<1>5. CASE /\ FindPageIndex(page) # None
           /\ UpdateTLB(page, FindPageIndex(page))
           /\ UNCHANGED pageTable
  <2>1. FindPageIndex(page) \in Frame
    BY <1>1, <1>5, IndexOfPage, PageCountAssumption DEF FindPageIndex, Frame
  <2> QED
    BY <1>2, <1>3, <1>5, <2>1 DEF RankedTables
<1>6. CASE /\ FindPageIndex(page) = None
           /\ UpdatePageTable(page, Place(pageTable, PAGECOUNT))
           /\ UpdateTLB(page, Place(pageTable, PAGECOUNT))
  <2>1. Place(pageTable, PAGECOUNT) \in Frame
    BY <1>1, PageCountAssumption, PlaceInRoom DEF Frame
  <2>2. \A n \in DOMAIN pageTable : pageTable[n].page # page
    <3>1. None \notin DOMAIN pageTable
      BY <1>1 DEF None
    <3> QED
      BY <1>1, <1>6, <3>1, IndexOfPage DEF FindPageIndex
  <2>3. \A n \in DOMAIN Pages : Pages[n] # page
    <3> SUFFICES ASSUME NEW n \in DOMAIN Pages PROVE Pages[n] # page
      OBVIOUS
    <3>1. n \in 1 .. Len(pageTable)
      BY <1>1 DEF Pages, Queue
    <3>2. PICK m \in DOMAIN pageTable : ByAge(pageTable)[n] = pageTable[m]
      BY <1>1, <3>1, ByAgeRank
    <3>3. pageTable[m] \in PageEntry
      BY <1>1, ElementOfSeq
    <3> QED
      BY <2>2, <3>1, <3>2, <3>3 DEF Pages, Queue, PageOf
  <2>4. /\ Ranked(pageTable')
        /\ Pages' = Append(IF Len(Pages) = PAGECOUNT THEN Tail(Pages) ELSE Pages, page)
    BY <1>1, <1>6, UpdatePageTableInserts
  <2> QED
    BY <1>2, <1>6, <2>1, <2>3, <2>4 DEF RankedTables
<1> QED
  BY <1>4, <1>5, <1>6 DEF Translate, TranslateFound, Lookup

\* Both tables stay ranked.
LEMMA NextRanked ==
  ASSUME Inv, RankedTables, [Next]_vars
  PROVE  /\ RankedTables'
         /\ \/ Translations' = Translations
            \/ \E item \in Page \X Frame :
                 Translations' = Append(IF Len(Translations) = TLBSIZE THEN Tail(Translations)
                                                                       ELSE Translations, item)
         /\ \/ Pages' = Pages
            \/ \E page \in Page :
                 /\ \A n \in DOMAIN Pages : Pages[n] # page
                 /\ Pages' = Append(IF Len(Pages) = PAGECOUNT THEN Tail(Pages) ELSE Pages, page)
<1>1. CASE UNCHANGED tables
  BY <1>1 DEF tables, RankedTables, Translations, Pages
<1>2. CASE \E page \in Page : Translate(page)
  BY <1>2, TranslateInserts DEF Inv
<1>3. CASE \E t \in Thread : TranslateFetched(t)
  <2>1. PICK t \in Thread : TranslateFetched(t)
    BY <1>3
  <2>2. fetched[t] \in Page /\ Translate(fetched[t])
    BY <2>1, HolderTranslates DEF TranslateFetched, Inv, Progress
  <2> QED
    BY <1>2, <2>2
<1> QED
  BY <1>1, <1>2, <1>3
  DEF Next, mainThread, ReadAddresses, TooManyAddresses, TranslateNext, Finish, checkMemory,
      Enter, Leave, Fetch, LookUp, Over, vars, tables

\* The tables start empty.
LEMMA InitRanked ==
  ASSUME Init
  PROVE  RankedTables /\ Pages = << >> /\ Translations = << >>
<1>1. pageTable = << >> /\ tlb = << >>
  BY DEF Init
<1>2. DOMAIN Pages = {} /\ DOMAIN Translations = {}
  BY <1>1 DEF Pages, Translations, Queue
<1> QED
  BY <1>1, <1>2, RankedEmpty DEF RankedTables, Pages, Translations, Queue

-----------------------------------------------------------------------------

\* The two queues begin as ReplacementQueue says.
LEMMA InitQueues == Init => RankedTables /\ PageQueue!Init /\ TLBQueue!Init
<1> SUFFICES ASSUME Init PROVE RankedTables /\ PageQueue!Init /\ TLBQueue!Init
  OBVIOUS
<1>1. Tables /\ RankedTables /\ Pages = << >> /\ Translations = << >>
  BY InitInv, InitRanked DEF Inv
<1> QED
  BY <1>1, QueuesMeant DEF PageQueue!Init, TLBQueue!Init

\* And every step is one of them, or changes nothing of the queue.
LEMMA NextQueues ==
  Inv /\ RankedTables /\ Inv' /\ [Next]_vars
    => /\ RankedTables'
       /\ [PageQueue!Replace]_[n \in DOMAIN pageTable |-> ByAge(pageTable)[n].page]
       /\ [TLBQueue!Repeat]_[n \in DOMAIN tlb |-> << ByAge(tlb)[n].page, ByAge(tlb)[n].frame >>]
<1> SUFFICES ASSUME Inv, RankedTables, Inv', [Next]_vars
             PROVE  /\ RankedTables'
                    /\ [PageQueue!Replace]_[n \in DOMAIN pageTable |-> ByAge(pageTable)[n].page]
                    /\ [TLBQueue!Repeat]_[n \in DOMAIN tlb |-> << ByAge(tlb)[n].page, ByAge(tlb)[n].frame >>]
  OBVIOUS
<1>1. Tables /\ Tables'
  BY DEF Inv
<1>2. /\ RankedTables'
      /\ \/ Translations' = Translations
         \/ \E item \in Page \X Frame :
              Translations' = Append(IF Len(Translations) = TLBSIZE THEN Tail(Translations)
                                                                    ELSE Translations, item)
      /\ \/ Pages' = Pages
         \/ \E page \in Page :
              /\ \A n \in DOMAIN Pages : Pages[n] # page
              /\ Pages' = Append(IF Len(Pages) = PAGECOUNT THEN Tail(Pages) ELSE Pages, page)
  BY NextRanked
<1>3. /\ Pages = [n \in DOMAIN pageTable |-> ByAge(pageTable)[n].page]
      /\ Translations = [n \in DOMAIN tlb |-> << ByAge(tlb)[n].page, ByAge(tlb)[n].frame >>]
  BY <1>1, QueuesMeant
<1>4. /\ Pages' = [n \in DOMAIN pageTable |-> ByAge(pageTable)[n].page]'
      /\ Translations' = [n \in DOMAIN tlb |-> << ByAge(tlb)[n].page, ByAge(tlb)[n].frame >>]'
  <2>1. \A n \in DOMAIN pageTable' : ByAge(pageTable')[n] \in PageEntry
    <3>1. pageTable' \in Seq(PageEntry) /\ Ranked(pageTable')
      BY <1>1, <1>2 DEF Tables, RankedTables
    <3> QED
      BY <3>1, ByAgeEntries
  <2>2. \A n \in DOMAIN tlb' : ByAge(tlb')[n] \in TLBEntry
    <3>1. tlb' \in Seq(TLBEntry) /\ Ranked(tlb')
      BY <1>1, <1>2 DEF Tables, RankedTables
    <3> QED
      BY <3>1, ByAgeEntries
  <2> QED
    BY <2>1, <2>2 DEF Pages, Translations, Queue, PageOf, TranslationOf
<1>5. [PageQueue!Replace]_[n \in DOMAIN pageTable |-> ByAge(pageTable)[n].page]
  BY <1>2, <1>3, <1>4 DEF PageQueue!Replace, PageQueue!Insert
<1>6. [TLBQueue!Repeat]_[n \in DOMAIN tlb |-> << ByAge(tlb)[n].page, ByAge(tlb)[n].frame >>]
  BY <1>2, <1>3, <1>4 DEF TLBQueue!Repeat, TLBQueue!Insert
<1> QED
  BY <1>2, <1>5, <1>6

\* The page that is evicted is the one loaded the longest ago (vmm.c:274-293), for any
\* number of frames and threads.
THEOREM OldestPageEvicted == Spec => PageTableFifo
BY Invariance, InitQueues, NextQueues, PTL DEF Spec, PageTableFifo, PageQueue!FifoSet

\* The translation that is replaced is the one entered the longest ago (vmm.c:191-209).
THEOREM OldestTranslationReplaced == Spec => TLBFifo
BY Invariance, InitQueues, NextQueues, PTL DEF Spec, TLBFifo, TLBQueue!Fifo

-----------------------------------------------------------------------------
(***************************************************************************)
(* When the TLB is right, and what the counters count                      *)
(***************************************************************************)

\* The three kinds of a translation, with what each does to the tables: a hit of the
\* TLB, a hit of the page table only, and a fault, which loads the page into a free
\* frame as long as there is one.
HitsTLB(page) ==
  /\ TLBHits' = TLBHits + 1
  /\ UNCHANGED << pageTable, pageFaults >>
  /\ \E k \in DOMAIN tlb : tlb[k].page = page /\ Kept(page, tlb[k].frame)
HitsPageTable(page) ==
  /\ UNCHANGED << pageTable, pageFaults, TLBHits >>
  /\ \E frame \in DOMAIN pageTable : pageTable[frame].page = page /\ Kept(page, frame)
Faults(page) ==
  /\ pageFaults' = pageFaults + 1
  /\ UNCHANGED TLBHits
  /\ \A n \in DOMAIN pageTable : pageTable[n].page # page
  /\ \E frame \in Frame :
       /\ IF Len(pageTable) = PAGECOUNT THEN frame \in DOMAIN pageTable
                                        ELSE frame = Len(pageTable) + 1
       /\ DOMAIN pageTable' = DOMAIN pageTable \cup {frame}
       /\ Len(pageTable') = IF Len(pageTable) = PAGECOUNT THEN PAGECOUNT ELSE frame
       /\ pageTable'[frame].page = page
       /\ \A n \in DOMAIN pageTable \ {frame} : pageTable'[n].page = pageTable[n].page
       /\ Kept(page, frame)

\* Every translation is of one of them.
LEMMA TranslationKinds ==
  ASSUME Tables, NEW page \in Page, Translate(page)
  PROVE  HitsTLB(page) \/ HitsPageTable(page) \/ Faults(page)
<1>1. /\ pageTable \in Seq(PageEntry) /\ Len(pageTable) <= PAGECOUNT
      /\ tlb \in Seq(TLBEntry)
      /\ Aged(pageTable)
      /\ \A m, n \in DOMAIN tlb : tlb[m].page = tlb[n].page => tlb[m].frame = tlb[n].frame
  BY TablesAged DEF Tables, TLBAgrees
<1>2. \A n \in DOMAIN tlb : tlb[n].frame \in Frame
  <2>1. \A n \in DOMAIN tlb : tlb[n] \in TLBEntry
    BY <1>1, ElementOfSeq
  <2> QED
    BY <2>1 DEF TLBEntry
<1>3. DOMAIN pageTable \subseteq Frame /\ None \notin Frame
  BY <1>1, PageCountAssumption DEF Frame, None
<1>4. CASE /\ CheckTLB(page) # None
           /\ TLBHits' = TLBHits + 1
           /\ UpdateTLB(page, CheckTLB(page))
           /\ UNCHANGED << pageTable, pageFaults >>
  <2>1. PICK k \in DOMAIN tlb : CheckTLB(page) = tlb[k].frame /\ tlb[k].page = page
    BY <1>1, <1>4, IndexOfPage DEF CheckTLB
  <2>2. \A n \in DOMAIN tlb : tlb[n].page = page => tlb[n].frame = CheckTLB(page)
    BY <1>1, <2>1
  <2>3. Kept(page, CheckTLB(page))
    BY <1>2, <1>4, <2>1, <2>2, UpdateTLBEffect
  <2> QED
    BY <1>4, <2>1, <2>3 DEF HitsTLB
<1>5. ASSUME CheckTLB(page) = None
      PROVE  \A n \in DOMAIN tlb : tlb[n].page # page
  <2>1. IndexOf(tlb, page) \in DOMAIN tlb => tlb[IndexOf(tlb, page)].frame # None
    BY <1>2, <1>3
  <2> QED
    BY <1>1, <1>5, <2>1, IndexOfPage DEF CheckTLB
<1>6. CASE /\ CheckTLB(page) = None
           /\ FindPageIndex(page) # None
           /\ UpdateTLB(page, FindPageIndex(page))
           /\ UNCHANGED << pageTable, pageFaults, TLBHits >>
  <2>1. /\ FindPageIndex(page) \in DOMAIN pageTable
        /\ pageTable[FindPageIndex(page)].page = page
    BY <1>1, <1>6, IndexOfPage DEF FindPageIndex
  <2>2. \A n \in DOMAIN tlb : tlb[n].page # page
    BY <1>5, <1>6
  <2>3. Kept(page, FindPageIndex(page))
    BY <1>3, <1>6, <2>1, <2>2, UpdateTLBEffect
  <2> QED
    BY <1>6, <2>1, <2>3 DEF HitsPageTable
<1>7. CASE /\ CheckTLB(page) = None
           /\ FindPageIndex(page) = None
           /\ UpdatePageTable(page, Place(pageTable, PAGECOUNT))
           /\ UpdateTLB(page, Place(pageTable, PAGECOUNT))
           /\ pageFaults' = pageFaults + 1
           /\ UNCHANGED TLBHits
  <2> DEFINE place == Place(pageTable, PAGECOUNT)
             entry == [page |-> page, age |-> 0]
  <2>1. place \in Frame /\ (place \in DOMAIN pageTable \/ place = Len(pageTable) + 1)
    BY <1>1, PageCountAssumption, PlaceInRoom DEF Frame
  <2>2. \A n \in DOMAIN tlb : tlb[n].page # page
    BY <1>5, <1>7
  <2>3. \A n \in DOMAIN pageTable : pageTable[n].page # page
    BY <1>1, <1>3, <1>7, IndexOfPage DEF FindPageIndex
  <2>4. Len(pageTable) # PAGECOUNT => place = Len(pageTable) + 1
    BY DEF Place
  <2>5. pageTable' = Put(pageTable, place, entry) /\ entry \in PageEntry /\ entry.page = page
    BY <1>7 DEF UpdatePageTable, PageEntry
  <2>6. UpdateTLB(page, place)
    BY <1>7
  <2> HIDE DEF place, entry
  <2>7. place \in Nat /\ place <= PAGECOUNT
    BY <2>1, PageCountAssumption DEF Frame
  <2>8. Len(pageTable) = PAGECOUNT => place \in DOMAIN pageTable
    BY <1>1, <2>1, <2>7, PageCountAssumption
  <2>9. Kept(page, place)
    BY <2>1, <2>2, <2>6, UpdateTLBEffect
  <2>10. \A e \in PageEntry : Older(e) \in PageEntry
    BY OlderEntry
  <2>11. IsPut(PageEntry, pageTable, place, entry, pageTable')
    BY <1>1, <2>1, <2>5, <2>7, <2>10, PutEffect
  <2>12. \A n \in DOMAIN pageTable : pageTable[n] \in PageEntry
    BY <1>1, ElementOfSeq
  <2>13. /\ DOMAIN pageTable' = DOMAIN pageTable \cup {place}
         /\ pageTable'[place].page = page
         /\ \A n \in DOMAIN pageTable \ {place} : pageTable'[n].page = pageTable[n].page
    BY <2>5, <2>11, <2>12, OlderEntry DEF IsPut
  <2>14. Len(pageTable') = IF Len(pageTable) = PAGECOUNT THEN PAGECOUNT ELSE place
    <3>1. CASE Len(pageTable) = PAGECOUNT
      BY <2>8, <2>11, <3>1 DEF IsPut
    <3>2. CASE Len(pageTable) # PAGECOUNT
      <4>1. place \notin DOMAIN pageTable
        BY <1>1, <2>4, <3>2
      <4> QED
        BY <2>11, <3>2, <4>1 DEF IsPut
    <3> QED
      BY <3>1, <3>2
  <2> QED
    BY <1>7, <2>1, <2>3, <2>4, <2>8, <2>9, <2>13, <2>14 DEF Faults
<1> QED
  BY <1>4, <1>6, <1>7 DEF Translate, TranslateFound, Lookup

\* The frames fill up one with each fault, until there is none left.
Loaded ==
  /\ pageFaults <= PAGECOUNT => Len(pageTable) = pageFaults
  /\ pageFaults >= PAGECOUNT => Len(pageTable) = PAGECOUNT

\* As long as a free frame was found for each fault no page has been evicted, and an
\* entry of the TLB names the frame its page is in.
Followed ==
  pageFaults <= PAGECOUNT =>
    \A n \in DOMAIN tlb : /\ tlb[n].frame \in DOMAIN pageTable
                          /\ pageTable[tlb[n].frame].page = tlb[n].page

\* The threads between the cursor and the tables.
Translating == {t \in Thread : pc[t] = "translate"}

\* A translation is counted once at most, after the cursor has advanced for it.
Tallied == pageFaults + TLBHits + Cardinality(Translating) <= addressCursor

\* A translation keeps the first two, and counts one more at most.
LEMMA TranslateFollowed ==
  ASSUME Inv, Loaded, Followed, NEW page \in Page, Translate(page)
  PROVE  /\ Loaded' /\ Followed'
         /\ pageFaults' + TLBHits' <= pageFaults + TLBHits + 1
<1>1. /\ Tables /\ Len(pageTable) \in Nat /\ DOMAIN pageTable = 1 .. Len(pageTable)
      /\ Len(pageTable) <= PAGECOUNT
      /\ pageFaults \in Nat /\ TLBHits \in Nat /\ PAGECOUNT \in Nat
  BY PageCountAssumption DEF Inv, TypeOK, Tables
<1>2. CASE HitsTLB(page)
  <2>1. PICK k \in DOMAIN tlb : tlb[k].page = page /\ Kept(page, tlb[k].frame)
    BY <1>2 DEF HitsTLB
  <2>2. Followed'
    BY <1>2, <2>1 DEF HitsTLB, Followed, Kept
  <2>3. Loaded'
    BY <1>2 DEF HitsTLB, Loaded
  <2> QED
    BY <1>1, <1>2, <2>2, <2>3 DEF HitsTLB
<1>3. CASE HitsPageTable(page)
  <2>1. PICK frame \in DOMAIN pageTable : pageTable[frame].page = page /\ Kept(page, frame)
    BY <1>3 DEF HitsPageTable
  <2>2. Followed'
    BY <1>3, <2>1 DEF HitsPageTable, Followed, Kept
  <2>3. Loaded'
    BY <1>3 DEF HitsPageTable, Loaded
  <2> QED
    BY <1>1, <1>3, <2>2, <2>3 DEF HitsPageTable
<1>4. CASE Faults(page)
  <2>1. PICK frame \in Frame :
          /\ IF Len(pageTable) = PAGECOUNT THEN frame \in DOMAIN pageTable
                                           ELSE frame = Len(pageTable) + 1
          /\ DOMAIN pageTable' = DOMAIN pageTable \cup {frame}
          /\ Len(pageTable') = IF Len(pageTable) = PAGECOUNT THEN PAGECOUNT ELSE frame
          /\ pageTable'[frame].page = page
          /\ \A n \in DOMAIN pageTable \ {frame} : pageTable'[n].page = pageTable[n].page
          /\ Kept(page, frame)
    BY <1>4 DEF Faults
  <2>2. pageFaults' = pageFaults + 1 /\ TLBHits' = TLBHits
    BY <1>4 DEF Faults
  <2>3. Len(pageTable') = IF Len(pageTable) = PAGECOUNT THEN PAGECOUNT ELSE Len(pageTable) + 1
    BY <2>1
  <2>4. Loaded'
    <3>1. CASE Len(pageTable) = PAGECOUNT
      <4>1. Len(pageTable') = PAGECOUNT
        BY <2>3, <3>1
      <4>2. pageFaults >= PAGECOUNT
        BY <1>1, <3>1 DEF Loaded
      <4>3. ~ (pageFaults' <= PAGECOUNT)
        BY <1>1, <2>2, <4>2
      <4> QED
        BY <4>1, <4>3 DEF Loaded
    <3>2. CASE Len(pageTable) # PAGECOUNT
      <4>1. Len(pageTable') = Len(pageTable) + 1
        BY <2>3, <3>2
      <4>2. ~ (pageFaults >= PAGECOUNT)
        BY <3>2 DEF Loaded
      <4>3. pageFaults <= PAGECOUNT /\ pageFaults + 1 <= PAGECOUNT
        BY <1>1, <4>2
      <4>4. Len(pageTable') = pageFaults'
        BY <2>2, <4>1, <4>3 DEF Loaded
      <4>5. pageFaults' >= PAGECOUNT => pageFaults' = PAGECOUNT
        BY <1>1, <2>2, <4>3
      <4> QED
        BY <4>4, <4>5 DEF Loaded
    <3> QED
      BY <3>1, <3>2
  <2>5. ASSUME pageFaults' <= PAGECOUNT
        PROVE  frame \notin DOMAIN pageTable /\ pageFaults <= PAGECOUNT
    <3>1. pageFaults <= PAGECOUNT /\ pageFaults # PAGECOUNT
      BY <1>1, <2>2, <2>5
    <3>2. Len(pageTable) # PAGECOUNT
      BY <3>1 DEF Loaded
    <3>3. frame \notin DOMAIN pageTable
      BY <1>1, <2>1, <3>2
    <3> QED
      BY <1>1, <3>1, <3>3
  <2>6. ASSUME pageFaults' <= PAGECOUNT, NEW n \in DOMAIN tlb'
        PROVE  tlb'[n].frame \in DOMAIN pageTable' /\ pageTable'[tlb'[n].frame].page = tlb'[n].page
    <3>1. CASE tlb'[n].page = page /\ tlb'[n].frame = frame
      BY <2>1, <3>1
    <3>2. CASE \E m \in DOMAIN tlb : tlb'[n].page = tlb[m].page /\ tlb'[n].frame = tlb[m].frame
      <4>1. PICK m \in DOMAIN tlb : tlb'[n].page = tlb[m].page /\ tlb'[n].frame = tlb[m].frame
        BY <3>2
      <4>2. tlb[m].frame \in DOMAIN pageTable /\ pageTable[tlb[m].frame].page = tlb[m].page
        BY <2>5, <2>6 DEF Followed
      <4>3. tlb[m].frame # frame
        BY <2>5, <2>6, <4>2
      <4> QED
        BY <2>1, <4>1, <4>2, <4>3
    <3> QED
      BY <2>1, <3>1, <3>2 DEF Kept
  <2>7. Followed'
    BY <2>6 DEF Followed
  <2> QED
    BY <1>1, <2>2, <2>4, <2>7
<1> QED
  BY <1>1, <1>2, <1>3, <1>4, TranslationKinds

\* The threads that translate are finitely many.
LEMMA TranslatingCount == IsFiniteSet(Translating) /\ Cardinality(Translating) \in Nat
<1>1. Translating \in SUBSET Thread
  BY DEF Translating
<1> QED
  BY <1>1, Counts

\* The three together are inductive beside Inv.
Counted == Loaded /\ Followed /\ Tallied

LEMMA InitCounted == Init => Counted
<1> SUFFICES ASSUME Init PROVE Counted
  OBVIOUS
<1>1. /\ pageTable = << >> /\ tlb = << >>
      /\ pageFaults = 0 /\ TLBHits = 0 /\ addressCursor = 0
      /\ Translating = {}
  BY DEF Init, Translating
<1>2. Loaded
  <2>1. Len(pageTable) = 0 /\ PAGECOUNT \in Nat /\ PAGECOUNT # 0
    BY <1>1, EmptySeq, PageCountAssumption
  <2>2. ~ (pageFaults >= PAGECOUNT)
    BY <1>1, <2>1
  <2> QED
    BY <1>1, <2>1, <2>2 DEF Loaded
<1>3. Followed
  BY <1>1 DEF Followed
<1>4. Tallied
  BY <1>1, Counts DEF Tallied
<1> QED
  BY <1>2, <1>3, <1>4 DEF Counted

\* What is counted for an address that was read leaves the count behind the cursor.
LEMMA OneCounted ==
  ASSUME NEW faults \in Nat, NEW hits \in Nat, NEW others \in Nat, NEW cursor \in Nat,
         NEW faultsAfter \in Nat, NEW hitsAfter \in Nat,
         faults + hits + others <= cursor, faultsAfter + hitsAfter <= faults + hits + 1
  PROVE  faultsAfter + hitsAfter + others <= cursor + 1
OBVIOUS

LEMMA NextCounted == Inv /\ Counted /\ [Next]_vars => Counted'
<1> SUFFICES ASSUME Inv, Counted, [Next]_vars PROVE Counted'
  OBVIOUS
<1>1. /\ Loaded /\ Followed /\ Tallied
      /\ pc \in [Thread -> {"new", "loop", "fetch", "translate", "ended"}]
  BY DEF Counted, Inv, TypeOK
<1>2. /\ pageFaults \in Nat /\ TLBHits \in Nat /\ addressCursor \in Nat
      /\ Cardinality(Translating) \in Nat /\ IsFiniteSet(Translating)
  BY TranslatingCount DEF Inv, TypeOK
<1>3. ASSUME UNCHANGED << addressCursor, tables >>, Translating' = Translating
      PROVE  Counted'
  BY <1>1, <1>3 DEF Counted, Loaded, Followed, Tallied, tables
<1>4. CASE ReadAddresses
  <2>1. Translating' = {} /\ Translating = {}
    BY <1>4 DEF ReadAddresses, Translating, Inv, Progress
  <2> QED
    BY <1>3, <1>4, <2>1 DEF ReadAddresses
<1>5. CASE TooManyAddresses \/ Finish
  <2>1. UNCHANGED << pc, addressCursor, tables >>
    BY <1>5 DEF TooManyAddresses, Finish
  <2>2. Translating' = Translating
    BY <2>1 DEF Translating
  <2> QED
    BY <1>3, <2>1, <2>2
<1>6. CASE TranslateNext
  <2>1. PICK page \in Page : Translate(page)
    BY <1>6 DEF TranslateNext
  <2>2. /\ Loaded' /\ Followed'
        /\ pageFaults' + TLBHits' <= pageFaults + TLBHits + 1
        /\ pageFaults' \in Nat /\ TLBHits' \in Nat
    BY <1>1, <1>2, <2>1, TranslateFollowed, TranslateTypes
  <2>3. addressCursor' = addressCursor + 1 /\ Translating' = Translating
    BY <1>6 DEF TranslateNext, Translating
  <2>4. Tallied'
    <3>1. pageFaults' + TLBHits' <= pageFaults + TLBHits + 1 /\ pageFaults' \in Nat /\ TLBHits' \in Nat
      BY <2>2
    <3>2. Cardinality(Translating') = Cardinality(Translating)
      BY <2>3
    <3>3. addressCursor' = addressCursor + 1
      BY <2>3
    <3>4. pageFaults + TLBHits + Cardinality(Translating) <= addressCursor
      BY <1>1 DEF Tallied
    <3>5. pageFaults' + TLBHits' + Cardinality(Translating) <= addressCursor + 1
      BY <1>2, <3>1, <3>4, OneCounted
    <3> QED
      BY <3>2, <3>3, <3>5 DEF Tallied
  <2> QED
    BY <2>2, <2>4 DEF Counted
<1>7. ASSUME NEW t \in Thread, Enter(t) \/ Leave(t) PROVE Counted'
  <2>1. /\ UNCHANGED << addressCursor, tables >>
        /\ pc[t] = "loop" /\ pc'[t] # "translate"
        /\ \A s \in Thread : s # t => pc'[s] = pc[s]
    BY <1>1, <1>7 DEF Enter, Leave
  <2>2. Translating' = Translating
    BY <2>1 DEF Translating
  <2> QED
    BY <1>3, <2>1, <2>2
<1>8. ASSUME NEW t \in Thread, Fetch(t) PROVE Counted'
  <2>1. /\ UNCHANGED tables /\ addressCursor' = addressCursor + 1
        /\ pc[t] = "fetch" /\ pc'[t] = "translate"
        /\ \A s \in Thread : s # t => pc'[s] = pc[s]
    BY <1>1, <1>8 DEF Fetch
  <2>2. Translating' = Translating \cup {t} /\ t \notin Translating
    BY <2>1 DEF Translating
  <2>3. Cardinality(Translating') = Cardinality(Translating) + 1
    BY <1>2, <2>2, FS_AddElement
  <2>4. Tallied'
    <3>1. pageFaults' = pageFaults /\ TLBHits' = TLBHits
      BY <2>1 DEF tables
    <3> QED
      BY <1>1, <1>2, <2>1, <2>3, <3>1 DEF Tallied
  <2> QED
    BY <1>1, <2>1, <2>4 DEF Counted, Loaded, Followed, tables
<1>9. ASSUME NEW t \in Thread, TranslateFetched(t) PROVE Counted'
  <2>1. /\ UNCHANGED addressCursor
        /\ pc[t] = "translate" /\ pc'[t] = "loop"
        /\ \A s \in Thread : s # t => pc'[s] = pc[s]
        /\ fetched[t] \in Page /\ Translate(fetched[t])
    BY <1>1, <1>9, HolderTranslates DEF TranslateFetched, Inv, Progress
  <2>2. /\ Loaded' /\ Followed'
        /\ pageFaults' + TLBHits' <= pageFaults + TLBHits + 1
        /\ pageFaults' \in Nat /\ TLBHits' \in Nat
    BY <1>1, <1>2, <2>1, TranslateFollowed, TranslateTypes
  <2>3. Translating' = Translating \ {t} /\ t \in Translating
    BY <2>1 DEF Translating
  <2>4. Cardinality(Translating') = Cardinality(Translating) - 1
    BY <1>2, <2>3, FS_RemoveElement
  <2>5. Tallied'
    <3>1. pageFaults + TLBHits + Cardinality(Translating) <= addressCursor
      BY <1>1 DEF Tallied
    <3>2. pageFaults' + TLBHits' + (Cardinality(Translating) - 1) <= addressCursor
      <4>1. ASSUME NEW a \in Nat, NEW b \in Nat, NEW c \in Nat, NEW d \in Nat, NEW e \in Nat,
                   NEW f \in Nat, a + b + c <= f, d + e <= a + b + 1
            PROVE  d + e + (c - 1) <= f
        BY <4>1
      <4> QED
        BY <1>2, <2>2, <3>1, <4>1
    <3> QED
      BY <2>1, <2>4, <3>2 DEF Tallied
  <2> QED
    BY <2>2, <2>5 DEF Counted
<1>10. ASSUME NEW t \in Thread, LookUp(t) PROVE Counted'
  <2>1. UNCHANGED << addressCursor, tables >> /\ Translating' = Translating
    BY <1>10 DEF LookUp, Translating
  <2> QED
    BY <1>3, <2>1
<1>11. CASE UNCHANGED vars
  <2>1. Translating' = Translating
    BY <1>11 DEF vars, Translating
  <2> QED
    BY <1>3, <1>11, <2>1 DEF vars, tables
<1> QED
  BY <1>4, <1>5, <1>6, <1>7, <1>8, <1>9, <1>10, <1>11 DEF Next, mainThread, checkMemory, Over

\* What a hit of the TLB returns before the first eviction.
LEMMA FollowedRight == Inv /\ Followed => (pageFaults <= PAGECOUNT => TranslationRight)
<1> SUFFICES ASSUME Inv, Followed, pageFaults <= PAGECOUNT,
                    NEW page \in Page, CheckTLB(page) # None
             PROVE  pageTable[CheckTLB(page)].page = page
  BY DEF TranslationRight
<1>1. tlb \in Seq(TLBEntry)
  BY DEF Inv, Tables
<1>2. PICK k \in DOMAIN tlb : CheckTLB(page) = tlb[k].frame /\ tlb[k].page = page
  BY <1>1, IndexOfPage DEF CheckTLB
<1> QED
  BY <1>2 DEF Followed

\* The rates that main prints as its last words (vmm.c:128-134) divide by the length of
\* the list; what the threads read past it may take their sum above one, by an address
\* for each thread but one.
RatesBounded ==
  main = "exit" => pageFaults + TLBHits <= numAddresses + (Cardinality(Thread) - 1)

LEMMA TalliedRates == Inv /\ Tallied => RatesBounded
<1> SUFFICES ASSUME Inv, Tallied, main = "exit"
             PROVE  pageFaults + TLBHits <= numAddresses + (Cardinality(Thread) - 1)
  BY DEF RatesBounded
<1>1. /\ pageFaults \in Nat /\ TLBHits \in Nat /\ addressCursor \in Nat /\ numAddresses \in Nat
      /\ Cardinality(Thread) \in Nat /\ Cardinality(Translating) \in Nat
  BY MaxAddressesAssumption, TranslatingCount, Counts DEF Inv, TypeOK
<1>2. addressCursor <= numAddresses + (Cardinality(Thread) - 1)
  BY CursorBoundsFollows DEF CursorBounds
<1> QED
  BY <1>1, <1>2 DEF Tallied

\* With a frame for every page a fault always finds a free one: the pages in the table
\* are different ones, and the page of the fault is none of them.
LEMMA FreeFrameLeft ==
  ASSUME Inv, Loaded, Cardinality(Page) <= PAGECOUNT,
         NEW page \in Page, \A n \in DOMAIN pageTable : pageTable[n].page # page
  PROVE  Len(pageTable) < PAGECOUNT
<1> DEFINE frames == 1 .. Len(pageTable)
           others == Page \ {page}
           pageIn == [n \in frames |-> pageTable[n].page]
<1>1. /\ pageTable \in Seq(PageEntry) /\ Len(pageTable) \in Nat /\ DOMAIN pageTable = frames
      /\ \A m, n \in frames : pageTable[m].page = pageTable[n].page => m = n
  BY DEF Inv, Tables, PagesOnce
<1>2. \A n \in frames : pageTable[n].page \in others
  <2>1. \A n \in DOMAIN pageTable : pageTable[n] \in PageEntry
    BY <1>1, ElementOfSeq
  <2> QED
    BY <1>1, <2>1 DEF PageEntry
<1>3. pageIn \in Injection(frames, others)
  BY <1>1, <1>2 DEF Injection, IsInjective
<1>4. IsFiniteSet(Page)
  <2>1. Page \in SUBSET Nat /\ 255 \in Nat /\ \A number \in Page : number <= 255
    BY PageAssumption
  <2> QED
    BY <2>1, FS_BoundedSetOfNaturals
<1>5. IsFiniteSet(others) /\ Cardinality(others) = Cardinality(Page) - 1
  <2>1. /\ IsFiniteSet(Page \ {page})
        /\ Cardinality(Page \ {page}) = IF page \in Page THEN Cardinality(Page) - 1 ELSE Cardinality(Page)
    BY <1>4, FS_RemoveElement
  <2> QED
    BY <2>1
<1>6. Cardinality(frames) = Len(pageTable)
  <2>1. Cardinality(1 .. Len(pageTable)) = IF 1 > Len(pageTable) THEN 0 ELSE Len(pageTable) - 1 + 1
    BY <1>1, FS_Interval
  <2> QED
    BY <1>1, <2>1
<1> HIDE DEF frames, others, pageIn
<1>7. Cardinality(frames) <= Cardinality(others)
  BY <1>3, <1>5, FS_Injection
<1>8. Cardinality(Page) \in Nat /\ PAGECOUNT \in Nat
  BY <1>4, FS_CardinalityType, PageCountAssumption
<1> QED
  BY <1>1, <1>5, <1>6, <1>7, <1>8

\* So there are never more faults than frames.
LEMMA NextFits ==
  Inv /\ Counted /\ Cardinality(Page) <= PAGECOUNT /\ pageFaults <= PAGECOUNT /\ [Next]_vars
    => pageFaults' <= PAGECOUNT
<1> SUFFICES ASSUME Inv, Counted, Cardinality(Page) <= PAGECOUNT,
                    pageFaults <= PAGECOUNT, [Next]_vars
             PROVE  pageFaults' <= PAGECOUNT
  OBVIOUS
<1>1. ASSUME NEW page \in Page, Translate(page) PROVE pageFaults' <= PAGECOUNT
  <2>1. CASE HitsTLB(page) \/ HitsPageTable(page)
    BY <2>1 DEF HitsTLB, HitsPageTable
  <2>2. CASE Faults(page)
    <3>1. Len(pageTable) < PAGECOUNT
      BY <2>2, FreeFrameLeft DEF Faults, Counted
    <3>2. Len(pageTable) = pageFaults
      BY DEF Counted, Loaded
    <3>3. pageFaults' = pageFaults + 1 /\ pageFaults \in Nat /\ PAGECOUNT \in Nat
      BY <2>2, PageCountAssumption DEF Faults, Inv, TypeOK
    <3> QED
      BY <3>1, <3>2, <3>3
  <2> QED
    BY <1>1, <2>1, <2>2, TranslationKinds DEF Inv
<1>2. CASE UNCHANGED tables
  BY <1>2 DEF tables
<1>3. CASE \E t \in Thread : TranslateFetched(t)
  BY <1>1, <1>3, HolderTranslates DEF TranslateFetched, Inv, Progress
<1> QED
  BY <1>1, <1>2, <1>3
  DEF Next, mainThread, ReadAddresses, TooManyAddresses, TranslateNext, Finish, checkMemory,
      Enter, Leave, Fetch, LookUp, Over, vars, tables

-----------------------------------------------------------------------------

\* The statistics are true (vmm.c:79-90, 408-419): the free frames fill up one with each
\* fault, and no translation is counted twice or before its address was read, whatever
\* the order in which the threads translate.
THEOREM StatisticsTrue == Spec => [](Loaded /\ Tallied)
BY Invariance, InitCounted, NextCounted, PTL DEF Spec, Counted

\* And so are the rates, up to what the threads read past the list (vmm.c:128-134, 387).
THEOREM RatesTrue == Spec => []RatesBounded
BY Invariance, StatisticsTrue, TalliedRates, PTL

\* CheckTLB is right as long as no page has been evicted: that is until there are more
\* faults than frames, whatever pages the addresses are of (vmm.c:163-173, 274-293).
THEOREM RightUntilEviction == Spec => [](pageFaults <= PAGECOUNT => TranslationRight)
<1>1. Counted => Followed
  BY DEF Counted
<1> QED
  BY <1>1, Invariance, InitCounted, NextCounted, FollowedRight, PTL DEF Spec

\* With a frame for each page CheckTLB is always right: the page table of the code has
\* fewer frames than the 256 pages (vmm.h:12), and that alone makes it wrong.
THEOREM RightWhenPagesFit ==
  ASSUME Cardinality(Page) <= PAGECOUNT
  PROVE  Spec => []TranslationRight
<1> DEFINE Fits == Cardinality(Page) <= PAGECOUNT
           Within == pageFaults <= PAGECOUNT
<1>1. Fits
  OBVIOUS
<1>2. Init => Within
  BY PageCountAssumption DEF Init
<1>3. Inv /\ Counted /\ Within /\ [Next]_vars => Within'
  BY <1>1, NextFits
<1>4. Inv /\ Counted /\ Within => TranslationRight
  BY FollowedRight DEF Counted
<1> HIDE DEF Within, Fits
<1> QED
  BY <1>2, <1>3, <1>4, Invariance, InitCounted, NextCounted, PTL DEF Spec

-----------------------------------------------------------------------------
(***************************************************************************)
(* Why the program cannot run for ever                                     *)
(***************************************************************************)

\* The threads at a stage of checkMemory.
At(stage, table) == {t \in Thread : table[t] = stage}

\* How often the cursor can still advance.
CursorLeft == numAddresses + (Cardinality(Thread) - 1) - addressCursor

\* What main still has to do before and after its loop or its threads.
MainLeft ==
  IF main = "start" THEN 4 * MAX_ADDRESSES + 2 * Cardinality(Thread) + 2
                    ELSE IF main = "exit" THEN 0 ELSE 1

\* Whether pageTableLock can be taken.
Free == IF pageTableLock = {} THEN 1 ELSE 0

\* A bound on the steps that are left.
StepsLeft ==
  MainLeft + 4 * CursorLeft + 2 * Cardinality(At("loop", pc)) + Cardinality(At("fetch", pc))
           + 4 * Cardinality(At("translate", pc)) + Free

LEMMA AtCount ==
  ASSUME NEW stage, NEW table
  PROVE  IsFiniteSet(At(stage, table)) /\ Cardinality(At(stage, table)) \in Nat
         /\ Cardinality(At(stage, table)) <= Cardinality(Thread)
<1>1. At(stage, table) \in SUBSET Thread
  BY DEF At
<1> QED
  BY <1>1, Counts

\* A thread that leaves a stage, and one that comes to it.
LEMMA OneLess ==
  ASSUME NEW S, NEW T, NEW t, S \in SUBSET Thread, t \in S, T = S \ {t}
  PROVE  Cardinality(T) = Cardinality(S) - 1
<1>1. IsFiniteSet(S)
  BY Counts
<1> QED
  BY <1>1, FS_RemoveElement

LEMMA OneMore ==
  ASSUME NEW S, NEW T, NEW t \in Thread, S \in SUBSET Thread, t \notin S, T = S \cup {t}
  PROVE  Cardinality(T) = Cardinality(S) + 1
<1>1. IsFiniteSet(S)
  BY Counts
<1> QED
  BY <1>1, FS_AddElement

\* The arithmetic of a bound and of the step that reads the list.
LEMMA BoundSum ==
  ASSUME NEW m \in Nat, NEW n \in Nat
  PROVE  4 * m + 2 * n + 2 + 4 * (n - 1) + 1 = 4 * m + 6 * n - 1
OBVIOUS

LEMMA ListRead ==
  ASSUME NEW m \in Nat, NEW n \in Nat, NEW c \in Nat, NEW a \in Nat, NEW x \in Nat,
         x <= n, a <= m - 1
  PROVE  1 + 4 * (c + a) + 2 * x < 4 * m + 2 * n + 2 + 4 * c
<1>1. 4 * (c + a) <= 4 * c + 4 * m - 4
  OBVIOUS
<1> QED
  BY <1>1

\* What StepsLeft is made of.
LEMMA StepsLeftTypes ==
  ASSUME Inv
  PROVE  /\ MainLeft \in Nat /\ CursorLeft \in Nat /\ StepsLeft \in Nat
         /\ addressCursor \in Nat /\ numAddresses \in Nat /\ Cardinality(Thread) \in Nat \ {0}
<1>1. /\ addressCursor \in Nat /\ numAddresses \in Nat /\ Cardinality(Thread) \in Nat
      /\ Cardinality(Thread) # 0
  BY MaxAddressesAssumption, Counts DEF Inv, TypeOK
<1>2. addressCursor <= numAddresses + (IF main = "sequential" THEN 0 ELSE Cardinality(Thread) - 1)
  BY CursorBoundsFollows DEF CursorBounds
<1>3. CursorLeft \in Nat
  BY <1>1, <1>2 DEF CursorLeft
<1>4. MainLeft \in Nat
  BY <1>1, MaxAddressesAssumption DEF MainLeft
<1>5. /\ Cardinality(At("loop", pc)) \in Nat /\ Cardinality(At("fetch", pc)) \in Nat
      /\ Cardinality(At("translate", pc)) \in Nat
  BY AtCount
<1>6. StepsLeft \in Nat
  BY <1>3, <1>4, <1>5 DEF StepsLeft, Free
<1> QED
  BY <1>1, <1>3, <1>4, <1>6

\* StepsLeft over every step that does something.
LEMMA StepTaken == Inv /\ Next => UNCHANGED vars \/ StepsLeft' < StepsLeft
<1> SUFFICES ASSUME Inv, Next PROVE UNCHANGED vars \/ StepsLeft' < StepsLeft
  OBVIOUS
<1> DEFINE n == Cardinality(Thread)
           l == Cardinality(At("loop", pc))
           f == Cardinality(At("fetch", pc))
           r == Cardinality(At("translate", pc))
<1>1. /\ addressCursor \in Nat /\ numAddresses \in Nat /\ n \in Nat /\ MainLeft \in Nat
      /\ CursorLeft \in Nat /\ MAX_ADDRESSES \in Nat
  BY StepsLeftTypes, MaxAddressesAssumption
<1>2. /\ l \in Nat /\ f \in Nat /\ r \in Nat
      /\ l' \in Nat /\ f' \in Nat /\ r' \in Nat /\ l' <= n /\ f' <= n /\ r' <= n
      /\ Free \in Nat /\ Free' \in Nat
  BY AtCount DEF Free
<1>3. StepsLeft = MainLeft + 4 * CursorLeft + 2 * l + f + 4 * r + Free
  BY DEF StepsLeft
<1>4. StepsLeft' = MainLeft' + 4 * CursorLeft' + 2 * l' + f' + 4 * r' + Free'
  BY DEF StepsLeft
<1>5. CASE ReadAddresses
  <2>1. /\ main = "start" /\ main' \in {"sequential", "threaded"}
        /\ numAddresses' \in Nat /\ numAddresses' <= MAX_ADDRESSES - 1
        /\ addressCursor' = addressCursor /\ numAddresses = 0
        /\ \A t \in Thread : pc'[t] \in {"loop", "new"}
        /\ Free' = Free
    BY <1>5, MaxAddressesAssumption DEF ReadAddresses, Inv, Progress, section, Free
  <2>2. At("fetch", pc') = {} /\ At("translate", pc') = {}
    BY <2>1 DEF At
  <2>3. f' = 0 /\ r' = 0
    BY <2>2, Counts
  <2> HIDE DEF l, f, r, n
  <2>4. MainLeft = 4 * MAX_ADDRESSES + 2 * n + 2 /\ MainLeft' = 1
    BY <2>1 DEF MainLeft, n
  <2>5. CursorLeft' = CursorLeft + numAddresses'
    BY <1>1, <2>1 DEF CursorLeft, n
  <2>6. numAddresses' \in Nat /\ numAddresses' <= MAX_ADDRESSES - 1
    BY <2>1
  <2>7. StepsLeft >= 4 * MAX_ADDRESSES + 2 * n + 2 + 4 * CursorLeft + Free
    BY <1>1, <1>2, <1>3, <2>4
  <2>8. StepsLeft' = 1 + 4 * (CursorLeft + numAddresses') + 2 * l' + Free
    BY <1>1, <1>2, <1>4, <2>1, <2>3, <2>4, <2>5, <2>6
  <2>9. StepsLeft' < StepsLeft
    <3> DEFINE c == CursorLeft
               a == numAddresses'
               x == l'
    <3>1. 1 + 4 * (c + a) + 2 * x < 4 * MAX_ADDRESSES + 2 * n + 2 + 4 * c
      <4>1. c \in Nat /\ a \in Nat /\ x \in Nat /\ x <= n /\ a <= MAX_ADDRESSES - 1
        BY <1>1, <1>2, <2>6
      <4> HIDE DEF c, a, x
      <4> QED
        BY <1>1, <4>1, ListRead
    <3>2. c \in Nat /\ a \in Nat /\ x \in Nat
      BY <1>1, <1>2, <2>6
    <3>3. StepsLeft' = 1 + 4 * (c + a) + 2 * x + Free
      BY <2>8
    <3>4. StepsLeft \in Nat /\ StepsLeft >= 4 * MAX_ADDRESSES + 2 * n + 2 + 4 * c + Free
      BY <2>7, StepsLeftTypes
    <3> HIDE DEF c, a, x
    <3>5. 1 + 4 * (c + a) + 2 * x \in Int /\ 4 * MAX_ADDRESSES + 2 * n + 2 + 4 * c \in Int
      BY <1>1, <3>2
    <3> HIDE <3>2
    <3> QED
      BY <1>2, <3>1, <3>3, <3>4, <3>5
  <2> QED
    BY <2>9
<1>6. CASE TooManyAddresses \/ Finish
  <2>1. /\ main # "exit" /\ main' = "exit"
        /\ UNCHANGED << pc, addressCursor, numAddresses, pageTableLock >>
    BY <1>6 DEF TooManyAddresses, Finish, section
  <2>2. MainLeft # 0 /\ MainLeft' = 0
    BY <1>1, <2>1 DEF MainLeft
  <2>3. CursorLeft' = CursorLeft /\ l' = l /\ f' = f /\ r' = r /\ Free' = Free
    BY <2>1 DEF CursorLeft, Free
  <2> HIDE DEF l, f, r, n
  <2> QED
    BY <1>1, <1>2, <1>3, <1>4, <2>2, <2>3
<1>7. CASE TranslateNext
  <2>1. addressCursor' = addressCursor + 1 /\ UNCHANGED << main, pc, numAddresses, pageTableLock >>
    BY <1>7 DEF TranslateNext, section
  <2>2. MainLeft' = MainLeft /\ l' = l /\ f' = f /\ r' = r /\ Free' = Free
    BY <2>1 DEF MainLeft, Free
  <2>3. CursorLeft' = CursorLeft - 1
    BY <1>1, <2>1 DEF CursorLeft
  <2> HIDE DEF l, f, r, n
  <2> QED
    BY <1>1, <1>2, <1>3, <1>4, <2>2, <2>3
<1>8. ASSUME NEW t \in Thread, Enter(t) \/ Leave(t) PROVE StepsLeft' < StepsLeft
  <2>1. /\ pc[t] = "loop" /\ UNCHANGED << main, addressCursor, numAddresses, pageTableLock >>
        /\ pc' = [pc EXCEPT ![t] = "fetch"] \/ pc' = [pc EXCEPT ![t] = "ended"]
    BY <1>8 DEF Enter, Leave, section
  <2>2. MainLeft' = MainLeft /\ CursorLeft' = CursorLeft /\ Free' = Free
    BY <2>1 DEF MainLeft, CursorLeft, Free
  <2>3. CASE pc' = [pc EXCEPT ![t] = "fetch"]
    <3>1. l' = l - 1 /\ f' = f + 1 /\ r' = r
      <4>1. pc'[t] = "fetch" /\ \A u \in Thread : u # t => pc'[u] = pc[u]
        BY <2>1, <2>3 DEF Inv, TypeOK
      <4>2. At("loop", pc') = At("loop", pc) \ {t} /\ t \in At("loop", pc)
        BY <4>1, <2>1, <2>3 DEF At
      <4>3. At("loop", pc) \in SUBSET Thread /\ At("fetch", pc) \in SUBSET Thread
        BY DEF At
      <4>4. Cardinality(At("loop", pc')) = Cardinality(At("loop", pc)) - 1
        BY <4>2, <4>3, OneLess
      <4>5. At("translate", pc') = At("translate", pc)
        BY <4>1, <2>1, <2>3 DEF At
      <4>6. At("fetch", pc') = At("fetch", pc) \cup {t} /\ t \notin At("fetch", pc)
        BY <4>1, <2>1, <2>3 DEF At
      <4>7. Cardinality(At("fetch", pc')) = Cardinality(At("fetch", pc)) + 1
        BY <4>3, <4>6, OneMore
      <4> QED
        BY <4>4, <4>5, <4>7
    <3> HIDE DEF l, f, r, n
    <3> QED
      BY <1>1, <1>2, <1>3, <1>4, <2>2, <3>1
  <2>4. CASE pc' = [pc EXCEPT ![t] = "ended"]
    <3>1. l' = l - 1 /\ f' = f /\ r' = r
      <4>1. pc'[t] = "ended" /\ \A u \in Thread : u # t => pc'[u] = pc[u]
        BY <2>1, <2>4 DEF Inv, TypeOK
      <4>2. At("loop", pc') = At("loop", pc) \ {t} /\ t \in At("loop", pc)
        BY <4>1, <2>1, <2>4 DEF At
      <4>3. At("loop", pc) \in SUBSET Thread /\ At("ended", pc) \in SUBSET Thread
        BY DEF At
      <4>4. Cardinality(At("loop", pc')) = Cardinality(At("loop", pc)) - 1
        BY <4>2, <4>3, OneLess
      <4>5. At("fetch", pc') = At("fetch", pc) /\ At("translate", pc') = At("translate", pc)
        BY <4>1, <2>1, <2>4 DEF At
      <4> QED
        BY <4>4, <4>5
    <3> HIDE DEF l, f, r, n
    <3> QED
      BY <1>1, <1>2, <1>3, <1>4, <2>2, <3>1
  <2> QED
    BY <2>1, <2>3, <2>4
<1>9. ASSUME NEW t \in Thread, Fetch(t) PROVE StepsLeft' < StepsLeft
  <2>1. /\ pc[t] = "fetch" /\ pc' = [pc EXCEPT ![t] = "translate"]
        /\ addressCursor' = addressCursor + 1 /\ UNCHANGED << main, numAddresses, pageTableLock >>
    BY <1>9 DEF Fetch, section
  <2>2. MainLeft' = MainLeft /\ Free' = Free
    BY <2>1 DEF MainLeft, Free
  <2>3. CursorLeft' = CursorLeft - 1
    BY <1>1, <2>1 DEF CursorLeft
  <2>4. l' = l /\ f' = f - 1 /\ r' = r + 1
    <3>1. pc'[t] = "translate" /\ \A u \in Thread : u # t => pc'[u] = pc[u]
      BY <2>1 DEF Inv, TypeOK
    <3>2. At("fetch", pc') = At("fetch", pc) \ {t} /\ t \in At("fetch", pc)
      BY <3>1, <2>1 DEF At
    <3>3. At("fetch", pc) \in SUBSET Thread /\ At("translate", pc) \in SUBSET Thread
      BY DEF At
    <3>4. Cardinality(At("fetch", pc')) = Cardinality(At("fetch", pc)) - 1
      BY <3>2, <3>3, OneLess
    <3>5. At("loop", pc') = At("loop", pc)
      BY <3>1, <2>1 DEF At
    <3>6. At("translate", pc') = At("translate", pc) \cup {t} /\ t \notin At("translate", pc)
      BY <3>1, <2>1 DEF At
    <3>7. Cardinality(At("translate", pc')) = Cardinality(At("translate", pc)) + 1
      BY <3>3, <3>6, OneMore
    <3> QED
      BY <3>4, <3>5, <3>7
  <2> HIDE DEF l, f, r, n
  <2> QED
    BY <1>1, <1>2, <1>3, <1>4, <2>2, <2>3, <2>4
<1>10. ASSUME NEW t \in Thread, LookUp(t) PROVE StepsLeft' < StepsLeft
  <2>1. /\ UNCHANGED << main, pc, addressCursor, numAddresses >>
        /\ Free = 1 /\ Free' = 0
    BY <1>10 DEF LookUp, Unlocked, Free
  <2>2. MainLeft' = MainLeft /\ CursorLeft' = CursorLeft /\ l' = l /\ f' = f /\ r' = r
    BY <2>1 DEF MainLeft, CursorLeft
  <2> HIDE DEF l, f, r, n
  <2> QED
    BY <1>1, <1>2, <1>3, <1>4, <2>1, <2>2
<1>11. ASSUME NEW t \in Thread, TranslateFetched(t) PROVE StepsLeft' < StepsLeft
  <2>1. /\ pc[t] = "translate" /\ pc' = [pc EXCEPT ![t] = "loop"]
        /\ UNCHANGED << main, addressCursor, numAddresses >>
        /\ Free = 0 /\ Free' = 1
    BY <1>11 DEF TranslateFetched, Inv, Held, Free
  <2>2. MainLeft' = MainLeft /\ CursorLeft' = CursorLeft
    BY <2>1 DEF MainLeft, CursorLeft
  <2>3. l' = l + 1 /\ f' = f /\ r' = r - 1
    <3>1. pc'[t] = "loop" /\ \A u \in Thread : u # t => pc'[u] = pc[u]
      BY <2>1 DEF Inv, TypeOK
    <3>2. At("translate", pc') = At("translate", pc) \ {t} /\ t \in At("translate", pc)
      BY <3>1, <2>1 DEF At
    <3>3. At("translate", pc) \in SUBSET Thread /\ At("loop", pc) \in SUBSET Thread
      BY DEF At
    <3>4. Cardinality(At("translate", pc')) = Cardinality(At("translate", pc)) - 1
      BY <3>2, <3>3, OneLess
    <3>5. At("fetch", pc') = At("fetch", pc)
      BY <3>1, <2>1 DEF At
    <3>6. At("loop", pc') = At("loop", pc) \cup {t} /\ t \notin At("loop", pc)
      BY <3>1, <2>1 DEF At
    <3>7. Cardinality(At("loop", pc')) = Cardinality(At("loop", pc)) + 1
      BY <3>3, <3>6, OneMore
    <3> QED
      BY <3>4, <3>5, <3>7
  <2> HIDE DEF l, f, r, n
  <2> QED
    BY <1>1, <1>2, <1>3, <1>4, <2>1, <2>2, <2>3
<1> QED
  BY <1>5, <1>6, <1>7, <1>8, <1>9, <1>10, <1>11 DEF Next, mainThread, checkMemory, Over

\* The most steps that a run of the program takes.
MostSteps == 4 * MAX_ADDRESSES + 6 * Cardinality(Thread) - 1

EveryStepCounts == [](StepsLeft \in 0 .. MostSteps) /\ [][StepsLeft' < StepsLeft]_vars

\* No order of the threads keeps the program running: every step, also one past the
\* end of the list, brings it nearer to its end, and there are four for each address
\* of a full list and six for each thread at most (vmm.c:104-136, 385-431).
THEOREM StepsAreBounded == Spec => EveryStepCounts
<1>1. Init => StepsLeft <= MostSteps
  <2> SUFFICES ASSUME Init PROVE StepsLeft <= MostSteps
    OBVIOUS
  <2>1. /\ main = "start" /\ numAddresses = 0 /\ addressCursor = 0
        /\ \A t \in Thread : pc[t] = "new"
        /\ Free = 1
    BY DEF Init, Free
  <2>2. At("loop", pc) = {} /\ At("fetch", pc) = {} /\ At("translate", pc) = {}
    BY <2>1 DEF At
  <2>3. /\ Cardinality(At("loop", pc)) = 0 /\ Cardinality(At("fetch", pc)) = 0
        /\ Cardinality(At("translate", pc)) = 0
    BY <2>2, Counts
  <2>4. /\ MainLeft = 4 * MAX_ADDRESSES + 2 * Cardinality(Thread) + 2
        /\ CursorLeft = 0 + (Cardinality(Thread) - 1) - 0
    BY <2>1 DEF MainLeft, CursorLeft
  <2>5. Cardinality(Thread) \in Nat
    BY Counts
  <2>6. MAX_ADDRESSES \in Nat
    BY MaxAddressesAssumption
  <2>7. CursorLeft = Cardinality(Thread) - 1
    BY <2>4, <2>5
  <2>8. StepsLeft = MainLeft + 4 * CursorLeft + 1
    <3>1. MainLeft \in Nat /\ CursorLeft \in Int
      BY <2>4, <2>5, <2>6, <2>7
    <3>2. StepsLeft = MainLeft + 4 * CursorLeft + 2 * 0 + 0 + 4 * 0 + 1
      BY <2>1, <2>3 DEF StepsLeft
    <3> QED
      BY <3>1, <3>2
  <2>9. StepsLeft = 4 * MAX_ADDRESSES + 2 * Cardinality(Thread) + 2 + 4 * (Cardinality(Thread) - 1) + 1
    BY <2>4, <2>7, <2>8
  <2>10. StepsLeft = MostSteps /\ MostSteps \in Int
    BY <2>5, <2>6, <2>9, BoundSum DEF MostSteps
  <2> QED
    BY <2>10
<1>2. /\ Inv /\ StepsLeft \in Nat /\ (StepsLeft \in Nat)' /\ StepsLeft <= MostSteps /\ [Next]_vars
      => (StepsLeft <= MostSteps)'
  <2> SUFFICES ASSUME Inv, StepsLeft \in Nat, StepsLeft' \in Nat, StepsLeft <= MostSteps, [Next]_vars
               PROVE  StepsLeft' <= MostSteps
    OBVIOUS
  <2>1. MostSteps \in Int
    BY StepsLeftTypes, MaxAddressesAssumption DEF MostSteps
  <2>2. StepsLeft' = StepsLeft \/ StepsLeft' < StepsLeft
    BY StepTaken DEF vars, StepsLeft, MainLeft, CursorLeft, Free
  <2> QED
    BY <2>1, <2>2
<1>3. Inv /\ StepsLeft <= MostSteps => StepsLeft \in 0 .. MostSteps
  <2>1. Inv => StepsLeft \in Nat /\ MostSteps \in Int
    BY StepsLeftTypes, Counts, MaxAddressesAssumption DEF MostSteps
  <2> QED
    BY <2>1
<1>4. Inv /\ [Next]_vars => [StepsLeft' < StepsLeft]_vars
  BY StepTaken
<1>5. Inv => StepsLeft \in Nat
  BY StepsLeftTypes
<1> QED
  BY <1>1, <1>2, <1>3, <1>4, <1>5, Invariance, PTL DEF Spec, EveryStepCounts
=============================================================================
