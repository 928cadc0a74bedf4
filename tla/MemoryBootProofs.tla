-------------------------- MODULE MemoryBootProofs --------------------------
(***************************************************************************)
(* Proofs about the memory manager and its callers, for every size of page *)
(* tables, of memory and of requests.                                      *)
(*                                                                         *)
(* The functions of mem.c loop over pages, and their surprises are         *)
(* harmless only because of where the callers start: a page table is added *)
(* at its own first page, and a region that the odd search takes for free  *)
(* is free.  The invariants say what makes that true: page tables fill     *)
(* from their first page, the heap is mapped without gaps as long as there *)
(* is memory, and what follows it is free, unless the RAM disk is there    *)
(* from the first page of the heap on.  The loops are induction on the     *)
(* number of iterations, by the smallest iteration that goes wrong.        *)
(***************************************************************************)
EXTENDS MemoryBoot, WellFoundedInduction, FiniteSetTheorems, TLAPS

State == [used : SUBSET Frames, handed : SUBSET Frames, faulted : BOOLEAN,
          pd : [0..(Dirs - 1) -> Entries], pt : [Pages -> Entries]]

BoundsOK == lower_bound \in 0..PhysFrames /\ upper_bound \in 0..PhysFrames
-----------------------------------------------------------------------------
(***************************************************************************)
(* The smallest natural number of a set.                                   *)
(***************************************************************************)
Less == {ss \in Nat \X Nat : ss[1] < ss[2]}

\* Every nonempty set of naturals has a smallest element.
LEMMA LeastNat ==
    ASSUME NEW T, T \subseteq Nat, T # {}
    PROVE  \E x \in T : \A y \in T : x <= y
<1>1. IsWellFoundedOn(Less, Nat)
  BY NatLessThanWellFounded, Zenon DEF OpToRel, Less
<1>2. PICK x \in T : \A y \in T : ~(<<y, x>> \in Less)
  BY <1>1, WFMin
<1>3. \A y \in T : ~(y < x)
  BY <1>2 DEF Less
<1> QED
  BY <1>3

\* Min finds it.
LEMMA MinNat ==
    ASSUME NEW T, T \subseteq Nat, T # {}
    PROVE  Min(T) \in T /\ \A y \in T : Min(T) <= y
  BY LeastNat DEF Min

\* Min of a set whose smallest element is known.
LEMMA MinIs ==
    ASSUME NEW T, T \subseteq Nat, NEW x \in T, \A y \in T : x <= y
    PROVE  Min(T) = x
<1>1. Min(T) \in T /\ Min(T) <= x
  BY MinNat
<1>2. PICK m \in Nat : m = Min(T)
  BY <1>1
<1>3. x \in Nat /\ x <= m /\ m <= x
  BY <1>1, <1>2
<1>4. m = x
  BY <1>3
<1> QED
  BY <1>2, <1>4
-----------------------------------------------------------------------------
(***************************************************************************)
(* Pages and page tables.                                                  *)
(***************************************************************************)

\* The first page of a table.
First(d) == d * TableSize
Aligned(page) == page % TableSize = 0

\* Tables follow each other without gaps.
LEMMA FirstFacts ==
    /\ \A d \in Nat : First(d) \in Nat
    /\ \A d \in Nat : First(d + 1) = First(d) + TableSize
    /\ \A a, b \in Nat : a <= b => First(a) <= First(b)
<1> USE SizesAssumption DEF First
<1>1. \A d \in Nat : First(d) \in Nat
  OBVIOUS
<1>2. \A d \in Nat : First(d + 1) = First(d) + TableSize
  OBVIOUS
<1>3. ASSUME NEW a \in Nat, NEW b \in Nat, a <= b PROVE First(a) <= First(b)
  <2>1. b * TableSize = a * TableSize + (b - a) * TableSize
    OBVIOUS
  <2>2. (b - a) * TableSize \in Nat /\ a * TableSize \in Nat /\ b * TableSize \in Nat
    BY <1>3
  <2> QED
    BY <2>1, <2>2
<1> QED
  BY <1>1, <1>2, <1>3

\* Where a page is in its table.
LEMMA PagePlace ==
    \A page \in Nat : /\ DirOf(page) \in Nat
                      /\ page % TableSize \in 0..(TableSize - 1)
                      /\ page = First(DirOf(page)) + (page % TableSize)
  BY SizesAssumption DEF First, DirOf

\* A table has a natural number.
LEMMA DirNat == \A page \in Nat : DirOf(page) \in Nat
  BY PagePlace

\* A table starts at a natural number.
LEMMA FirstNat == \A d \in Nat : First(d) \in Nat
  BY FirstFacts

\* The pages of table d are those from First(d) to the next table.
LEMMA InTable ==
    ASSUME NEW page \in Nat, NEW d \in Nat
    PROVE  DirOf(page) = d <=> First(d) <= page /\ page < First(d) + TableSize
<1> DEFINE q == DirOf(page)
           r == page % TableSize
<1>0. TableSize \in Nat \ {0}
  BY SizesAssumption
<1>1. q \in Nat /\ r \in 0..(TableSize - 1) /\ page = First(q) + r
  BY PagePlace
<1>2. First(q) \in Nat /\ First(d) \in Nat
  BY <1>1, FirstNat
<1> HIDE DEF q, r
<1>3. ASSUME q = d PROVE First(d) <= page /\ page < First(d) + TableSize
  BY <1>0, <1>1, <1>2, <1>3
<1>4. ASSUME q < d PROVE First(q) + TableSize <= First(d)
  <2>1. q + 1 \in Nat /\ q + 1 <= d
    BY <1>1, <1>4
  <2> QED
    BY <1>1, <2>1, FirstFacts
<1>5. ASSUME d < q PROVE First(d) + TableSize <= First(q)
  <2>1. d + 1 \in Nat /\ d + 1 <= q
    BY <1>1, <1>5
  <2> QED
    BY <1>1, <2>1, FirstFacts
<1>6. q < d \/ q = d \/ d < q
  BY <1>1
<1>7. q < d => ~(First(d) <= page)
  BY <1>0, <1>1, <1>2, <1>4
<1>8. d < q => ~(page < First(d) + TableSize)
  BY <1>0, <1>1, <1>2, <1>5
<1>9. q = d => ~(q < d) /\ ~(d < q)
  BY <1>1
<1> QED
  BY <1>3, <1>6, <1>7, <1>8, <1>9 DEF q

\* The pages of the address space have tables of the page directory.
LEMMA DirInRange ==
    ASSUME NEW page \in Pages
    PROVE  page \in Nat /\ DirOf(page) \in Nat /\ DirOf(page) \in 0..(Dirs - 1)
<1>0. TableSize \in Nat \ {0} /\ Dirs \in Nat \ {0} /\ First(Dirs) \in Nat
  BY SizesAssumption, FirstNat
<1>1. page \in Nat /\ page < First(Dirs)
  BY <1>0 DEF Pages, First
<1>2. DirOf(page) \in Nat
  BY <1>1, DirNat
<1>3. First(DirOf(page)) <= page /\ First(DirOf(page)) \in Nat
  BY <1>1, <1>2, InTable, FirstNat
<1>4. ASSUME Dirs <= DirOf(page) PROVE FALSE
  <2>1. First(Dirs) <= First(DirOf(page))
    BY <1>0, <1>2, <1>4, FirstFacts
  <2> QED
    BY <1>0, <1>1, <1>3, <2>1
<1> QED
  BY <1>0, <1>1, <1>2, <1>4

\* The table of a first page.
LEMMA AlignedTable ==
    ASSUME NEW page \in Nat, Aligned(page), NEW q \in Nat
    PROVE  DirOf(q) = DirOf(page) <=> page <= q /\ q < page + TableSize
<1>1. DirOf(page) \in Nat /\ page = First(DirOf(page))
  <2>1. DirOf(page) \in Nat /\ page = First(DirOf(page)) + (page % TableSize)
    BY PagePlace
  <2>2. First(DirOf(page)) \in Nat
    BY <2>1, FirstNat
  <2> QED
    BY <2>1, <2>2 DEF Aligned
<1> QED
  BY <1>1, InTable

\* The last page of that table.
LEMMA AlignedEnd ==
    ASSUME NEW page \in Pages, Aligned(page)
    PROVE  /\ page + TableSize - 1 \in Pages
           /\ DirOf(page + TableSize - 1) = DirOf(page)
<1> DEFINE end == page + TableSize - 1
<1>0. TableSize \in Nat \ {0} /\ Dirs \in Nat \ {0} /\ page \in Nat
      /\ DirOf(page) \in Nat /\ DirOf(page) \in 0..(Dirs - 1)
  BY SizesAssumption, DirInRange
<1>1. end \in Nat /\ page <= end /\ end < page + TableSize
  BY <1>0
<1>2. DirOf(end) = DirOf(page)
  BY <1>0, <1>1, AlignedTable
<1>3. end < First(DirOf(page)) + TableSize
  BY <1>0, <1>1, <1>2, InTable
<1>4. First(DirOf(page) + 1) <= First(Dirs) /\ First(DirOf(page) + 1) = First(DirOf(page)) + TableSize
  <2>1. DirOf(page) + 1 \in Nat /\ DirOf(page) + 1 <= Dirs /\ Dirs \in Nat
    BY <1>0
  <2> QED
    BY <1>0, <2>1, FirstFacts
<1>5. First(Dirs) \in Nat /\ First(DirOf(page)) \in Nat
  BY <1>0, FirstNat
<1>6. end < First(Dirs)
  BY <1>0, <1>1, <1>3, <1>4, <1>5
<1> QED
  BY <1>1, <1>2, <1>6, <1>5 DEF Pages, First

\* A page that is not the first of its table follows one of the same table.
LEMMA PageBefore ==
    ASSUME NEW page \in Nat, ~Aligned(page)
    PROVE  page - 1 \in Nat /\ DirOf(page - 1) = DirOf(page)
<1>0. TableSize \in Nat \ {0}
  BY SizesAssumption
<1>1. /\ DirOf(page) \in Nat /\ page % TableSize \in 0..(TableSize - 1)
      /\ page = First(DirOf(page)) + (page % TableSize)
  BY PagePlace
<1>2. First(DirOf(page)) \in Nat
  BY <1>1, FirstNat
<1>3. PICK r \in 0..(TableSize - 1) : r = page % TableSize
  BY <1>1
<1>4. r # 0
  BY <1>3 DEF Aligned
<1>5. page = First(DirOf(page)) + r
  BY <1>1, <1>3
<1>6. page - 1 \in Nat /\ First(DirOf(page)) <= page - 1 /\ page - 1 < First(DirOf(page)) + TableSize
  BY <1>0, <1>2, <1>4, <1>5
<1> QED
  BY <1>1, <1>6, InTable
-----------------------------------------------------------------------------
(***************************************************************************)
(* alloc_phys.                                                             *)
(***************************************************************************)

\* Free frames are frames.
LEMMA FreeAreFrames ==
    ASSUME BoundsOK, NEW s
    PROVE  FreeFrames(s) \subseteq Frames /\ FreeFrames(s) \subseteq Nat
  BY SizesAssumption DEF BoundsOK, FreeFrames, Frames

\* Frames are none of the special values.
LEMMA FramesFacts ==
    /\ NoFrame \notin Frames /\ Absent \notin Frames /\ Junk \notin Frames
    /\ NoFrame # Absent /\ Junk # Absent /\ Junk # NoFrame
    /\ Frames \subseteq Entries /\ Absent \in Entries /\ NoFrame \in Entries
    /\ Frames \subseteq Nat
  BY SizesAssumption DEF Frames, Entries, NoFrame, Absent, Junk

\* t is s after f was allocated.
IsTaken(s, t, f) ==
    /\ f \in FreeFrames(s)
    /\ t.used = s.used \cup {f} /\ t.handed = s.handed \cup {f}
    /\ t.faulted = s.faulted /\ t.pd = s.pd /\ t.pt = s.pt

\* alloc_phys takes a free frame, unless there is none.
LEMMA AllocFacts ==
    ASSUME BoundsOK, NEW s \in State
    PROVE  /\ AfterAlloc(s) \in State
           /\ FreeFrames(s) = {} => alloc_phys(s) = NoFrame /\ AfterAlloc(s) = s
           /\ FreeFrames(s) # {} => IsTaken(s, AfterAlloc(s), alloc_phys(s))
<1>1. CASE FreeFrames(s) = {}
  BY <1>1 DEF alloc_phys, AfterAlloc
<1>2. CASE FreeFrames(s) # {}
  <2> DEFINE f == alloc_phys(s)
             t == AfterAlloc(s)
  <2>1. f \in FreeFrames(s)
    BY <1>2, FreeAreFrames, MinNat DEF alloc_phys
  <2>2. f \in Frames
    BY <2>1, FreeAreFrames
  <2>3. t = [s EXCEPT !.used = s.used \cup {f}, !.handed = s.handed \cup {f}]
    BY <1>2 DEF AfterAlloc
  <2> HIDE DEF f, t
  <2>4. t.used = s.used \cup {f} /\ t.handed = s.handed \cup {f}
        /\ t.faulted = s.faulted /\ t.pd = s.pd /\ t.pt = s.pt /\ t \in State
    BY <2>2, <2>3 DEF State
  <2> QED
    BY <1>2, <2>1, <2>4 DEF IsTaken, f, t
<1> QED
  BY <1>1, <1>2
-----------------------------------------------------------------------------
(***************************************************************************)
(* Adding a page table, and mapping a page.                                *)
(***************************************************************************)

\* Nothing is mapped by a table that is not there.
AbsentTables(s) == \A page \in Pages : s.pd[DirOf(page)] = Absent => s.pt[page] = Absent

\* t is s with an entry for table d: a frame if there was one, and otherwise
\* what alloc_phys returned instead, which faults.
TableEntered(s, t, d) ==
    \/ \E f \in FreeFrames(s) :
          /\ t.pd = [s.pd EXCEPT ![d] = f]
          /\ t.used = s.used \cup {f} /\ t.handed = s.handed \cup {f}
          /\ t.faulted = s.faulted
    \/ /\ FreeFrames(s) = {}
       /\ t.pd = [s.pd EXCEPT ![d] = NoFrame]
       /\ t.used = s.used /\ t.handed = s.handed /\ t.faulted = TRUE

\* The memset does no harm if the page is the first of its table.
LEMMA AddTableEffect ==
    ASSUME BoundsOK, NEW s \in State, AbsentTables(s),
           NEW page \in Pages, Aligned(page), s.pd[DirOf(page)] = Absent, NEW fresh
    PROVE  LET t == AddTable(s, page, fresh)
           IN  t \in State /\ t.pt = s.pt /\ TableEntered(s, t, DirOf(page))
<1> DEFINE t == AddTable(s, page, fresh)
           u == AfterAlloc(s)
           f == alloc_phys(s)
           d == DirOf(page)
           end == page + TableSize - 1
           cleared == [p \in Pages |->
                          CASE p \in page..end          -> Absent
                            [] p < page /\ DirOf(p) = d -> fresh
                            [] OTHER                    -> s.pt[p]]
<1>0. page \in Nat /\ d \in 0..(Dirs - 1) /\ TableSize \in Nat \ {0}
  BY DirInRange, SizesAssumption
<1>1. DirOf(end) = d
  BY AlignedEnd
<1>2. ASSUME NEW p \in Pages PROVE cleared[p] = s.pt[p]
  <2>1. p \in Nat
    BY DirInRange
  <2>2. DirOf(p) = d <=> page <= p /\ p < page + TableSize
    BY <1>0, <2>1, AlignedTable
  <2>3. CASE p \in page..end
    <3>1. DirOf(p) = d
      BY <1>0, <2>1, <2>2, <2>3
    <3>2. s.pt[p] = Absent
      BY <3>1 DEF AbsentTables
    <3>3. cleared[p] = CASE p \in page..end          -> Absent
                         [] p < page /\ DirOf(p) = d -> fresh
                         [] OTHER                    -> s.pt[p]
      OBVIOUS
    <3>4. ~(p < page)
      BY <1>0, <2>1, <2>2, <3>1
    <3> HIDE DEF d, end, cleared
    <3> QED
      BY <2>3, <3>2, <3>3, <3>4
  <2>4. CASE p \notin page..end
    <3>1. ~(DirOf(p) = d)
      BY <1>0, <2>1, <2>2, <2>4
    <3>2. cleared[p] = CASE p \in page..end          -> Absent
                         [] p < page /\ DirOf(p) = d -> fresh
                         [] OTHER                    -> s.pt[p]
      OBVIOUS
    <3>3. ~(p < page /\ DirOf(p) = d)
      BY <3>1
    <3> HIDE DEF d, end, cleared
    <3> QED
      BY <2>4, <3>2, <3>3
  <2> QED
    BY <2>3, <2>4
<1>3. cleared = s.pt
  BY <1>2 DEF State
<1>4. t = [u EXCEPT !.pd[d] = f, !.pt = cleared,
                    !.faulted = u.faulted \/ f = NoFrame \/ (DirOf(end) # d /\ s.pd[DirOf(end)] = Absent)]
  BY DEF AddTable
<1> HIDE DEF cleared, end, u, f
<1>5. t = [u EXCEPT !.pd = [u.pd EXCEPT ![d] = f], !.pt = s.pt,
                    !.faulted = u.faulted \/ f = NoFrame]
  BY <1>1, <1>3, <1>4
<1>6. u \in State /\ s.pd \in [0..(Dirs - 1) -> Entries] /\ s.faulted \in BOOLEAN
  BY AllocFacts DEF u, State
<1> HIDE DEF t, d
<1>7. /\ t.used = u.used /\ t.handed = u.handed /\ t.pd = [u.pd EXCEPT ![d] = f]
      /\ t.pt = s.pt /\ t.faulted = (u.faulted \/ f = NoFrame)
  BY <1>5, <1>6 DEF State
<1>8. CASE FreeFrames(s) = {}
  <2>1. f = NoFrame /\ u = s
    BY <1>8, AllocFacts DEF u, f
  <2>2. TableEntered(s, t, d)
    BY <1>7, <1>8, <2>1 DEF TableEntered
  <2>3. [u.pd EXCEPT ![d] = f] \in [0..(Dirs - 1) -> Entries]
    BY <1>6, <2>1, FramesFacts
  <2>4. t \in State
    BY <1>5, <1>6, <2>3 DEF State
  <2> QED
    BY <1>7, <2>2, <2>4 DEF t, d
<1>9. CASE FreeFrames(s) # {}
  <2>1. IsTaken(s, u, f)
    BY <1>9, AllocFacts DEF u, f
  <2>2. f \in Frames /\ f # NoFrame
    BY <2>1, FreeAreFrames, FramesFacts DEF IsTaken
  <2>3. t.faulted = s.faulted
    BY <1>6, <1>7, <2>1, <2>2 DEF IsTaken
  <2>4. TableEntered(s, t, d)
    BY <1>7, <2>1, <2>3 DEF TableEntered, IsTaken
  <2>5. [u.pd EXCEPT ![d] = f] \in [0..(Dirs - 1) -> Entries]
    BY <1>6, <2>1, <2>2, FramesFacts DEF IsTaken
  <2>6. t \in State
    BY <1>5, <1>6, <2>5 DEF State
  <2> QED
    BY <1>7, <2>4, <2>6 DEF t, d
<1> QED
  BY <1>8, <1>9

\* t is s with page mapped to frame.
MapEffect(s, t, page, frame) ==
    /\ t \in State /\ t.pt = [s.pt EXCEPT ![page] = frame]
    /\ \/ /\ s.pd[DirOf(page)] # Absent
          /\ t.pd = s.pd /\ t.used = s.used /\ t.handed = s.handed /\ t.faulted = s.faulted
       \/ s.pd[DirOf(page)] = Absent /\ TableEntered(s, t, DirOf(page))

\* One iteration of mem_map's loop changes one page.
LEMMA MapPageEffect ==
    ASSUME BoundsOK, NEW s \in State, AbsentTables(s),
           NEW page \in Pages, s.pd[DirOf(page)] = Absent => Aligned(page),
           NEW frame \in Frames, NEW fresh
    PROVE  MapEffect(s, MapPage(s, page, frame, fresh), page, frame)
<1> DEFINE t == MapPage(s, page, frame, fresh)
           u == IF s.pd[DirOf(page)] = Absent THEN AddTable(s, page, fresh) ELSE s
<1>1. u \in State /\ u.pt = s.pt
  BY AddTableEffect
<1>2. s.pd[DirOf(page)] = Absent => TableEntered(s, u, DirOf(page))
  BY AddTableEffect
<1>3. s.pd[DirOf(page)] # Absent => u = s
  OBVIOUS
<1>4. t = [u EXCEPT !.pt = [u.pt EXCEPT ![page] = frame]]
  BY DEF MapPage
<1> HIDE DEF u, t
<1>5. frame \in Entries
  BY FramesFacts
<1>6. /\ t \in State /\ t.pt = [s.pt EXCEPT ![page] = frame]
      /\ t.pd = u.pd /\ t.used = u.used /\ t.handed = u.handed /\ t.faulted = u.faulted
  BY <1>1, <1>4, <1>5 DEF State
<1>7. CASE s.pd[DirOf(page)] = Absent
  <2>1. TableEntered(s, t, DirOf(page))
    BY <1>2, <1>6, <1>7 DEF TableEntered
  <2> QED
    BY <1>6, <1>7, <2>1 DEF MapEffect, t
<1>8. CASE s.pd[DirOf(page)] # Absent
  BY <1>3, <1>6, <1>8 DEF MapEffect, t
<1> QED
  BY <1>7, <1>8
-----------------------------------------------------------------------------
(***************************************************************************)
(* What mapping a page keeps.                                              *)
(***************************************************************************)

\* The kernel's table is full, and no entry is left uninitialised.
Layout(s) ==
    /\ AbsentTables(s)
    /\ \A page \in Pages : s.pt[page] # Junk
    /\ \A page \in Pages : DirOf(page) = DirOf(K_MEM_START) => s.pt[page] # Absent

\* The tables other than the kernel's.
Others == (0..(Dirs - 1)) \ {DirOf(K_MEM_START)}

\* Each page table has a frame of its own, which alloc_phys handed out, and
\* the kernel's frames are marked.
OwnedTables(s) ==
    /\ s.handed \subseteq s.used /\ KernelFrames \subseteq s.used
    /\ \A x \in KernelFrames : x \notin s.handed
    /\ \A d \in Others : s.pd[d] \in Frames => s.pd[d] \in s.handed
    /\ \A d, e \in Others : s.pd[d] \in Frames /\ s.pd[d] = s.pd[e] => d = e

\* So does each page of the heap, which ends before h.
OwnedPages(s, h) ==
    /\ \A p \in K_MEM_HEAP_START..(h - 1) : s.pt[p] \in Frames => s.pt[p] \in s.handed
    /\ \A p, q \in K_MEM_HEAP_START..(h - 1) : s.pt[p] \in Frames /\ s.pt[p] = s.pt[q] => p = q
    /\ \A p \in K_MEM_HEAP_START..(h - 1) : s.pt[p] \in Frames =>
           \A d \in Others : s.pd[d] # s.pt[p]

FaultInv(s) == s.faulted => FreeFrames(s) = {}

\* Nothing that is mapped changes, and only free frames are handed out.
Keeps(s, t) ==
    /\ s.used \subseteq t.used
    /\ \A x \in t.handed : x \in s.handed \/ x \in FreeFrames(s)
    /\ \A page \in Pages : s.pt[page] # Absent => t.pt[page] = s.pt[page]
    /\ \A d \in 0..(Dirs - 1) : s.pd[d] # Absent => t.pd[d] = s.pd[d]

\* Frames that are used are not free any more.
LEMMA FreeShrinks ==
    ASSUME NEW s, NEW t, s.used \subseteq t.used
    PROVE  FreeFrames(t) \subseteq FreeFrames(s)
  BY DEF FreeFrames

\* A free frame is not in use.
LEMMA FreeNotUsed == \A s : \A f \in FreeFrames(s) : f \notin s.used
  BY DEF FreeFrames

\* Keeps is transitive.
LEMMA KeepsTransitive ==
    ASSUME NEW s, NEW t, NEW u, Keeps(s, t), Keeps(t, u)
    PROVE  Keeps(s, u)
<1>1. FreeFrames(t) \subseteq FreeFrames(s)
  BY FreeShrinks DEF Keeps
<1>2. s.used \subseteq u.used
  BY DEF Keeps
<1>3. \A x \in u.handed : x \in s.handed \/ x \in FreeFrames(s)
  BY <1>1 DEF Keeps
<1>4. \A page \in Pages : s.pt[page] # Absent => u.pt[page] = s.pt[page]
  BY DEF Keeps
<1>5. \A d \in 0..(Dirs - 1) : s.pd[d] # Absent => u.pd[d] = s.pd[d]
  BY DEF Keeps
<1> QED
  BY <1>2, <1>3, <1>4, <1>5 DEF Keeps

\* Keeps is reflexive.
LEMMA KeepsSame == \A s : Keeps(s, s)
  BY DEF Keeps

\* The tables after a page was mapped, without the page.
LEMMA MapTables ==
    ASSUME BoundsOK, NEW s \in State, NEW t, NEW page \in Pages, NEW frame,
           MapEffect(s, t, page, frame)
    PROVE  /\ s.used \subseteq t.used /\ s.handed \subseteq t.handed
           /\ \A d \in 0..(Dirs - 1) : d # DirOf(page) => t.pd[d] = s.pd[d]
           /\ s.pd[DirOf(page)] # Absent => t.pd = s.pd /\ t.handed = s.handed
           /\ t.pd[DirOf(page)] # Absent
           /\ t.pd[DirOf(page)] = s.pd[DirOf(page)] \/ t.pd[DirOf(page)] = NoFrame
                \/ t.pd[DirOf(page)] \in FreeFrames(s) \cap t.handed
           /\ \A x \in t.handed : x \in s.handed \/ x \in FreeFrames(s)
           /\ \A x \in t.used : x \in s.used \/ x \in FreeFrames(s)
           /\ t.handed \subseteq t.used \/ ~(s.handed \subseteq s.used)
           /\ t.faulted => s.faulted \/ FreeFrames(s) = {}
<1> DEFINE d0 == DirOf(page)
<1>0. d0 \in 0..(Dirs - 1) /\ s.pd \in [0..(Dirs - 1) -> Entries]
  BY DirInRange DEF State
<1> HIDE DEF d0
<1>1. CASE /\ s.pd[d0] # Absent
           /\ t.pd = s.pd /\ t.used = s.used /\ t.handed = s.handed /\ t.faulted = s.faulted
  BY <1>1 DEF d0
<1>2. ASSUME s.pd[d0] = Absent, NEW f \in FreeFrames(s), t.pd = [s.pd EXCEPT ![d0] = f],
             t.used = s.used \cup {f}, t.handed = s.handed \cup {f}, t.faulted = s.faulted
      PROVE  /\ s.used \subseteq t.used /\ s.handed \subseteq t.handed
             /\ \A d \in 0..(Dirs - 1) : d # d0 => t.pd[d] = s.pd[d]
             /\ t.pd[d0] # Absent
             /\ t.pd[d0] \in FreeFrames(s) \cap t.handed
             /\ \A x \in t.handed : x \in s.handed \/ x \in FreeFrames(s)
             /\ \A x \in t.used : x \in s.used \/ x \in FreeFrames(s)
             /\ t.handed \subseteq t.used \/ ~(s.handed \subseteq s.used)
  <2>1. t.pd[d0] = f /\ f # Absent
    BY <1>0, <1>2, FreeAreFrames, FramesFacts
  <2>2. \A d \in 0..(Dirs - 1) : d # d0 => t.pd[d] = s.pd[d]
    BY <1>0, <1>2
  <2> QED
    BY <1>2, <2>1, <2>2
<1>3. CASE /\ s.pd[d0] = Absent /\ FreeFrames(s) = {} /\ t.pd = [s.pd EXCEPT ![d0] = NoFrame]
           /\ t.used = s.used /\ t.handed = s.handed
  <2>1. t.pd[d0] = NoFrame /\ NoFrame # Absent
    BY <1>0, <1>3, FramesFacts
  <2>2. \A d \in 0..(Dirs - 1) : d # d0 => t.pd[d] = s.pd[d]
    BY <1>0, <1>3
  <2> QED
    BY <1>3, <2>1, <2>2 DEF d0
<1>4. \/ /\ s.pd[d0] # Absent
         /\ t.pd = s.pd /\ t.used = s.used /\ t.handed = s.handed /\ t.faulted = s.faulted
      \/ /\ s.pd[d0] = Absent
         /\ \E f \in FreeFrames(s) :
               /\ t.pd = [s.pd EXCEPT ![d0] = f]
               /\ t.used = s.used \cup {f} /\ t.handed = s.handed \cup {f}
               /\ t.faulted = s.faulted
      \/ /\ s.pd[d0] = Absent /\ FreeFrames(s) = {}
         /\ t.pd = [s.pd EXCEPT ![d0] = NoFrame]
         /\ t.used = s.used /\ t.handed = s.handed /\ t.faulted = TRUE
  BY Zenon DEF MapEffect, TableEntered, d0
<1>5. CASE /\ s.pd[d0] = Absent
           /\ \E f \in FreeFrames(s) :
                 /\ t.pd = [s.pd EXCEPT ![d0] = f]
                 /\ t.used = s.used \cup {f} /\ t.handed = s.handed \cup {f}
                 /\ t.faulted = s.faulted
  BY <1>2, <1>5, Zenon DEF d0
<1> QED
  BY <1>1, <1>3, <1>4, <1>5

\* The pages after a page was mapped.
LEMMA MapPages1 ==
    ASSUME NEW s \in State, NEW t, NEW page \in Pages, NEW frame, MapEffect(s, t, page, frame)
    PROVE  /\ t \in State /\ t.pt[page] = frame
           /\ \A p \in Pages : p # page => t.pt[p] = s.pt[p]
  BY DEF MapEffect, State

\* Mapping a page keeps what Layout says.
LEMMA MapLayout ==
    ASSUME BoundsOK, NEW s \in State, Layout(s), NEW t, NEW page \in Pages,
           NEW frame \in Frames, MapEffect(s, t, page, frame)
    PROVE  Layout(t)
<1>1. /\ t.pt[page] = frame /\ \A p \in Pages : p # page => t.pt[p] = s.pt[p]
  BY MapPages1
<1>2. /\ \A d \in 0..(Dirs - 1) : d # DirOf(page) => t.pd[d] = s.pd[d]
      /\ t.pd[DirOf(page)] # Absent
  BY MapTables
<1>3. frame # Junk /\ frame # Absent
  BY FramesFacts
<1>4. ASSUME NEW p \in Pages, t.pd[DirOf(p)] = Absent PROVE t.pt[p] = Absent
  <2>1. DirOf(p) \in 0..(Dirs - 1)
    BY DirInRange
  <2>2. DirOf(p) # DirOf(page) /\ p # page
    BY <1>2, <1>4
  <2>3. s.pd[DirOf(p)] = Absent
    BY <1>2, <1>4, <2>1, <2>2
  <2> QED
    BY <1>1, <2>2, <2>3 DEF Layout, AbsentTables
<1>5. \A p \in Pages : t.pt[p] # Junk
  BY <1>1, <1>3 DEF Layout
<1>6. \A p \in Pages : DirOf(p) = DirOf(K_MEM_START) => t.pt[p] # Absent
  BY <1>1, <1>3 DEF Layout
<1> QED
  BY <1>4, <1>5, <1>6 DEF Layout, AbsentTables

\* Mapping a page leaves what is mapped.
LEMMA MapKeeps ==
    ASSUME BoundsOK, NEW s \in State, NEW t, NEW page \in Pages, NEW frame,
           s.pt[page] = Absent, MapEffect(s, t, page, frame)
    PROVE  Keeps(s, t)
<1>1. \A p \in Pages : p # page => t.pt[p] = s.pt[p]
  BY MapPages1
<1>2. /\ s.used \subseteq t.used
      /\ \A d \in 0..(Dirs - 1) : d # DirOf(page) => t.pd[d] = s.pd[d]
      /\ s.pd[DirOf(page)] # Absent => t.pd = s.pd
      /\ \A x \in t.handed : x \in s.handed \/ x \in FreeFrames(s)
  BY MapTables
<1>3. \A p \in Pages : s.pt[p] # Absent => t.pt[p] = s.pt[p]
  BY <1>1
<1>4. \A d \in 0..(Dirs - 1) : s.pd[d] # Absent => t.pd[d] = s.pd[d]
  BY <1>2
<1> QED
  BY <1>2, <1>3, <1>4 DEF Keeps

\* A fault leaves no free frame behind.
LEMMA MapFaults ==
    ASSUME BoundsOK, NEW s \in State, NEW t, NEW page \in Pages, NEW frame,
           FaultInv(s), MapEffect(s, t, page, frame)
    PROVE  FaultInv(t)
<1>1. s.used \subseteq t.used /\ (t.faulted => s.faulted \/ FreeFrames(s) = {})
  BY MapTables
<1>2. FreeFrames(t) \subseteq FreeFrames(s)
  BY <1>1, FreeShrinks
<1> QED
  BY <1>1, <1>2 DEF FaultInv

\* Mapping a page keeps the tables' frames apart.
LEMMA MapOwnsTables ==
    ASSUME BoundsOK, NEW s \in State, NEW t, NEW page \in Pages, NEW frame,
           OwnedTables(s), MapEffect(s, t, page, frame)
    PROVE  OwnedTables(t)
<1> DEFINE d0 == DirOf(page)
<1>1. /\ s.used \subseteq t.used /\ s.handed \subseteq t.handed
      /\ \A d \in 0..(Dirs - 1) : d # d0 => t.pd[d] = s.pd[d]
      /\ t.pd[d0] = s.pd[d0] \/ t.pd[d0] = NoFrame \/ t.pd[d0] \in FreeFrames(s) \cap t.handed
      /\ \A x \in t.handed : x \in s.handed \/ x \in FreeFrames(s)
      /\ t.handed \subseteq t.used \/ ~(s.handed \subseteq s.used)
  BY MapTables
<1> HIDE DEF d0
<1>2. /\ s.handed \subseteq s.used /\ KernelFrames \subseteq s.used
      /\ \A x \in KernelFrames : x \notin s.handed
      /\ \A d \in Others : s.pd[d] \in Frames => s.pd[d] \in s.handed
      /\ \A d, e \in Others : s.pd[d] \in Frames /\ s.pd[d] = s.pd[e] => d = e
  BY DEF OwnedTables
<1>3. \A f \in FreeFrames(s) : f \notin s.used
  BY FreeNotUsed
<1>4. Others \subseteq 0..(Dirs - 1) /\ NoFrame \notin Frames
  BY FramesFacts DEF Others
<1>5. t.handed \subseteq t.used /\ KernelFrames \subseteq t.used
  BY <1>1, <1>2
<1>6. \A x \in KernelFrames : x \notin t.handed
  BY <1>1, <1>2, <1>3
<1>7. ASSUME NEW d \in Others, t.pd[d] \in Frames PROVE t.pd[d] \in t.handed
  BY <1>1, <1>2, <1>4, <1>7
<1>8. ASSUME NEW d \in Others, NEW e \in Others, t.pd[d] \in Frames, t.pd[d] = t.pd[e]
      PROVE  d = e
  <2>1. CASE d # d0 /\ e # d0
    BY <1>1, <1>2, <1>4, <1>8, <2>1
  <2>2. ASSUME NEW a \in Others, NEW b \in Others, a # d0, b = d0,
               t.pd[a] \in Frames, t.pd[a] = t.pd[b]
        PROVE  a = b
    <3>1. t.pd[a] = s.pd[a] /\ s.pd[a] \in s.handed /\ s.pd[a] \in s.used
      BY <1>1, <1>2, <1>4, <2>2
    <3>2. t.pd[b] \notin FreeFrames(s) /\ t.pd[b] # NoFrame
      BY <1>3, <1>4, <2>2, <3>1
    <3>3. t.pd[b] = s.pd[b]
      BY <1>1, <2>2, <3>2
    <3> QED
      BY <1>2, <2>2, <3>1, <3>3
  <2> QED
    BY <1>8, <2>1, <2>2
<1> QED
  BY <1>5, <1>6, <1>7, <1>8 DEF OwnedTables

\* A frame that is handed out and no table's does not become a table's.
LEMMA MapSparesFrame ==
    ASSUME BoundsOK, NEW s \in State, NEW t, NEW page \in Pages, NEW frame,
           OwnedTables(s), MapEffect(s, t, page, frame),
           NEW x \in s.handed, x \in Frames, \A d \in Others : s.pd[d] # x
    PROVE  x \in t.handed /\ \A d \in Others : t.pd[d] # x
<1> DEFINE d0 == DirOf(page)
<1>1. /\ s.handed \subseteq t.handed
      /\ \A d \in 0..(Dirs - 1) : d # d0 => t.pd[d] = s.pd[d]
      /\ t.pd[d0] = s.pd[d0] \/ t.pd[d0] = NoFrame \/ t.pd[d0] \in FreeFrames(s)
  BY MapTables
<1> HIDE DEF d0
<1>2. x \notin FreeFrames(s) /\ x # NoFrame
  BY FreeNotUsed, FramesFacts DEF OwnedTables
<1>3. Others \subseteq 0..(Dirs - 1)
  BY DEF Others
<1> QED
  BY <1>1, <1>2, <1>3
-----------------------------------------------------------------------------
(***************************************************************************)
(* The search for a free region.                                           *)
(***************************************************************************)

\* The layout of the address space.
LEMMA LayoutFacts ==
    /\ K_MEM_START \in Nat /\ K_MEM_HEAP_START \in Nat /\ K_MEM_DEV_START \in Nat
    /\ K_MEM_HEAP_END \in Int
    /\ K_MEM_START < K_MEM_HEAP_START /\ K_MEM_HEAP_START <= K_MEM_HEAP_END
    /\ K_MEM_HEAP_END < K_MEM_DEV_START
    /\ Aligned(K_MEM_START) /\ Aligned(K_MEM_HEAP_START) /\ Aligned(K_MEM_DEV_START)
    /\ K_MEM_START \in Pages /\ K_MEM_HEAP_START \in Pages /\ K_MEM_DEV_START \in Pages
<1>1. K_MEM_START \in Pages /\ K_MEM_HEAP_START \in Pages /\ K_MEM_DEV_START \in Pages
  BY LayoutAssumption
<1>2. K_MEM_START \in Nat /\ K_MEM_HEAP_START \in Nat /\ K_MEM_DEV_START \in Nat
  BY <1>1, DirInRange
<1> QED
  BY <1>1, <1>2, LayoutAssumption DEF Aligned

\* Pages are an interval.
LEMMA PagesInterval ==
    /\ First(Dirs) \in Nat /\ Pages = 0..(First(Dirs) - 1) /\ Dirs * TableSize = First(Dirs)
  BY SizesAssumption, FirstNat DEF Pages, First

\* The pages before a page of the address space are in it too.
LEMMA PagesBelow ==
    ASSUME NEW page \in Pages, NEW p \in Int, 0 <= p, p <= page
    PROVE  p \in Pages /\ p \in Nat
  BY PagesInterval

\* A region without mapped pages is found free.
LEMMA FreeIsFree ==
    ASSUME NEW s, NEW start \in Nat, NEW n \in Nat,
           \A p \in start..(start + n - 1) : s.pt[p] = Absent
    PROVE  ~is_virt_region_used(s, start, n)
<1> DEFINE stops == {p \in start..(start + n - 1) : StopsAt(s, p)}
<1>1. ASSUME stops # {} PROVE s.pd[DirOf(Min(stops))] = Absent
  <2>1. stops \subseteq Nat
    OBVIOUS
  <2>2. Min(stops) \in stops
    BY <1>1, <2>1, MinNat
  <2>3. s.pt[Min(stops)] = Absent /\ StopsAt(s, Min(stops))
    BY <2>2
  <2> QED
    BY <2>3 DEF StopsAt
<1> QED
  BY <1>1 DEF is_virt_region_used

\* A region whose first page is mapped is not.
LEMMA UsedIsUsed ==
    ASSUME NEW s, AbsentTables(s), NEW start \in Pages, NEW n \in Nat \ {0},
           s.pt[start] # Absent
    PROVE  is_virt_region_used(s, start, n)
<1> DEFINE stops == {p \in start..(start + n - 1) : StopsAt(s, p)}
<1>0. start \in Nat
  BY DirInRange
<1>1. start \in stops /\ stops \subseteq Nat /\ \A y \in stops : start <= y
  BY <1>0 DEF StopsAt
<1>2. Min(stops) = start
  <2> HIDE DEF stops
  <2> QED
    BY <1>1, MinIs
<1>3. s.pd[DirOf(start)] # Absent
  BY DEF AbsentTables
<1>4. stops # {}
  BY <1>1
<1> HIDE DEF stops
<1> QED
  BY <1>2, <1>3, <1>4 DEF is_virt_region_used, stops

\* mem_map of one page that is free takes this page.
LEMMA FreeRegionOne ==
    ASSUME NEW s, NEW page \in Pages, s.pt[page] = Absent
    PROVE  FreeRegion(s, page, 1) = page
<1> DEFINE found == {start \in page..(Dirs * TableSize - 1) : ~is_virt_region_used(s, start, 1)}
<1>0. page \in Nat /\ First(Dirs) \in Nat /\ page < First(Dirs) /\ Dirs * TableSize = First(Dirs)
  BY PagesInterval
<1>1. ~is_virt_region_used(s, page, 1)
  <2>1. \A p \in page..(page + 1 - 1) : p = page
    BY <1>0
  <2> QED
    BY <1>0, <2>1, FreeIsFree
<1>2. page \in page..(Dirs * TableSize - 1)
  BY <1>0
<1>3. page \in found /\ found \subseteq Nat /\ \A y \in found : page <= y
  BY <1>0, <1>1, <1>2
<1>4. FreeRegion(s, page, 1) = IF found = {} THEN NULL ELSE Min(found)
  BY DEF FreeRegion
<1> HIDE DEF found
<1>5. found # {} /\ Min(found) = page
  BY <1>3, MinIs
<1> QED
  BY <1>4, <1>5
-----------------------------------------------------------------------------
(***************************************************************************)
(* The loops: each is a run, a function from the number of iterations to   *)
(* the state after them.                                                   *)
(***************************************************************************)
IsMapRun(f, s, start, n, frame, fresh) ==
    f = [k \in 0..n |->
            IF k = 0 THEN s ELSE MapPage(f[k - 1], start + k - 1, frame + k - 1, fresh)]

\* The run of mem_map's loop exists.
LEMMA MapRunExists ==
    ASSUME NEW s, NEW start, NEW n \in Nat, NEW frame, NEW fresh
    PROVE  \E f : IsMapRun(f, s, start, n, frame, fresh)
<1> DEFINE T == {m \in Nat : ~\E f : IsMapRun(f, s, start, m, frame, fresh)}
<1> SUFFICES ASSUME T # {} PROVE FALSE
  OBVIOUS
<1>2. PICK m \in T : \A y \in T : m <= y
  BY LeastNat
<1>3. CASE m = 0
  <2> DEFINE g == [k \in 0..0 |-> s]
  <2>1. \A k \in 0..0 : k = 0
    OBVIOUS
  <2>2. IsMapRun(g, s, start, 0, frame, fresh)
    BY <2>1 DEF IsMapRun
  <2> QED
    BY <1>3, <2>2
<1>4. CASE m # 0
  <2>0. m \in Nat
    OBVIOUS
  <2>1. m - 1 \in Nat /\ m - 1 \notin T
    BY <1>2, <1>4
  <2>2. PICK f : IsMapRun(f, s, start, m - 1, frame, fresh)
    BY <2>1
  <2> DEFINE g == [k \in 0..m |-> IF k = m THEN MapPage(f[m - 1], start + m - 1, frame + m - 1, fresh)
                                           ELSE f[k]]
  <2>3. ASSUME NEW k \in 0..m
        PROVE  g[k] = IF k = 0 THEN s ELSE MapPage(g[k - 1], start + k - 1, frame + k - 1, fresh)
    <3>1. CASE k = m
      <4>1. g[k - 1] = f[m - 1]
        BY <1>4, <2>0, <3>1
      <4> QED
        BY <1>4, <3>1, <4>1
    <3>2. CASE k # m
      <4>1. k \in 0..(m - 1) /\ (k # 0 => k - 1 \in 0..m /\ k - 1 # m)
        BY <2>0, <3>2
      <4>2. g[k] = f[k] /\ (k # 0 => g[k - 1] = f[k - 1])
        BY <3>2, <4>1
      <4>3. f[k] = IF k = 0 THEN s ELSE MapPage(f[k - 1], start + k - 1, frame + k - 1, fresh)
        BY <2>2, <4>1 DEF IsMapRun
      <4> QED
        BY <4>2, <4>3
    <3> QED
      BY <3>1, <3>2
  <2>4. g = [k \in 0..m |-> g[k]]
    OBVIOUS
  <2> HIDE DEF g
  <2>5. IsMapRun(g, s, start, m, frame, fresh)
    BY <2>3, <2>4 DEF IsMapRun
  <2> QED
    BY <2>5
<1> QED
  BY <1>3, <1>4

MapLoop(f, s, start, n, frame, fresh) ==
    /\ f[0] = s /\ f[n] = MapPages(s, start, n, frame, fresh)
    /\ \A k \in 1..n : f[k] = MapPage(f[k - 1], start + k - 1, frame + k - 1, fresh)

\* mem_map's loop is a run: it starts with s, maps a page in each iteration,
\* and MapPages is its last state.
LEMMA MapRun ==
    ASSUME NEW s, NEW start, NEW n \in Nat, NEW frame, NEW fresh
    PROVE  \E f : MapLoop(f, s, start, n, frame, fresh)
<1> DEFINE F == CHOOSE f : IsMapRun(f, s, start, n, frame, fresh)
<1>1. IsMapRun(F, s, start, n, frame, fresh)
  BY MapRunExists
<1>2. MapPages(s, start, n, frame, fresh) = F[n]
  BY DEF MapPages, IsMapRun
<1> HIDE DEF F
<1>3. F[0] = s /\ \A k \in 1..n : F[k] = MapPage(F[k - 1], start + k - 1, frame + k - 1, fresh)
  BY <1>1 DEF IsMapRun
<1> QED
  BY <1>2, <1>3 DEF MapLoop

\* One iteration of mem_alloc's loop.
AllocPage(s, page, fresh) == mem_map(AfterAlloc(s), page, 1, alloc_phys(s), fresh).state

IsAllocRun(f, s, start, n, fresh) ==
    f = [k \in 0..n |-> IF k = 0 THEN s ELSE AllocPage(f[k - 1], start + k - 1, fresh)]

\* The run of mem_alloc's loop exists.
LEMMA AllocRunExists ==
    ASSUME NEW s, NEW start, NEW n \in Nat, NEW fresh
    PROVE  \E f : IsAllocRun(f, s, start, n, fresh)
<1> DEFINE T == {m \in Nat : ~\E f : IsAllocRun(f, s, start, m, fresh)}
<1> SUFFICES ASSUME T # {} PROVE FALSE
  OBVIOUS
<1>2. PICK m \in T : \A y \in T : m <= y
  BY LeastNat
<1>3. CASE m = 0
  <2> DEFINE g == [k \in 0..0 |-> s]
  <2>1. \A k \in 0..0 : k = 0
    OBVIOUS
  <2>2. IsAllocRun(g, s, start, 0, fresh)
    BY <2>1 DEF IsAllocRun
  <2> QED
    BY <1>3, <2>2
<1>4. CASE m # 0
  <2>0. m \in Nat
    OBVIOUS
  <2>1. m - 1 \in Nat /\ m - 1 \notin T
    BY <1>2, <1>4
  <2>2. PICK f : IsAllocRun(f, s, start, m - 1, fresh)
    BY <2>1
  <2> DEFINE g == [k \in 0..m |-> IF k = m THEN AllocPage(f[m - 1], start + m - 1, fresh) ELSE f[k]]
  <2>3. ASSUME NEW k \in 0..m
        PROVE  g[k] = IF k = 0 THEN s ELSE AllocPage(g[k - 1], start + k - 1, fresh)
    <3>1. CASE k = m
      <4>1. g[k - 1] = f[m - 1]
        BY <1>4, <2>0, <3>1
      <4> QED
        BY <1>4, <3>1, <4>1
    <3>2. CASE k # m
      <4>1. k \in 0..(m - 1) /\ (k # 0 => k - 1 \in 0..m /\ k - 1 # m)
        BY <2>0, <3>2
      <4>2. g[k] = f[k] /\ (k # 0 => g[k - 1] = f[k - 1])
        BY <3>2, <4>1
      <4>3. f[k] = IF k = 0 THEN s ELSE AllocPage(f[k - 1], start + k - 1, fresh)
        BY <2>2, <4>1 DEF IsAllocRun
      <4> QED
        BY <4>2, <4>3
    <3> QED
      BY <3>1, <3>2
  <2>4. g = [k \in 0..m |-> g[k]]
    OBVIOUS
  <2> HIDE DEF g
  <2>5. IsAllocRun(g, s, start, m, fresh)
    BY <2>3, <2>4 DEF IsAllocRun
  <2> QED
    BY <2>5
<1> QED
  BY <1>3, <1>4

AllocLoop(f, s, start, n, fresh) ==
    /\ f[0] = s /\ f[n] = AllocPages(s, start, n, fresh)
    /\ \A k \in 1..n : f[k] = AllocPage(f[k - 1], start + k - 1, fresh)

\* So is mem_alloc's loop, with AllocPages as its last state.
LEMMA AllocRun ==
    ASSUME NEW s, NEW start, NEW n \in Nat, NEW fresh
    PROVE  \E f : AllocLoop(f, s, start, n, fresh)
<1> DEFINE F == CHOOSE f : IsAllocRun(f, s, start, n, fresh)
<1>1. IsAllocRun(F, s, start, n, fresh)
  BY AllocRunExists
<1>2. AllocPages(s, start, n, fresh) = F[n]
  BY DEF AllocPages, IsAllocRun, AllocPage
<1> HIDE DEF F
<1>3. F[0] = s /\ \A k \in 1..n : F[k] = AllocPage(F[k - 1], start + k - 1, fresh)
  BY <1>1 DEF IsAllocRun
<1> QED
  BY <1>2, <1>3 DEF AllocLoop

\* mem_map of one free page is one iteration.
LEMMA MapOne ==
    ASSUME NEW s, NEW page \in Pages, s.pt[page] = Absent, NEW frame \in Frames, NEW fresh
    PROVE  mem_map(s, page, 1, frame, fresh).state = MapPage(s, page, frame, fresh)
<1>0. page \in Nat /\ frame \in Nat /\ frame # NoFrame
  BY DirInRange, FramesFacts
<1>1. FreeRegion(s, page, 1) = page /\ page # NULL
  BY <1>0, FreeRegionOne DEF NULL
<1>2. mem_map(s, page, 1, frame, fresh).state = MapPages(s, page, 1, frame, fresh)
  BY <1>0, <1>1 DEF mem_map
<1>3. PICK f : MapLoop(f, s, page, 1, frame, fresh)
  BY MapRun
<1>4. 1 \in 1..1 /\ 1 - 1 = 0 /\ page + 1 - 1 = page /\ frame + 1 - 1 = frame
  BY <1>0
<1>5. f[0] = s /\ f[1] = MapPages(s, page, 1, frame, fresh) /\ f[1] = MapPage(f[0], page, frame, fresh)
  BY <1>3, <1>4 DEF MapLoop
<1> QED
  BY <1>2, <1>5
-----------------------------------------------------------------------------
(***************************************************************************)
(* mem_alloc at the end of the heap.                                       *)
(***************************************************************************)

\* As long as there is free memory, the heap is mapped up to h.
Mapped(s, h) ==
    FreeFrames(s) # {} => \A p \in K_MEM_HEAP_START..(h - 1) : s.pt[p] \in Frames

\* Nothing is mapped from h to the end of the heap's region.
FreeAbove(s, h) == \A p \in h..(K_MEM_HEAP_END - 1) : s.pt[p] = Absent

TablesGood(s) == s \in State /\ Layout(s) /\ OwnedTables(s) /\ FaultInv(s)

HeapGood(s, h) == TablesGood(s) /\ OwnedPages(s, h) /\ Mapped(s, h) /\ FreeAbove(s, h)

\* Taking a frame disturbs neither the tables nor the pages of the heap, and
\* the frame belongs to none of them.
LEMMA TakenKeeps ==
    ASSUME BoundsOK, NEW s, TablesGood(s), NEW u \in State, NEW f, IsTaken(s, u, f)
    PROVE  /\ TablesGood(u) /\ Keeps(s, u) /\ f \in Frames /\ f \in u.handed
           /\ f \notin s.handed /\ \A d \in Others : u.pd[d] # f
<1>0. /\ f \in FreeFrames(s) /\ u.used = s.used \cup {f} /\ u.handed = s.handed \cup {f}
      /\ u.faulted = s.faulted /\ u.pd = s.pd /\ u.pt = s.pt
  BY DEF IsTaken
<1>1. f \in Frames /\ f \notin s.used
  BY <1>0, FreeAreFrames, FreeNotUsed
<1>2. Layout(u)
  BY <1>0 DEF TablesGood, Layout, AbsentTables
<1>3. FreeFrames(u) \subseteq FreeFrames(s)
  BY <1>0, FreeShrinks
<1>4. FaultInv(u)
  BY <1>0, <1>3 DEF TablesGood, FaultInv
<1>5. /\ s.handed \subseteq s.used /\ KernelFrames \subseteq s.used
      /\ \A x \in KernelFrames : x \notin s.handed
      /\ \A d \in Others : s.pd[d] \in Frames => s.pd[d] \in s.handed
      /\ \A d, e \in Others : s.pd[d] \in Frames /\ s.pd[d] = s.pd[e] => d = e
  BY DEF TablesGood, OwnedTables
<1>6. OwnedTables(u)
  BY <1>0, <1>1, <1>5 DEF OwnedTables
<1>7. Keeps(s, u)
  BY <1>0 DEF Keeps
<1> QED
  BY <1>0, <1>1, <1>2, <1>4, <1>5, <1>6, <1>7 DEF TablesGood

\* Mapping a page of a good state gives a good state.
LEMMA MapGood ==
    ASSUME BoundsOK, NEW s, TablesGood(s), NEW page \in Pages, s.pt[page] = Absent,
           s.pd[DirOf(page)] = Absent => Aligned(page), NEW frame \in Frames, NEW fresh
    PROVE  LET t == MapPage(s, page, frame, fresh)
           IN  TablesGood(t) /\ Keeps(s, t) /\ MapEffect(s, t, page, frame)
<1> DEFINE t == MapPage(s, page, frame, fresh)
<1>1. s \in State /\ Layout(s) /\ OwnedTables(s) /\ FaultInv(s) /\ AbsentTables(s)
  BY DEF TablesGood, Layout
<1>2. MapEffect(s, t, page, frame)
  BY <1>1, MapPageEffect
<1> HIDE DEF t
<1>3. t \in State
  BY <1>1, <1>2, MapPages1
<1>4. Layout(t)
  BY <1>1, <1>2, MapLayout
<1>5. OwnedTables(t)
  BY <1>1, <1>2, MapOwnsTables
<1>6. FaultInv(t)
  BY <1>1, <1>2, MapFaults
<1>7. Keeps(s, t)
  BY <1>1, <1>2, MapKeeps
<1> QED
  BY <1>2, <1>3, <1>4, <1>5, <1>6, <1>7 DEF TablesGood, t

\* The page of the heap after the last is the first of its table, if its
\* table is absent and there is memory.
LEMMA HeapTableStarts ==
    ASSUME NEW s, NEW h \in Nat, K_MEM_HEAP_START <= h, h \in Pages,
           HeapGood(s, h), FreeFrames(s) # {}, s.pd[DirOf(h)] = Absent
    PROVE  Aligned(h)
<1> SUFFICES ASSUME ~Aligned(h) PROVE FALSE
  OBVIOUS
<1>1. h - 1 \in Nat /\ DirOf(h - 1) = DirOf(h)
  BY PageBefore
<1>2. h # K_MEM_HEAP_START /\ K_MEM_HEAP_START \in Nat
  BY LayoutFacts
<1>3. h - 1 \in K_MEM_HEAP_START..(h - 1) /\ 0 <= h - 1 /\ h - 1 <= h
  BY <1>1, <1>2
<1>4. h - 1 \in Pages
  BY <1>1, <1>3, PagesBelow
<1>5. s.pt[h - 1] \in Frames
  BY <1>3 DEF HeapGood, Mapped
<1>6. s.pt[h - 1] = Absent
  BY <1>1, <1>4 DEF HeapGood, TablesGood, Layout, AbsentTables
<1> QED
  BY <1>5, <1>6, FramesFacts

\* One iteration of mem_alloc's loop extends the heap by a page.
LEMMA AllocStep ==
    ASSUME BoundsOK, NEW s, NEW h \in K_MEM_HEAP_START..(K_MEM_HEAP_END - 1),
           HeapGood(s, h), NEW fresh
    PROVE  LET t == AllocPage(s, h, fresh) IN HeapGood(t, h + 1) /\ Keeps(s, t)
<1> DEFINE t == AllocPage(s, h, fresh)
           u == AfterAlloc(s)
           f == alloc_phys(s)
           L == K_MEM_HEAP_START
           M == K_MEM_HEAP_END
<1>0. /\ L \in Nat /\ M \in Nat /\ h \in Nat /\ L <= h /\ h < M /\ M < K_MEM_DEV_START
      /\ K_MEM_DEV_START \in Pages /\ K_MEM_DEV_START \in Nat
  BY LayoutFacts
<1>1. h \in Pages
  <2>1. h \in Int /\ 0 <= h /\ h <= K_MEM_DEV_START
    BY <1>0
  <2> QED
    BY <1>0, <2>1, PagesBelow
<1> HIDE DEF L, M
<1>2. /\ TablesGood(s) /\ s \in State
      /\ \A p \in L..(h - 1) : s.pt[p] \in Frames => s.pt[p] \in s.handed
      /\ \A p, q \in L..(h - 1) : s.pt[p] \in Frames /\ s.pt[p] = s.pt[q] => p = q
      /\ \A p \in L..(h - 1) : s.pt[p] \in Frames => \A d \in Others : s.pd[d] # s.pt[p]
      /\ FreeFrames(s) # {} => \A p \in L..(h - 1) : s.pt[p] \in Frames
      /\ \A p \in h..(M - 1) : s.pt[p] = Absent
  BY DEF HeapGood, TablesGood, OwnedPages, Mapped, FreeAbove, L, M
<1>3. /\ h \in h..(M - 1) /\ s.pt[h] = Absent
      /\ \A p \in L..(h + 1 - 1) : p = h \/ p \in L..(h - 1)
      /\ \A p \in (h + 1)..(M - 1) : p \in h..(M - 1) /\ p # h
  BY <1>0, <1>2
<1>4. /\ \A p \in L..(h - 1) : p \in Pages /\ p # h
      /\ \A p \in h..(M - 1) : p \in Pages
  <2>1. \A p \in L..(h - 1) : p \in Int /\ 0 <= p /\ p <= K_MEM_DEV_START /\ p # h
    BY <1>0
  <2>2. \A p \in h..(M - 1) : p \in Int /\ 0 <= p /\ p <= K_MEM_DEV_START
    BY <1>0
  <2> QED
    BY <1>0, <2>1, <2>2, PagesBelow
<1>5. CASE FreeFrames(s) = {}
  <2>1. f = NoFrame /\ u = s
    BY <1>2, <1>5, AllocFacts
  <2>2. t = s
    BY <2>1 DEF AllocPage, mem_map
  <2> HIDE DEF t
  <2>3. OwnedPages(s, h + 1)
    <3>1. s.pt[h] \notin Frames
      BY <1>3, FramesFacts
    <3>2. \A p \in L..(h + 1 - 1) : s.pt[p] \in Frames => p \in L..(h - 1)
      BY <1>3, <3>1
    <3>3. \A p \in L..(h + 1 - 1) : s.pt[p] \in Frames => s.pt[p] \in s.handed
      BY <1>2, <3>2
    <3>4. \A p, q \in L..(h + 1 - 1) : s.pt[p] \in Frames /\ s.pt[p] = s.pt[q] => p = q
      BY <1>2, <3>2
    <3>5. \A p \in L..(h + 1 - 1) : s.pt[p] \in Frames => \A d \in Others : s.pd[d] # s.pt[p]
      BY <1>2, <3>2
    <3> QED
      BY <3>3, <3>4, <3>5 DEF OwnedPages, L
  <2>4. Mapped(s, h + 1)
    BY <1>5 DEF Mapped
  <2>5. FreeAbove(s, h + 1)
    BY <1>2, <1>3 DEF FreeAbove, M
  <2>6. HeapGood(t, h + 1) /\ Keeps(s, t)
    BY <1>2, <2>2, <2>3, <2>4, <2>5, KeepsSame DEF HeapGood
  <2> QED
    BY <2>6 DEF t
<1>6. CASE FreeFrames(s) # {}
  <2>1. u \in State /\ IsTaken(s, u, f)
    BY <1>2, <1>6, AllocFacts
  <2>2. t = mem_map(u, h, 1, f, fresh).state
    BY DEF AllocPage
  <2> HIDE DEF t, u, f
  <2>3. /\ TablesGood(u) /\ Keeps(s, u) /\ f \in Frames /\ f \in u.handed
        /\ f \notin s.handed /\ \A d \in Others : u.pd[d] # f
    BY <1>2, <2>1, TakenKeeps
  <2>4. u.handed = s.handed \cup {f} /\ u.pt = s.pt /\ u.pd = s.pd /\ s.used \subseteq u.used
    BY <2>1 DEF IsTaken
  <2>5. u.pt[h] = Absent
    BY <1>3, <2>4
  <2>6. t = MapPage(u, h, f, fresh)
    BY <1>1, <2>2, <2>3, <2>5, MapOne
  <2>7. u.pd[DirOf(h)] = Absent => Aligned(h)
    BY <1>0, <1>1, <1>6, <2>4, HeapTableStarts DEF L
  <2>8. TablesGood(t) /\ Keeps(u, t) /\ MapEffect(u, t, h, f)
    BY <1>1, <2>3, <2>5, <2>6, <2>7, MapGood
  <2>9. t.pt[h] = f /\ \A p \in Pages : p # h => t.pt[p] = s.pt[p]
    BY <1>1, <2>1, <2>4, <2>8, MapPages1
  <2>10. OwnedTables(u)
    BY <2>3 DEF TablesGood
  <2>11. f \in t.handed /\ \A d \in Others : t.pd[d] # f
    <3>1. u \in State /\ OwnedTables(u) /\ MapEffect(u, t, h, f)
          /\ f \in u.handed /\ f \in Frames /\ \A d \in Others : u.pd[d] # f
      BY <2>1, <2>3, <2>8, <2>10
    <3> QED
      BY <1>1, <3>1, MapSparesFrame, Zenon
  <2>12. ASSUME NEW p \in L..(h - 1), s.pt[p] \in Frames
         PROVE  /\ t.pt[p] = s.pt[p] /\ t.pt[p] \in s.handed /\ t.pt[p] \in t.handed
                /\ t.pt[p] # f /\ \A d \in Others : t.pd[d] # t.pt[p]
    <3>1. t.pt[p] = s.pt[p]
      BY <1>4, <2>9
    <3>2. s.pt[p] \in s.handed /\ s.pt[p] \in u.handed /\ \A d \in Others : u.pd[d] # s.pt[p]
      BY <1>2, <2>4, <2>12
    <3>3. s.pt[p] \in t.handed /\ \A d \in Others : t.pd[d] # s.pt[p]
      BY <1>1, <2>1, <2>8, <2>10, <2>12, <3>2, MapSparesFrame
    <3> QED
      BY <2>3, <3>1, <3>2, <3>3
  <2>13. \A p \in L..(h - 1) : s.pt[p] \in Frames /\ t.pt[p] = s.pt[p]
    BY <1>2, <1>6, <2>12
  <2>14. OwnedPages(t, h + 1)
    <3>1. \A p \in L..(h + 1 - 1) : t.pt[p] \in t.handed
      BY <1>3, <2>9, <2>11, <2>12, <2>13
    <3>2. ASSUME NEW p \in L..(h + 1 - 1), NEW q \in L..(h + 1 - 1), t.pt[p] = t.pt[q] PROVE p = q
      BY <1>2, <1>3, <2>9, <2>12, <2>13, <3>2
    <3>3. \A p \in L..(h + 1 - 1) : \A d \in Others : t.pd[d] # t.pt[p]
      BY <1>3, <2>9, <2>11, <2>12, <2>13
    <3> QED
      BY <3>1, <3>2, <3>3 DEF OwnedPages, L
  <2>15. \A p \in L..(h + 1 - 1) : t.pt[p] \in Frames
    BY <1>3, <2>3, <2>9, <2>13
  <2>16. Mapped(t, h + 1)
    BY <2>15 DEF Mapped, L
  <2>17. \A p \in (h + 1)..(M - 1) : t.pt[p] = Absent
    BY <1>2, <1>3, <1>4, <2>9
  <2>18. FreeAbove(t, h + 1)
    BY <2>17 DEF FreeAbove, M
  <2>19. Keeps(s, t)
    BY <2>3, <2>8, KeepsTransitive
  <2>20. HeapGood(t, h + 1) /\ Keeps(s, t)
    BY <2>8, <2>14, <2>16, <2>18, <2>19 DEF HeapGood
  <2> QED
    BY <2>20 DEF t
<1> QED
  BY <1>5, <1>6

\* mem_alloc's loop extends the heap by n pages.
LEMMA AllocGood ==
    ASSUME BoundsOK, NEW s, NEW h \in K_MEM_HEAP_START..K_MEM_HEAP_END, NEW n \in Nat,
           h + n <= K_MEM_HEAP_END, HeapGood(s, h), NEW fresh
    PROVE  LET t == AllocPages(s, h, n, fresh) IN HeapGood(t, h + n) /\ Keeps(s, t)
<1>0. h \in Nat /\ K_MEM_HEAP_START \in Nat /\ K_MEM_HEAP_START <= h /\ K_MEM_HEAP_END \in Nat
  BY LayoutFacts
<1>1. PICK f : AllocLoop(f, s, h, n, fresh)
  BY AllocRun
<1>10. /\ f[0] = s /\ f[n] = AllocPages(s, h, n, fresh)
      /\ \A k \in 1..n : f[k] = AllocPage(f[k - 1], h + k - 1, fresh)
  BY <1>1 DEF AllocLoop
<1> DEFINE Good(k) == HeapGood(f[k], h + k) /\ Keeps(s, f[k])
           T == {k \in 0..n : ~Good(k)}
<1>2. Good(0)
  <2>1. h + 0 = h
    BY <1>0
  <2> QED
    BY <1>10, <2>1, KeepsSame
<1>3. ASSUME NEW k \in 1..n, Good(k - 1) PROVE Good(k)
  <2>1. h + k - 1 \in K_MEM_HEAP_START..(K_MEM_HEAP_END - 1) /\ h + k - 1 + 1 = h + k
        /\ h + (k - 1) = h + k - 1
    BY <1>0
  <2>2. f[k] = AllocPage(f[k - 1], h + k - 1, fresh)
    BY <1>10
  <2>3. HeapGood(f[k - 1], h + k - 1) /\ Keeps(s, f[k - 1])
    BY <1>3, <2>1
  <2>4. HeapGood(f[k], h + k - 1 + 1) /\ Keeps(f[k - 1], f[k])
    BY <2>1, <2>2, <2>3, AllocStep
  <2>5. Keeps(s, f[k])
    BY <2>3, <2>4, KeepsTransitive
  <2> QED
    BY <2>1, <2>4, <2>5
<1> HIDE DEF Good
<1>4. T = {}
  <2> SUFFICES ASSUME T # {} PROVE FALSE
    OBVIOUS
  <2>0. T \subseteq Nat
    OBVIOUS
  <2>1. PICK k \in T : \A y \in T : k <= y
    BY <2>0, LeastNat
  <2>2. k \in 1..n /\ k - 1 \in 0..n
    BY <1>2
  <2>3. Good(k - 1)
    BY <2>1, <2>2
  <2> QED
    BY <1>3, <2>2, <2>3
<1>5. Good(n)
  BY <1>4
<1> QED
  BY <1>10, <1>5 DEF Good
-----------------------------------------------------------------------------
(***************************************************************************)
(* The RAM disk, mapped in the gap behind the kernel.                      *)
(***************************************************************************)
GapStart == K_MEM_START + TableSize

\* The gap is mapped up to its page k, and free from there to the devices.
Gap(s, k) ==
    /\ \A p \in GapStart..(GapStart + k - 1) : s.pt[p] # Absent
    /\ \A p \in (GapStart + k)..(K_MEM_DEV_START - 1) : s.pt[p] = Absent

\* The gap starts with a table, and not after the heap.
LEMMA GapFacts ==
    /\ GapStart \in Nat /\ Aligned(GapStart) /\ GapStart <= K_MEM_HEAP_START
    /\ \A p \in K_MEM_START..(GapStart - 1) : p \in Pages /\ DirOf(p) = DirOf(K_MEM_START)
<1> DEFINE K == K_MEM_START
           d == DirOf(K)
<1>0. /\ TableSize \in Nat \ {0} /\ K \in Nat /\ d \in Nat /\ d + 1 \in Nat
      /\ K_MEM_HEAP_START \in Nat /\ K < K_MEM_HEAP_START /\ Aligned(K) /\ Aligned(K_MEM_HEAP_START)
      /\ K_MEM_HEAP_START \in Pages
  BY SizesAssumption, LayoutFacts, DirNat
<1> HIDE DEF K
<1>1. First(d) = K /\ First(d) \in Nat
  <2>1. K = First(d) + (K % TableSize) /\ K % TableSize = 0
    BY <1>0, PagePlace DEF Aligned
  <2>2. First(d) \in Nat
    BY <1>0, FirstNat
  <2> QED
    BY <2>1, <2>2
<1> DEFINE R == GapStart
<1>2. R = K + TableSize
  BY DEF GapStart, K
<1>3. R = First(d + 1)
  BY <1>0, <1>1, <1>2, FirstFacts
<1> HIDE DEF R, d
<1>4. R \in Nat
  BY <1>0, <1>2
<1>5. DirOf(R) = d + 1
  <2>1. First(d + 1) <= R /\ R < First(d + 1) + TableSize
    BY <1>0, <1>3, <1>4
  <2> QED
    BY <1>0, <1>4, <2>1, InTable
<1>6. R % TableSize = 0
  <2>1. R = First(d + 1) + (R % TableSize) /\ R % TableSize \in 0..(TableSize - 1)
    BY <1>4, <1>5, PagePlace
  <2>2. PICK r \in 0..(TableSize - 1) : r = R % TableSize
    BY <2>1
  <2>3. R = R + r
    BY <1>3, <2>1, <2>2
  <2>4. r = 0
    BY <1>0, <1>4, <2>3
  <2> QED
    BY <2>2, <2>4
<1>7. R <= K_MEM_HEAP_START
  <2> SUFFICES ASSUME K_MEM_HEAP_START < R PROVE FALSE
    BY <1>0, <1>4
  <2>1. DirOf(K_MEM_HEAP_START) = DirOf(K)
    BY <1>0, <1>2, AlignedTable
  <2>2. K_MEM_HEAP_START <= K
    BY <1>0, <2>1, AlignedTable
  <2> QED
    BY <1>0, <2>2
<1>8. ASSUME NEW p \in K..(R - 1) PROVE p \in Pages /\ DirOf(p) = DirOf(K)
  <2>1. p \in Nat /\ K <= p /\ p < K + TableSize /\ p <= K_MEM_HEAP_START /\ 0 <= p
    BY <1>0, <1>2, <1>4, <1>7
  <2>2. DirOf(p) = DirOf(K)
    BY <1>0, <2>1, AlignedTable
  <2> QED
    BY <1>0, <2>1, <2>2, PagesBelow
<1> QED
  BY <1>4, <1>6, <1>7, <1>8 DEF Aligned, R, K

\* Everything from the gap to the devices is in the address space.
LEMMA GapPages == \A p \in GapStart..K_MEM_DEV_START : p \in Pages /\ p \in Nat
<1>1. GapStart \in Nat /\ K_MEM_DEV_START \in Nat /\ K_MEM_DEV_START \in Pages
  BY GapFacts, LayoutFacts
<1>2. \A p \in GapStart..K_MEM_DEV_START : p \in Int /\ 0 <= p /\ p <= K_MEM_DEV_START
  BY <1>1
<1> QED
  BY <1>1, <1>2, PagesBelow

\* The search for the RAM disk's pages ends at the gap.
LEMMA FreeRegionGap ==
    ASSUME NEW s, Layout(s), Gap(s, 0), NEW n \in Nat \ {0}, GapStart + n <= K_MEM_DEV_START
    PROVE  FreeRegion(s, K_MEM_START, n) = GapStart
<1> DEFINE K == K_MEM_START
           R == GapStart
           found == {start \in K..(Dirs * TableSize - n) : ~is_virt_region_used(s, start, n)}
<1>0. /\ K \in Nat /\ R \in Nat /\ K <= R /\ K_MEM_DEV_START \in Nat
      /\ First(Dirs) \in Nat /\ K_MEM_DEV_START < First(Dirs) /\ Dirs * TableSize = First(Dirs)
  <2>1. K \in Nat /\ R \in Nat /\ K_MEM_DEV_START \in Nat /\ K_MEM_DEV_START \in Pages
    BY GapFacts, LayoutFacts
  <2>2. First(Dirs) \in Nat /\ Pages = 0..(First(Dirs) - 1) /\ Dirs * TableSize = First(Dirs)
    BY PagesInterval
  <2>3. TableSize \in Nat /\ R = K + TableSize
    BY SizesAssumption DEF GapStart
  <2> HIDE DEF R, K
  <2>4. K <= R
    BY <2>1, <2>3
  <2> QED
    BY <2>1, <2>2, <2>4
<1>1. ~is_virt_region_used(s, R, n)
  <2>1. \A p \in R..(R + n - 1) : p \in (R + 0)..(K_MEM_DEV_START - 1)
    BY <1>0
  <2>2. \A p \in R..(R + n - 1) : s.pt[p] = Absent
    BY <2>1 DEF Gap
  <2> QED
    BY <1>0, <2>2, FreeIsFree
<1>2. R \in K..(Dirs * TableSize - n)
  BY <1>0
<1>3. ASSUME NEW y \in found, y < R PROVE FALSE
  <2>1. y \in K..(R - 1) /\ y \in K..(GapStart - 1)
    BY <1>0, <1>3
  <2>2. y \in Pages /\ s.pt[y] # Absent
    BY <2>1, GapFacts DEF Layout
  <2>3. is_virt_region_used(s, y, n)
    BY <2>2, UsedIsUsed DEF Layout
  <2> QED
    BY <2>3
<1>4. R \in found /\ found \subseteq Nat
  BY <1>0, <1>1, <1>2
<1>5. \A y \in found : R <= y
  BY <1>0, <1>3, <1>4
<1>6. FreeRegion(s, K, n) = IF found = {} THEN NULL ELSE Min(found)
  BY DEF FreeRegion
<1> HIDE DEF found, R
<1>7. found # {} /\ Min(found) = R
  BY <1>4, <1>5, MinIs
<1> QED
  BY <1>6, <1>7 DEF R

\* One iteration maps the next page of the gap.
LEMMA GapStep ==
    ASSUME BoundsOK, NEW s, TablesGood(s), NEW k \in Nat, Gap(s, k),
           GapStart + k < K_MEM_DEV_START, NEW frame \in Frames, NEW fresh
    PROVE  LET t == MapPage(s, GapStart + k, frame, fresh)
           IN  TablesGood(t) /\ Gap(t, k + 1) /\ Keeps(s, t)
<1> DEFINE R == GapStart
           page == R + k
           t == MapPage(s, page, frame, fresh)
<1>0. /\ R \in Nat /\ Aligned(R) /\ K_MEM_DEV_START \in Nat /\ page \in Pages /\ page \in Nat
      /\ page < K_MEM_DEV_START /\ \A p \in R..K_MEM_DEV_START : p \in Pages
  <2>1. R \in Nat /\ Aligned(R) /\ K_MEM_DEV_START \in Nat
    BY GapFacts, LayoutFacts
  <2>2. page \in GapStart..K_MEM_DEV_START /\ page < K_MEM_DEV_START
    BY <2>1
  <2> QED
    BY <2>1, <2>2, GapPages
<1>1. /\ \A p \in R..(page - 1) : s.pt[p] # Absent
      /\ \A p \in page..(K_MEM_DEV_START - 1) : s.pt[p] = Absent
  BY <1>0 DEF Gap
<1>2. page \in page..(K_MEM_DEV_START - 1) /\ s.pt[page] = Absent
  BY <1>0, <1>1
<1>3. ASSUME s.pd[DirOf(page)] = Absent, ~Aligned(page) PROVE FALSE
  <2>1. page - 1 \in Nat /\ DirOf(page - 1) = DirOf(page)
    BY <1>0, <1>3, PageBefore
  <2>2. k # 0
    <3>1. R + 0 = R
      BY <1>0
    <3> QED
      BY <1>0, <1>3, <3>1
  <2>3. page - 1 \in R..(page - 1) /\ page - 1 \in R..K_MEM_DEV_START
    BY <1>0, <2>2
  <2>4. page - 1 \in Pages /\ s.pt[page - 1] # Absent
    BY <1>0, <1>1, <2>3
  <2> QED
    BY <1>3, <2>1, <2>4 DEF TablesGood, Layout, AbsentTables
<1> HIDE DEF R, page
<1>4. TablesGood(t) /\ Keeps(s, t) /\ MapEffect(s, t, page, frame)
  BY <1>0, <1>2, <1>3, MapGood
<1>5. t.pt[page] = frame /\ \A p \in Pages : p # page => t.pt[p] = s.pt[p]
  <2> HIDE DEF t
  <2>1. s \in State
    BY DEF TablesGood
  <2> QED
    BY <1>0, <1>4, <2>1, MapPages1
<1> HIDE DEF t
<1>6. page = R + k /\ R + (k + 1) = page + 1 /\ R + (k + 1) - 1 = page
  BY <1>0 DEF page
<1>7. frame # Absent
  BY FramesFacts
<1>8. ASSUME NEW p \in R..page PROVE t.pt[p] # Absent
  <2>1. p \in Pages /\ (p = page \/ p \in R..(page - 1))
    BY <1>0, <1>6
  <2> QED
    BY <1>1, <1>5, <1>7, <2>1
<1>9. ASSUME NEW p \in (page + 1)..(K_MEM_DEV_START - 1) PROVE t.pt[p] = Absent
  <2>1. p \in Pages /\ p # page /\ p \in page..(K_MEM_DEV_START - 1)
    BY <1>0, <1>6
  <2> QED
    BY <1>1, <1>5, <2>1
<1>10. Gap(t, k + 1)
  BY <1>6, <1>8, <1>9 DEF Gap, R
<1> QED
  BY <1>4, <1>10 DEF t, page, R

\* The loop maps n pages of the gap.
LEMMA GapGood ==
    ASSUME BoundsOK, NEW s, TablesGood(s), Gap(s, 0), NEW n \in Nat,
           GapStart + n <= K_MEM_DEV_START, NEW frame \in Nat, frame + n <= PhysFrames, NEW fresh
    PROVE  LET t == MapPages(s, GapStart, n, frame, fresh)
           IN  TablesGood(t) /\ Gap(t, n) /\ Keeps(s, t)
<1>0. GapStart \in Nat /\ K_MEM_DEV_START \in Nat /\ PhysFrames \in Nat
  BY GapFacts, LayoutFacts, SizesAssumption
<1>1. PICK f : MapLoop(f, s, GapStart, n, frame, fresh)
  BY MapRun
<1>2. /\ f[0] = s /\ f[n] = MapPages(s, GapStart, n, frame, fresh)
      /\ \A k \in 1..n : f[k] = MapPage(f[k - 1], GapStart + k - 1, frame + k - 1, fresh)
  BY <1>1 DEF MapLoop
<1> DEFINE Good(k) == TablesGood(f[k]) /\ Gap(f[k], k) /\ Keeps(s, f[k])
           T == {k \in 0..n : ~Good(k)}
<1>3. Good(0)
  BY <1>2, KeepsSame
<1>4. ASSUME NEW k \in 1..n, Good(k - 1) PROVE Good(k)
  <2>1. /\ k - 1 \in Nat /\ GapStart + (k - 1) < K_MEM_DEV_START
        /\ GapStart + k - 1 = GapStart + (k - 1) /\ (k - 1) + 1 = k
    BY <1>0
  <2>2. frame + k - 1 \in Frames
    BY <1>0 DEF Frames
  <2>3. f[k] = MapPage(f[k - 1], GapStart + (k - 1), frame + k - 1, fresh)
    BY <1>2, <2>1
  <2>4. TablesGood(f[k - 1]) /\ Gap(f[k - 1], k - 1) /\ Keeps(s, f[k - 1])
    BY <1>4
  <2>5. TablesGood(f[k]) /\ Gap(f[k], (k - 1) + 1) /\ Keeps(f[k - 1], f[k])
    BY <2>1, <2>2, <2>3, <2>4, GapStep
  <2>6. Keeps(s, f[k])
    BY <2>4, <2>5, KeepsTransitive
  <2> QED
    BY <2>1, <2>5, <2>6
<1> HIDE DEF Good
<1>5. T = {}
  <2> SUFFICES ASSUME T # {} PROVE FALSE
    OBVIOUS
  <2>0. T \subseteq Nat
    OBVIOUS
  <2>1. PICK k \in T : \A y \in T : k <= y
    BY <2>0, LeastNat
  <2>2. k \in 1..n /\ k - 1 \in 0..n
    BY <1>3
  <2>3. Good(k - 1)
    BY <2>1, <2>2
  <2> QED
    BY <1>4, <2>2, <2>3
<1>6. Good(n)
  BY <1>5
<1> QED
  BY <1>2, <1>6 DEF Good
-----------------------------------------------------------------------------
(***************************************************************************)
(* The inductive invariant.                                                *)
(***************************************************************************)
Booting == {"mem_init", "tty_init", "tags", "ramdisk", "panic"}

\* Before the screen is mapped there is no table but the kernel's, and the
\* kernel's frames are the only ones in use.
Untouched(marked) ==
    /\ mem.used = marked /\ mem.handed = {}
    /\ lower_bound = OneMeg /\ upper_bound = ProtEnd
    /\ \A d \in Others : mem.pd[d] = Absent

\* Until the RAM disk is mapped the heap is empty and the gap free.
BootInv ==
    /\ pc = "mem_init" => Untouched({})
    /\ pc = "tty_init" => Untouched(KernelFrames)
    /\ pc \in Booting => /\ heap_end = K_MEM_HEAP_START /\ lastAlloc = NoAlloc
                         /\ ~mem.faulted /\ Gap(mem, 0)
    /\ "module" \in got => rd \in Ramdisks

\* Behind the heap all is free, or the RAM disk is in the way.
HeapInv ==
    /\ OwnedPages(mem, heap_end)
    /\ pc \notin Booting => /\ Mapped(mem, heap_end)
                            /\ FreeAbove(mem, heap_end) \/ mem.pt[heap_end] # Absent
    /\ lastAlloc.ret # NULL =>
           \A p \in lastAlloc.start..(lastAlloc.start + lastAlloc.n - 1) :
               p \in K_MEM_HEAP_START..(heap_end - 1)

TypeInv ==
    /\ mem \in State /\ BoundsOK
    /\ pc \in Booting \cup {"running", "null"}
    /\ heap_end \in K_MEM_HEAP_START..K_MEM_HEAP_END

IInv ==
    /\ TypeInv
    /\ Layout(mem) /\ FaultInv(mem) /\ (pc # "mem_init" => OwnedTables(mem))
    /\ BootInv /\ HeapInv
    /\ reserved \subseteq mem.used

\* The state that each branch of Init describes is one.
LEMMA InitGood == Init => IInv
<1> SUFFICES ASSUME Init PROVE IInv
  OBVIOUS
<1> DEFINE K == K_MEM_START
           d == DirOf(K)
           pd0 == [e \in 0..(Dirs - 1) |-> IF e = d THEN Min(KernelFrames) ELSE Absent]
           pt0 == [p \in Pages |-> IF DirOf(p) = d THEN p - K ELSE Absent]
<1>1. /\ mem = [used |-> {}, handed |-> {}, faulted |-> FALSE, pd |-> pd0, pt |-> pt0]
      /\ lower_bound = OneMeg /\ upper_bound = ProtEnd /\ pc = "mem_init" /\ got = {}
      /\ heap_end = K_MEM_HEAP_START /\ reserved = {} /\ lastAlloc = NoAlloc
  BY DEF Init
<1>2. Min(KernelFrames) \in Frames
  <2>1. KernelFrames # {} /\ KernelFrames \subseteq Frames /\ KernelFrames \subseteq Nat
    BY SizesAssumption, MachineAssumption DEF Frames
  <2> QED
    BY <2>1, MinNat
<1>3. ASSUME NEW p \in Pages, DirOf(p) = d PROVE p - K \in Frames
  <2>1. p \in Nat /\ K \in Nat /\ Aligned(K) /\ TableSize \in Nat /\ PhysFrames \in Nat
        /\ TableSize <= PhysFrames
    BY DirInRange, LayoutFacts, SizesAssumption, MachineAssumption
  <2>2. K <= p /\ p < K + TableSize
    BY <1>3, <2>1, AlignedTable
  <2> HIDE DEF K
  <2> QED
    BY <2>1, <2>2 DEF Frames
<1>4. pd0 \in [0..(Dirs - 1) -> Entries] /\ pt0 \in [Pages -> Entries]
  BY <1>2, <1>3, FramesFacts
<1>5. d \in 0..(Dirs - 1)
  BY LayoutFacts, DirInRange
<1>6. \A p \in Pages : /\ DirOf(p) \in 0..(Dirs - 1)
                       /\ DirOf(p) = d => pt0[p] \in Frames /\ pd0[DirOf(p)] \in Frames
                       /\ DirOf(p) # d => pt0[p] = Absent
  BY <1>2, <1>3, DirInRange
<1>7. \A e \in Others : pd0[e] = Absent
  BY DEF Others
<1>8. \A p \in GapStart..(K_MEM_DEV_START - 1) : p \in Pages /\ DirOf(p) # d
  <2>1. /\ GapStart \in Nat /\ K_MEM_DEV_START \in Nat /\ K \in Nat /\ Aligned(K)
        /\ GapStart = K + TableSize /\ TableSize \in Nat
    BY GapFacts, LayoutFacts, SizesAssumption DEF GapStart
  <2>2. \A p \in GapStart..(K_MEM_DEV_START - 1) :
            p \in GapStart..K_MEM_DEV_START /\ p \in Nat /\ ~(p < K + TableSize)
    BY <2>1
  <2> QED
    BY <2>1, <2>2, GapPages, AlignedTable
<1> HIDE DEF d, pd0, pt0
<1>9. mem \in State /\ mem.pt = pt0 /\ mem.pd = pd0
  BY <1>1, <1>4 DEF State
<1>10. Absent \notin Frames /\ Junk \notin Frames /\ Absent # Junk
  BY FramesFacts
<1>11. Layout(mem)
  BY <1>6, <1>9, <1>10 DEF Layout, AbsentTables, d
<1>12. FaultInv(mem) /\ ~mem.faulted
  BY <1>1 DEF FaultInv
<1>13. BoundsOK /\ heap_end \in K_MEM_HEAP_START..K_MEM_HEAP_END /\ heap_end \in Nat
  BY <1>1, SizesAssumption, LayoutFacts DEF BoundsOK
<1>14. Untouched({})
  BY <1>1, <1>7, <1>9 DEF Untouched
<1>15. Gap(mem, 0)
  <2>1. /\ GapStart + 0 = GapStart
        /\ \A p \in GapStart..(GapStart + 0 - 1) : FALSE
    BY GapFacts
  <2> QED
    BY <1>6, <1>8, <1>9, <2>1 DEF Gap
<1>16. BootInv
  BY <1>1, <1>12, <1>14, <1>15 DEF BootInv
<1>17. HeapInv
  <2>1. \A p \in K_MEM_HEAP_START..(heap_end - 1) : FALSE
    BY <1>1, <1>13
  <2>2. OwnedPages(mem, heap_end)
    BY <2>1 DEF OwnedPages
  <2>3. pc \in Booting /\ lastAlloc.ret = NULL
    BY <1>1 DEF Booting, NoAlloc
  <2> QED
    BY <2>2, <2>3 DEF HeapInv
<1> QED
  BY <1>1, <1>9, <1>11, <1>12, <1>13, <1>16, <1>17 DEF IInv, TypeInv, Booting

\* Marking frames touches no table.
LEMMA MarkGood ==
    ASSUME NEW s \in State, NEW X, X \subseteq Frames, NEW t, t = set_phys_used(s, X)
    PROVE  /\ t \in State /\ t.used = s.used \cup X /\ t.handed = s.handed
           /\ t.faulted = s.faulted /\ t.pd = s.pd /\ t.pt = s.pt
           /\ Layout(s) => Layout(t)
           /\ OwnedTables(s) => OwnedTables(t)
           /\ Gap(s, 0) => Gap(t, 0)
           /\ \A h : OwnedPages(s, h) => OwnedPages(t, h)
<1>1. /\ t \in State /\ t.used = s.used \cup X /\ t.handed = s.handed
      /\ t.faulted = s.faulted /\ t.pd = s.pd /\ t.pt = s.pt
  BY DEF set_phys_used, State
<1>2. Layout(s) => Layout(t)
  BY <1>1 DEF Layout, AbsentTables
<1>3. OwnedTables(s) => OwnedTables(t)
  BY <1>1 DEF OwnedTables
<1>4. Gap(s, 0) => Gap(t, 0)
  BY <1>1 DEF Gap
<1>5. \A h : OwnedPages(s, h) => OwnedPages(t, h)
  BY <1>1 DEF OwnedPages
<1> QED
  BY <1>1, <1>2, <1>3, <1>4, <1>5

\* mem_init marks the kernel's frames, and there are no others.
LEMMA MemInitKeeps == IInv /\ MemInit => IInv'
<1> SUFFICES ASSUME IInv, MemInit PROVE IInv'
  OBVIOUS
<1> USE DEF Booting
<1>1. /\ pc = "mem_init" /\ mem' = set_phys_used(mem, KernelFrames) /\ pc' = "tty_init"
      /\ lower_bound' = lower_bound /\ upper_bound' = upper_bound /\ tags' = tags /\ got' = got
      /\ rd' = rd /\ heap_end' = heap_end /\ reserved' = reserved /\ lastAlloc' = lastAlloc
  BY DEF MemInit, mem_init
<1>2. /\ mem \in State /\ BoundsOK /\ heap_end \in K_MEM_HEAP_START..K_MEM_HEAP_END
      /\ Layout(mem) /\ reserved \subseteq mem.used /\ OwnedPages(mem, heap_end)
      /\ heap_end = K_MEM_HEAP_START /\ lastAlloc = NoAlloc /\ ~mem.faulted /\ Gap(mem, 0)
      /\ Untouched({}) /\ ("module" \in got => rd \in Ramdisks)
  BY <1>1 DEF IInv, TypeInv, BootInv, HeapInv
<1>3. KernelFrames \subseteq Frames
  BY SizesAssumption DEF Frames
<1>4. /\ mem' \in State /\ mem'.used = mem.used \cup KernelFrames /\ mem'.handed = mem.handed
      /\ mem'.faulted = mem.faulted /\ mem'.pd = mem.pd /\ mem'.pt = mem.pt
      /\ Layout(mem') /\ Gap(mem', 0) /\ OwnedPages(mem', heap_end)
  BY <1>1, <1>2, <1>3, MarkGood
<1>5. mem'.used = KernelFrames /\ mem'.handed = {} /\ (\A d \in Others : mem'.pd[d] = Absent)
      /\ lower_bound' = OneMeg /\ upper_bound' = ProtEnd
  BY <1>1, <1>2, <1>4 DEF Untouched
<1>6. Untouched(KernelFrames)'
  BY <1>5 DEF Untouched
<1>7. OwnedTables(mem')
  BY <1>5, FramesFacts DEF OwnedTables
<1>8. BootInv'
  BY <1>1, <1>2, <1>4, <1>6 DEF BootInv
<1>9. HeapInv'
  BY <1>1, <1>2, <1>4 DEF HeapInv, NoAlloc
<1>10. FaultInv(mem)'
  BY <1>2, <1>4 DEF FaultInv
<1>11. TypeInv'
  BY <1>1, <1>2, <1>4 DEF TypeInv, BoundsOK
<1> QED
  BY <1>1, <1>2, <1>4, <1>7, <1>8, <1>9, <1>10, <1>11 DEF IInv

\* tty_init has a frame for the devices' page table.
LEMMA TtyInitKeeps == IInv /\ tty_init => IInv' /\ Keeps(mem, mem')
<1> SUFFICES ASSUME IInv, tty_init PROVE IInv' /\ Keeps(mem, mem')
  OBVIOUS
<1> USE DEF Booting
<1> DEFINE D == K_MEM_DEV_START
<1>1. /\ pc = "tty_init" /\ pc' = "tags"
      /\ lower_bound' = lower_bound /\ upper_bound' = upper_bound /\ tags' = tags /\ got' = got
      /\ rd' = rd /\ heap_end' = heap_end /\ reserved' = reserved /\ lastAlloc' = lastAlloc
  BY DEF tty_init
<1>2. PICK fresh \in {Absent, Junk} : mem' = mem_map(mem, D, 1, VgaFrame, fresh).state
  BY DEF tty_init
<1>3. /\ mem \in State /\ BoundsOK /\ heap_end \in K_MEM_HEAP_START..K_MEM_HEAP_END
      /\ TablesGood(mem) /\ Layout(mem) /\ reserved \subseteq mem.used /\ OwnedPages(mem, heap_end)
      /\ heap_end = K_MEM_HEAP_START /\ lastAlloc = NoAlloc /\ ~mem.faulted /\ Gap(mem, 0)
      /\ Untouched(KernelFrames) /\ ("module" \in got => rd \in Ramdisks)
  BY <1>1 DEF IInv, TypeInv, BootInv, HeapInv, TablesGood
<1>4. VgaFrame \in Frames /\ D \in Pages /\ D \in Nat /\ Aligned(D)
  BY MachineAssumption, LayoutFacts
<1>5. DirOf(D) \in Others
  <2>1. /\ K_MEM_START \in Nat /\ Aligned(K_MEM_START) /\ TableSize \in Nat
        /\ GapStart = K_MEM_START + TableSize /\ GapStart <= K_MEM_HEAP_START
        /\ K_MEM_HEAP_START \in Nat /\ K_MEM_HEAP_START <= K_MEM_HEAP_END
        /\ K_MEM_HEAP_END \in Nat /\ K_MEM_HEAP_END < D
    BY LayoutFacts, GapFacts, SizesAssumption DEF GapStart
  <2>2. ~(D < K_MEM_START + TableSize)
    BY <1>4, <2>1
  <2>3. DirOf(D) # DirOf(K_MEM_START)
    BY <1>4, <2>1, <2>2, AlignedTable
  <2> QED
    BY <1>4, <2>3, DirInRange DEF Others
<1>6. mem.pd[DirOf(D)] = Absent /\ mem.pt[D] = Absent
  BY <1>3, <1>4, <1>5 DEF Untouched, Layout, AbsentTables
<1>7. mem' = MapPage(mem, D, VgaFrame, fresh)
  BY <1>2, <1>4, <1>6, MapOne
<1>8. TablesGood(mem') /\ Keeps(mem, mem') /\ MapEffect(mem, mem', D, VgaFrame)
  BY <1>3, <1>4, <1>6, <1>7, MapGood
<1>9. FreeFrames(mem) # {}
  <2>1. FreeFrames(mem) = OneMeg..(ProtEnd - 1) \ KernelFrames
    BY <1>3 DEF FreeFrames, Untouched
  <2> QED
    BY <2>1, SizesAssumption, MachineAssumption
<1>10. ~mem'.faulted
  <2>1. mem'.faulted => mem.faulted \/ FreeFrames(mem) = {}
    BY <1>3, <1>4, <1>8, MapTables
  <2> QED
    BY <1>3, <1>9, <2>1
<1>11. \A p \in Pages : p # D => mem'.pt[p] = mem.pt[p]
  <2>1. mem'.pt = [mem.pt EXCEPT ![D] = VgaFrame] /\ mem.pt \in [Pages -> Entries]
    BY <1>3, <1>8 DEF MapEffect, State
  <2> QED
    BY <1>4, <2>1
<1>12. Gap(mem', 0)
  <2>1. GapStart \in Nat /\ GapStart + 0 = GapStart
    BY GapFacts
  <2>2. \A p \in GapStart..(D - 1) : p \in GapStart..D /\ p # D
    BY <1>4, <2>1
  <2>3. \A p \in GapStart..(D - 1) : p \in Pages /\ p # D
    BY <2>2, GapPages
  <2>4. \A p \in GapStart..(GapStart + 0 - 1) : FALSE
    BY <2>1
  <2> QED
    BY <1>3, <1>11, <2>1, <2>3, <2>4 DEF Gap
<1>13. OwnedPages(mem', heap_end)
  <2>1. \A p \in K_MEM_HEAP_START..(heap_end - 1) : FALSE
    BY <1>3, LayoutFacts
  <2> QED
    BY <2>1 DEF OwnedPages
<1>14. BootInv'
  BY <1>1, <1>3, <1>10, <1>12 DEF BootInv
<1>15. HeapInv'
  BY <1>1, <1>3, <1>13 DEF HeapInv, NoAlloc
<1>16. FaultInv(mem)'
  BY <1>10 DEF FaultInv
<1>17. TypeInv'
  BY <1>1, <1>3, <1>8 DEF TypeInv, BoundsOK, TablesGood
<1>18. reserved' \subseteq mem'.used
  BY <1>1, <1>3, <1>8 DEF Keeps
<1>19. Layout(mem') /\ OwnedTables(mem')
  BY <1>8 DEF TablesGood
<1> QED
  BY <1>1, <1>8, <1>14, <1>15, <1>16, <1>17, <1>18, <1>19 DEF IInv

\* Reading the tags marks frames, and may move the bounds.
LEMMA TagsKeep ==
    ASSUME IInv, pc = "tags", pc' \in {"tags", "ramdisk", "panic"},
           NEW X, X \subseteq Frames, mem' = set_phys_used(mem, X), BoundsOK',
           reserved' \subseteq reserved \cup X, "module" \in got' => rd' \in Ramdisks,
           heap_end' = heap_end, lastAlloc' = lastAlloc
    PROVE  IInv'
<1> USE DEF Booting
<1>1. /\ mem \in State /\ heap_end \in K_MEM_HEAP_START..K_MEM_HEAP_END
      /\ Layout(mem) /\ OwnedTables(mem) /\ reserved \subseteq mem.used
      /\ OwnedPages(mem, heap_end)
      /\ heap_end = K_MEM_HEAP_START /\ lastAlloc = NoAlloc /\ ~mem.faulted /\ Gap(mem, 0)
  BY DEF IInv, TypeInv, BootInv, HeapInv
<1>2. /\ mem' \in State /\ mem'.used = mem.used \cup X /\ mem'.faulted = mem.faulted
      /\ Layout(mem') /\ Gap(mem', 0) /\ OwnedPages(mem', heap_end) /\ OwnedTables(mem')
  BY <1>1, MarkGood
<1>3. BootInv'
  BY <1>1, <1>2 DEF BootInv
<1>4. HeapInv'
  BY <1>1, <1>2 DEF HeapInv, NoAlloc
<1>5. FaultInv(mem)'
  BY <1>1, <1>2 DEF FaultInv
<1>6. TypeInv'
  BY <1>1, <1>2 DEF TypeInv
<1>7. reserved' \subseteq mem'.used
  BY <1>1, <1>2
<1> QED
  BY <1>2, <1>3, <1>4, <1>5, <1>6, <1>7 DEF IInv

\* Marking nothing changes nothing.
LEMMA MarkNothing == \A s \in State : s = set_phys_used(s, {})
  BY DEF set_phys_used, State

\* The tags.
LEMMA TagSteps ==
    IInv /\ (TagMeminfo \/ TagMmapRegion \/ TagMmapEnd \/ TagModule \/ TagsDone) => IInv'
<1> SUFFICES ASSUME IInv PROVE TagMeminfo \/ TagMmapRegion \/ TagMmapEnd \/ TagModule \/ TagsDone
                               => IInv'
  OBVIOUS
<1>0. BoundsOK /\ mem \in State /\ (pc \in Booting /\ "module" \in got => rd \in Ramdisks)
      /\ ("module" \in got => rd \in Ramdisks) /\ mem = set_phys_used(mem, {})
  BY MarkNothing DEF IInv, TypeInv, BootInv
<1>1. ASSUME TagMeminfo PROVE IInv'
  <2>1. PICK lower \in LowerSizes, upper \in UpperSizes :
            /\ mem' = set_phys_used(mem, lower..(OneMeg - 1))
            /\ upper_bound' = OneMeg + upper /\ lower_bound' = 0
            /\ reserved' = reserved \cup (lower..(OneMeg - 1))
    BY <1>1 DEF TagMeminfo, mem_init_regions
  <2>2. /\ pc = "tags" /\ pc' = pc /\ got' = got \cup {"meminfo"} /\ rd' = rd
        /\ heap_end' = heap_end /\ lastAlloc' = lastAlloc
    BY <1>1 DEF TagMeminfo, Got
  <2>3. lower \in Nat /\ upper \in 0..(PhysFrames - OneMeg)
    BY MachineAssumption
  <2>4. lower..(OneMeg - 1) \subseteq Frames /\ BoundsOK'
    BY <2>1, <2>3, SizesAssumption DEF Frames, BoundsOK
  <2>5. "module" \in got' => rd' \in Ramdisks
    BY <1>0, <2>2
  <2> QED
    BY <2>1, <2>2, <2>4, <2>5, TagsKeep
<1>2. ASSUME TagMmapRegion PROVE IInv'
  <2>1. PICK region \in Reserved :
            /\ mem' = mem_set_used(mem, region[1], region[2])
            /\ reserved' = reserved \cup RegionFrames(region[1], region[2])
    BY <1>2 DEF TagMmapRegion
  <2> DEFINE X == RegionFrames(region[1], region[2])
  <2>2. /\ pc = "tags" /\ pc' = pc /\ got' = got /\ rd' = rd /\ lower_bound' = lower_bound
        /\ upper_bound' = upper_bound /\ heap_end' = heap_end /\ lastAlloc' = lastAlloc
    BY <1>2 DEF TagMmapRegion
  <2>3. X \subseteq Frames
    <3>1. PICK a \in Nat, b \in Nat : a = region[1] /\ b = region[2]
      BY MachineAssumption
    <3>2. CASE a >= PhysFrames
      BY <3>1, <3>2 DEF RegionFrames
    <3>3. CASE ~(a >= PhysFrames)
      <4>1. a + b \in Nat /\ PhysFrames \in Nat
        BY <3>1, SizesAssumption
      <4>2. Min({a + b, PhysFrames}) \in Nat /\ Min({a + b, PhysFrames}) <= PhysFrames
        BY <4>1, MinNat
      <4>3. X = {a} \cup a..(Min({a + b, PhysFrames}) - 1)
        BY <3>1, <3>3 DEF RegionFrames
      <4> HIDE DEF X
      <4> QED
        BY <3>1, <3>3, <4>1, <4>2, <4>3 DEF Frames
    <3> QED
      BY <3>2, <3>3
  <2>4. mem' = set_phys_used(mem, X) /\ reserved' = reserved \cup X
    BY <2>1 DEF mem_set_used
  <2> HIDE DEF X
  <2>5. BoundsOK' /\ ("module" \in got' => rd' \in Ramdisks)
    BY <1>0, <2>2 DEF BoundsOK
  <2> QED
    BY <2>2, <2>3, <2>4, <2>5, TagsKeep
<1>3. ASSUME TagMmapEnd \/ TagModule \/ TagsDone PROVE IInv'
  <2>1. /\ pc = "tags" /\ pc' \in {"tags", "ramdisk", "panic"} /\ mem' = mem
        /\ lower_bound' = lower_bound /\ upper_bound' = upper_bound
        /\ heap_end' = heap_end /\ lastAlloc' = lastAlloc /\ reserved' = reserved
    BY <1>3 DEF TagMmapEnd, TagModule, TagsDone, memVars
  <2>2. "module" \in got' => rd' \in Ramdisks
    BY <1>0, <1>3 DEF TagMmapEnd, TagModule, TagsDone, Got
  <2>3. BoundsOK' /\ mem' = set_phys_used(mem, {}) /\ {} \subseteq Frames
    BY <1>0, <2>1 DEF BoundsOK
  <2> QED
    BY <2>1, <2>2, <2>3, TagsKeep
<1> QED
  BY <1>1, <1>2, <1>3

\* Mapping the RAM disk ends with a good state, whatever its size.
LEMMA RamdiskGood ==
    ASSUME BoundsOK, NEW s, TablesGood(s), Gap(s, 0), NEW disk \in Ramdisks, NEW fresh
    PROVE  LET t == mem_map_range(s, K_MEM_START, disk[1], disk[2], fresh).state
           IN  TablesGood(t) /\ Keeps(s, t) /\ \E n \in Nat : Gap(t, n)
<1>1. PICK a \in Nat, b \in Nat : a = disk[1] /\ b = disk[2]
  BY RamdisksAssumption
<1> DEFINE n == (b - a + PageUnits - 1) \div PageUnits
           frame == a \div PageUnits
           t == mem_map_range(s, K_MEM_START, disk[1], disk[2], fresh).state
<1>2. /\ a <= b /\ b <= PhysFrames * 2 /\ PhysFrames \in Nat
      /\ n <= K_MEM_DEV_START - GapStart
  BY <1>1, RamdisksAssumption, SizesAssumption DEF PageUnits, GapStart
<1>3. n \in Nat /\ frame \in Nat /\ frame + n <= PhysFrames
  <2>1. n = (b - a + 1) \div 2 /\ frame = a \div 2
    BY DEF PageUnits
  <2> QED
    BY <1>2, <2>1
<1>4. GapStart + n <= K_MEM_DEV_START /\ GapStart \in Nat /\ K_MEM_DEV_START \in Nat
  <2>1. GapStart \in Nat /\ K_MEM_DEV_START \in Nat
    BY GapFacts, LayoutFacts
  <2> HIDE DEF n
  <2> QED
    BY <1>2, <1>3, <2>1
<1>5. t = mem_map(s, K_MEM_START, n, frame, fresh).state
  <2>1. ~(b < a)
    BY <1>1, <1>2
  <2> QED
    BY <1>1, <2>1 DEF mem_map_range
<1> HIDE DEF n, frame, t
<1>6. frame # NoFrame
  BY <1>3 DEF NoFrame
<1>7. CASE n = 0
  <2> DEFINE found == {start \in K_MEM_START..(Dirs * TableSize - 0) : ~is_virt_region_used(s, start, 0)}
             first == FreeRegion(s, K_MEM_START, 0)
  <2>1. K_MEM_START \in Nat /\ First(Dirs) \in Nat /\ K_MEM_START < First(Dirs)
        /\ Dirs * TableSize = First(Dirs)
    BY PagesInterval, LayoutFacts
  <2>2. ~is_virt_region_used(s, K_MEM_START, 0)
    <3>1. \A p \in K_MEM_START..(K_MEM_START + 0 - 1) : s.pt[p] = Absent
      BY <2>1
    <3> QED
      BY <2>1, <3>1, FreeIsFree
  <2>3. K_MEM_START \in found /\ found \subseteq Nat
    BY <2>1, <2>2
  <2>4. first = IF found = {} THEN NULL ELSE Min(found)
    BY DEF FreeRegion
  <2> HIDE DEF found, first
  <2>5. first \in Nat
    BY <2>3, <2>4, MinNat
  <2>6. first # NULL
    BY <2>5 DEF NULL
  <2>7. t = MapPages(s, first, 0, frame, fresh)
    BY <1>5, <1>6, <1>7, <2>6 DEF mem_map, first
  <2>8. PICK f : MapLoop(f, s, first, 0, frame, fresh)
    BY MapRun
  <2>9. t = s
    BY <2>7, <2>8 DEF MapLoop
  <2>10. TablesGood(t) /\ Keeps(s, t) /\ Gap(t, 0)
    BY <2>9, KeepsSame
  <2> QED
    BY <2>10 DEF t
<1>8. CASE n # 0
  <2>1. FreeRegion(s, K_MEM_START, n) = GapStart /\ GapStart # NULL
    BY <1>3, <1>4, <1>8, FreeRegionGap DEF TablesGood, NULL
  <2>2. t = MapPages(s, GapStart, n, frame, fresh)
    BY <1>5, <1>6, <2>1 DEF mem_map
  <2>3. TablesGood(t) /\ Gap(t, n) /\ Keeps(s, t)
    BY <1>3, <1>4, <2>2, GapGood
  <2> QED
    BY <1>3, <2>3 DEF t
<1> QED
  BY <1>7, <1>8

\* What is left of the gap: the heap's region is free, or its first page is
\* not.
LEMMA GapToHeap ==
    ASSUME NEW s, NEW n \in Nat, Gap(s, n)
    PROVE  FreeAbove(s, K_MEM_HEAP_START) \/ s.pt[K_MEM_HEAP_START] # Absent
<1> DEFINE L == K_MEM_HEAP_START
           M == K_MEM_HEAP_END
           R == GapStart
           D == K_MEM_DEV_START
<1>0. /\ L \in Nat /\ M \in Nat /\ R \in Nat /\ D \in Nat
      /\ R <= L /\ L <= M /\ M < D
  BY LayoutFacts, GapFacts
<1>1. /\ \A p \in R..(R + n - 1) : s.pt[p] # Absent
      /\ \A p \in (R + n)..(D - 1) : s.pt[p] = Absent
  BY <1>0 DEF Gap
<1> HIDE DEF L, M, R, D
<1>2. CASE L < R + n
  <2>1. L \in R..(R + n - 1)
    BY <1>0, <1>2
  <2> QED
    BY <1>1, <2>1 DEF L
<1>3. CASE ~(L < R + n)
  <2>1. \A p \in L..(M - 1) : p \in (R + n)..(D - 1)
    BY <1>0, <1>3
  <2>2. \A p \in L..(M - 1) : s.pt[p] = Absent
    BY <1>1, <2>1
  <2> QED
    BY <2>2 DEF FreeAbove, L, M
<1> QED
  BY <1>2, <1>3

\* The heap is ready once the RAM disk is mapped.
LEMMA MapRamdiskKeeps == IInv /\ MapRamdisk => IInv' /\ Keeps(mem, mem')
<1> SUFFICES ASSUME IInv, MapRamdisk PROVE IInv' /\ Keeps(mem, mem')
  OBVIOUS
<1> USE DEF Booting
<1>1. /\ pc = "ramdisk" /\ pc' = "running"
      /\ lower_bound' = lower_bound /\ upper_bound' = upper_bound /\ tags' = tags /\ got' = got
      /\ rd' = rd /\ heap_end' = heap_end /\ reserved' = reserved /\ lastAlloc' = lastAlloc
  BY DEF MapRamdisk
<1>2. /\ mem \in State /\ BoundsOK /\ heap_end \in K_MEM_HEAP_START..K_MEM_HEAP_END
      /\ TablesGood(mem) /\ reserved \subseteq mem.used
      /\ heap_end = K_MEM_HEAP_START /\ lastAlloc = NoAlloc /\ Gap(mem, 0)
      /\ ("module" \in got => rd \in Ramdisks)
  BY <1>1 DEF IInv, TypeInv, BootInv, TablesGood
<1>3. TablesGood(mem') /\ Keeps(mem, mem') /\ \E n \in Nat : Gap(mem', n)
  <2>1. CASE "module" \notin got
    <3>1. mem' = mem
      BY <2>1 DEF MapRamdisk
    <3> QED
      BY <1>2, <3>1, KeepsSame
  <2>2. CASE "module" \in got
    <3>1. PICK fresh \in {Absent, Junk} :
              mem' = mem_map_range(mem, K_MEM_START, rd[1], rd[2], fresh).state
      BY <2>2 DEF MapRamdisk
    <3> QED
      BY <1>2, <2>2, <3>1, RamdiskGood
  <2> QED
    BY <2>1, <2>2
<1>4. FreeAbove(mem', K_MEM_HEAP_START) \/ mem'.pt[K_MEM_HEAP_START] # Absent
  BY <1>3, GapToHeap
<1>5. \A p \in K_MEM_HEAP_START..(K_MEM_HEAP_START - 1) : FALSE
  BY LayoutFacts
<1>6. HeapInv'
  <2>1. OwnedPages(mem', K_MEM_HEAP_START)
    BY <1>5 DEF OwnedPages
  <2>2. Mapped(mem, K_MEM_HEAP_START)'
    BY <1>5 DEF Mapped
  <2>3. heap_end' = K_MEM_HEAP_START /\ lastAlloc' = NoAlloc /\ NoAlloc.ret = NULL
    BY <1>1, <1>2 DEF NoAlloc
  <2> QED
    BY <1>4, <2>1, <2>2, <2>3 DEF HeapInv, Mapped
<1>7. BootInv'
  BY <1>1, <1>2 DEF BootInv
<1>8. FaultInv(mem)'
  BY <1>1, <1>3 DEF TablesGood, FaultInv, FreeFrames
<1>9. TypeInv'
  BY <1>1, <1>2, <1>3 DEF TypeInv, BoundsOK, TablesGood
<1>10. reserved' \subseteq mem'.used
  BY <1>1, <1>2, <1>3 DEF Keeps
<1>11. Layout(mem') /\ OwnedTables(mem')
  BY <1>3 DEF TablesGood
<1> QED
  BY <1>1, <1>3, <1>6, <1>7, <1>8, <1>9, <1>10, <1>11 DEF IInv

\* malloc extends the heap by pages of its own, or mem_alloc refuses.
LEMMA HeapGrowKeeps ==
    ASSUME IInv, NEW n \in 1..MaxGrow, HeapGrow(n)
    PROVE  IInv' /\ Keeps(mem, mem')
<1> USE DEF Booting
<1> DEFINE L == K_MEM_HEAP_START
           M == K_MEM_HEAP_END
<1>0. /\ n \in Nat /\ n # 0 /\ L \in Nat /\ M \in Nat /\ heap_end \in L..M /\ heap_end \in Nat
      /\ heap_end \in Pages
  <2>1. n \in Nat /\ n # 0 /\ L \in Nat /\ M \in Nat /\ heap_end \in L..M
        /\ M < K_MEM_DEV_START /\ K_MEM_DEV_START \in Nat /\ K_MEM_DEV_START \in Pages
    BY LayoutFacts, MachineAssumption DEF IInv, TypeInv
  <2>2. heap_end \in Int /\ 0 <= heap_end /\ heap_end <= K_MEM_DEV_START /\ heap_end \in Nat
    BY <2>1
  <2> QED
    BY <2>1, <2>2, PagesBelow
<1>1. PICK fresh \in {Absent, Junk} :
          LET alloc == mem_alloc(mem, heap_end, M, n, fresh)
          IN  /\ mem' = alloc.state
              /\ lastAlloc' = [start |-> heap_end, n |-> n, ret |-> alloc.ret]
              /\ IF alloc.ret = NULL THEN pc' = "null" /\ UNCHANGED heap_end
                                     ELSE pc' = pc /\ heap_end' = heap_end + n
  BY DEF HeapGrow
<1>2. /\ pc = "running" /\ lower_bound' = lower_bound /\ upper_bound' = upper_bound
      /\ got' = got /\ rd' = rd /\ reserved' = reserved
  BY DEF HeapGrow
<1>3. /\ mem \in State /\ BoundsOK /\ TablesGood(mem) /\ reserved \subseteq mem.used
      /\ OwnedPages(mem, heap_end) /\ Mapped(mem, heap_end)
      /\ FreeAbove(mem, heap_end) \/ mem.pt[heap_end] # Absent
      /\ ("module" \in got => rd \in Ramdisks)
  BY <1>2 DEF IInv, TypeInv, BootInv, HeapInv, TablesGood
<1> DEFINE refused == heap_end + n > M \/ is_virt_region_used(mem, heap_end, n)
<1>4. ASSUME refused PROVE IInv' /\ Keeps(mem, mem')
  <2>1. mem' = mem /\ pc' = "null" /\ heap_end' = heap_end /\ lastAlloc'.ret = NULL
    BY <1>1, <1>4 DEF mem_alloc
  <2>2. Keeps(mem, mem')
    BY <2>1, KeepsSame
  <2>3. FreeFrames(mem)' = FreeFrames(mem)
    BY <1>2, <2>1 DEF FreeFrames
  <2>4. HeapInv'
    BY <1>3, <2>1, <2>3 DEF HeapInv, Mapped
  <2>5. FaultInv(mem)' /\ Layout(mem') /\ OwnedTables(mem')
    BY <1>3, <2>1, <2>3 DEF TablesGood, FaultInv
  <2>6. BootInv'
    BY <1>2, <1>3, <2>1 DEF BootInv
  <2>7. TypeInv'
    BY <1>0, <1>2, <1>3, <2>1 DEF TypeInv, BoundsOK
  <2> QED
    BY <1>2, <1>3, <2>1, <2>2, <2>4, <2>5, <2>6, <2>7 DEF IInv
<1>5. ASSUME ~refused PROVE IInv' /\ Keeps(mem, mem')
  <2>1. mem_alloc(mem, heap_end, M, n, fresh)
            = [ret |-> heap_end, state |-> AllocPages(mem, heap_end, n, fresh)]
    BY <1>5 DEF mem_alloc
  <2>2. heap_end # NULL
    BY <1>0 DEF NULL
  <2>3. /\ mem' = AllocPages(mem, heap_end, n, fresh) /\ pc' = pc /\ heap_end' = heap_end + n
        /\ lastAlloc' = [start |-> heap_end, n |-> n, ret |-> heap_end]
    BY <1>1, <2>1, <2>2
  <2>4. mem.pt[heap_end] = Absent
    BY <1>0, <1>3, <1>5, UsedIsUsed DEF TablesGood, Layout
  <2>5. HeapGood(mem, heap_end) /\ heap_end + n <= M
    BY <1>0, <1>3, <1>5, <2>4 DEF HeapGood
  <2>6. HeapGood(mem', heap_end + n) /\ Keeps(mem, mem')
    BY <1>0, <1>3, <2>3, <2>5, AllocGood
  <2>7. FreeFrames(mem)' = FreeFrames(mem')
    BY <1>2 DEF FreeFrames
  <2>8. \A p \in lastAlloc'.start..(lastAlloc'.start + lastAlloc'.n - 1) : p \in L..(heap_end' - 1)
    BY <1>0, <2>3
  <2>9. HeapInv'
    BY <2>3, <2>6, <2>7, <2>8 DEF HeapInv, HeapGood, Mapped
  <2>10. FaultInv(mem)' /\ Layout(mem') /\ OwnedTables(mem') /\ mem' \in State
    BY <2>6, <2>7 DEF HeapGood, TablesGood, FaultInv
  <2>11. BootInv'
    BY <1>2, <1>3, <2>3 DEF BootInv
  <2>12. TypeInv'
    BY <1>0, <1>2, <1>3, <2>3, <2>5, <2>10 DEF TypeInv, BoundsOK
  <2>13. reserved' \subseteq mem'.used
    BY <1>2, <1>3, <2>6 DEF Keeps
  <2> QED
    BY <1>2, <2>3, <2>6, <2>9, <2>10, <2>11, <2>12, <2>13 DEF IInv
<1> QED
  BY <1>4, <1>5

\* Steps of the kernel, and steps that change nothing.
LEMMA MemoryInductive == IInv /\ [Next]_allVars => IInv'
<1> SUFFICES ASSUME IInv, [Next]_allVars PROVE IInv'
  OBVIOUS
<1>1. CASE MemInit
  BY <1>1, MemInitKeeps
<1>2. CASE tty_init
  BY <1>2, TtyInitKeeps
<1>3. CASE TagMeminfo \/ TagMmapRegion \/ TagMmapEnd \/ TagModule \/ TagsDone
  BY <1>3, TagSteps
<1>4. CASE MapRamdisk
  BY <1>4, MapRamdiskKeeps
<1>5. ASSUME NEW n \in 1..MaxGrow, HeapGrow(n) PROVE IInv'
  BY <1>5, HeapGrowKeeps
<1>6. CASE UNCHANGED allVars
  <2>1. /\ mem' = mem /\ lower_bound' = lower_bound /\ upper_bound' = upper_bound /\ pc' = pc
        /\ got' = got /\ rd' = rd /\ heap_end' = heap_end /\ reserved' = reserved
        /\ lastAlloc' = lastAlloc
    BY <1>6 DEF allVars, memVars, bootVars
  <2>2. FreeFrames(mem)' = FreeFrames(mem)
    BY <2>1 DEF FreeFrames
  <2>3. TypeInv' /\ FaultInv(mem)' /\ Layout(mem)' /\ (pc # "mem_init" => OwnedTables(mem))'
    BY <2>1, <2>2 DEF IInv, TypeInv, BoundsOK, FaultInv
  <2>4. BootInv'
    BY <2>1 DEF IInv, BootInv, Untouched
  <2>5. HeapInv'
    BY <2>1, <2>2 DEF IInv, HeapInv, Mapped
  <2> QED
    BY <2>1, <2>3, <2>4, <2>5 DEF IInv
<1> QED
  BY <1>1, <1>2, <1>3, <1>4, <1>5, <1>6 DEF Next

\* As many values as arguments, if no two have the same.
LEMMA SameCardinality ==
    ASSUME NEW S, IsFiniteSet(S), NEW g, \A x, y \in S : g[x] = g[y] => x = y
    PROVE  Cardinality({g[x] : x \in S}) = Cardinality(S)
<1> DEFINE T == {g[x] : x \in S}
           b == [x \in S |-> g[x]]
<1>1. b \in [S -> T] /\ (\A x \in S : b[x] = g[x]) /\ DOMAIN b = S
  OBVIOUS
<1>2. \A v \in T : \E x \in S : b[x] = v
  BY <1>1
<1> HIDE DEF b, T
<1>3. IsInjective(b)
  BY <1>1 DEF IsInjective
<1>4. b \in Bijection(S, T)
  BY <1>1, <1>2, <1>3 DEF Bijection, Injection, Surjection
<1>5. ExistsBijection(S, T)
  BY <1>4 DEF ExistsBijection
<1> QED
  BY <1>5, FS_Bijection DEF T

\* The invariant is stronger than the property.
LEMMA OwnedOnce == IInv => FramesOwnedOnce
<1> SUFFICES ASSUME IInv PROVE FramesOwnedOnce
  OBVIOUS
<1> DEFINE mapped == {page \in HeapPages : mem.pt[page] \in Frames}
           frames == {mem.pt[page] : page \in mapped}
           tables == {mem.pd[dir] : dir \in TableDirs}
<1>1. /\ mem \in State /\ heap_end \in K_MEM_HEAP_START..K_MEM_HEAP_END
      /\ OwnedPages(mem, heap_end) /\ BoundsOK
  BY DEF IInv, TypeInv, HeapInv
<1>2. TypeOK
  BY <1>1 DEF TypeOK, State, BoundsOK, IInv, TypeInv, Booting
<1>3. K_MEM_HEAP_START \in Nat /\ heap_end \in Nat /\ Dirs \in Nat
  BY <1>1, LayoutFacts, SizesAssumption
<1>4. IsFiniteSet(mapped) /\ IsFiniteSet(TableDirs)
  <2>1. IsFiniteSet(K_MEM_HEAP_START..(heap_end - 1)) /\ IsFiniteSet(0..(Dirs - 1))
    BY <1>3, FS_Interval
  <2>2. mapped \in SUBSET (K_MEM_HEAP_START..(heap_end - 1)) /\ TableDirs \in SUBSET (0..(Dirs - 1))
    BY DEF HeapPages, TableDirs
  <2> HIDE DEF mapped
  <2> QED
    BY <2>1, <2>2, FS_Subset
<1>5. /\ \A p \in mapped : p \in K_MEM_HEAP_START..(heap_end - 1) /\ mem.pt[p] \in Frames
      /\ \A d \in TableDirs : d \in Others /\ mem.pd[d] \in Frames
  BY DEF HeapPages, TableDirs, Others
<1> HIDE DEF mapped
<1>6. \A p, q \in mapped : mem.pt[p] = mem.pt[q] => p = q
  BY <1>1, <1>5 DEF OwnedPages
<1>7. Cardinality(frames) = Cardinality(mapped)
  BY <1>4, <1>6, SameCardinality
<1>8. CASE pc = "mem_init"
  <2>1. TableDirs = {}
    BY <1>5, <1>8, FramesFacts DEF IInv, BootInv, Untouched
  <2>2. heap_end = K_MEM_HEAP_START
    BY <1>8 DEF IInv, BootInv, Booting
  <2>3. mapped = {}
    BY <1>3, <1>5, <2>2
  <2>4. frames = {} /\ tables = {}
    BY <2>1, <2>3
  <2> QED
    BY <1>2, <2>1, <2>3, <2>4 DEF FramesOwnedOnce, mapped
<1>9. CASE pc # "mem_init"
  <2>1. OwnedTables(mem)
    BY <1>9 DEF IInv
  <2>2. \A d, e \in TableDirs : mem.pd[d] = mem.pd[e] => d = e
    BY <1>5, <2>1 DEF OwnedTables
  <2>3. Cardinality(tables) = Cardinality(TableDirs)
    BY <1>4, <2>2, SameCardinality
  <2>4. \A p \in mapped : mem.pt[p] \in mem.handed /\ \A d \in TableDirs : mem.pd[d] # mem.pt[p]
    BY <1>1, <1>5 DEF OwnedPages
  <2>5. \A d \in TableDirs : mem.pd[d] \in mem.handed
    BY <1>5, <2>1 DEF OwnedTables
  <2>6. \A x \in KernelFrames : x \notin mem.handed
    BY <2>1 DEF OwnedTables
  <2>7. frames \cap tables = {}
    BY <2>4
  <2>8. (frames \cup tables) \cap KernelFrames = {}
    BY <2>4, <2>5, <2>6
  <2> QED
    BY <1>2, <1>7, <2>3, <2>7, <2>8 DEF FramesOwnedOnce, mapped
<1> QED
  BY <1>8, <1>9

\* No frame serves two purposes, whatever the tags say and however much
\* memory malloc asks for, until it runs out.
THEOREM FramesOwnedOnceHolds == Spec => []FramesOwnedOnce
<1>1. Init => IInv
  BY InitGood
<1> QED
  BY <1>1, MemoryInductive, OwnedOnce, PTL DEF Spec

\* The paging code touches a table that is not there only when memory is
\* exhausted, and mem_alloc returns unmapped pages only then.
THEOREM FaultsOnlyWhenExhaustedHolds == Spec => []FaultsOnlyWhenExhausted
<1>1. Init => IInv
  BY InitGood
<1>2. IInv => FaultsOnlyWhenExhausted
  <2> SUFFICES ASSUME IInv PROVE FaultsOnlyWhenExhausted
    OBVIOUS
  <2>1. mem.faulted => FreeFrames(mem) = {}
    BY DEF IInv, FaultInv
  <2>2. \A page \in Pages : mem.pt[page] # Junk
    BY DEF IInv, Layout
  <2>3. ASSUME lastAlloc.ret # NULL, FreeFrames(mem) # {},
               NEW page \in lastAlloc.start..(lastAlloc.start + lastAlloc.n - 1)
        PROVE  mem.pt[page] \in Frames
    <3>1. page \in K_MEM_HEAP_START..(heap_end - 1)
      BY <2>3 DEF IInv, HeapInv
    <3>2. pc \notin Booting
      BY <2>3 DEF IInv, BootInv, NoAlloc
    <3> QED
      BY <2>3, <3>1, <3>2 DEF IInv, HeapInv, Mapped
  <2> QED
    BY <2>1, <2>2, <2>3 DEF FaultsOnlyWhenExhausted
<1> QED
  BY <1>1, <1>2, MemoryInductive, PTL DEF Spec

\* What a step of the kernel does to the tables: whatever is there stays.
LEMMA StepKeeps == IInv /\ [Next]_allVars =>
    \/ Keeps(mem, mem')
    \/ /\ pc \notin {"ramdisk", "running"}
       /\ mem'.pt = mem.pt /\ mem'.pd = mem.pd
<1> SUFFICES ASSUME IInv, [Next]_allVars
             PROVE  \/ Keeps(mem, mem')
                    \/ /\ pc \notin {"ramdisk", "running"}
                       /\ mem'.pt = mem.pt /\ mem'.pd = mem.pd
  OBVIOUS
<1>0. mem \in State
  BY DEF IInv, TypeInv
<1>1. CASE MemInit \/ TagMeminfo \/ TagMmapRegion \/ TagMmapEnd \/ TagModule \/ TagsDone
  <2>1. pc \in {"mem_init", "tags"}
    BY <1>1 DEF MemInit, TagMeminfo, TagMmapRegion, TagMmapEnd, TagModule, TagsDone
  <2>2. mem' = mem \/ \E X : mem' = set_phys_used(mem, X)
    BY <1>1, Zenon DEF MemInit, TagMeminfo, TagMmapRegion, TagMmapEnd, TagModule, TagsDone,
                mem_init, mem_init_regions, mem_set_used, memVars
  <2>3. mem'.pt = mem.pt /\ mem'.pd = mem.pd
    BY <1>0, <2>2 DEF set_phys_used, State
  <2> QED
    BY <2>1, <2>3
<1>2. CASE tty_init
  BY <1>2, TtyInitKeeps
<1>3. CASE MapRamdisk
  BY <1>3, MapRamdiskKeeps
<1>4. ASSUME NEW n \in 1..MaxGrow, HeapGrow(n) PROVE Keeps(mem, mem')
  BY <1>4, HeapGrowKeeps
<1>5. CASE UNCHANGED allVars
  BY <1>5, KeepsSame DEF allVars, memVars
<1> QED
  BY <1>1, <1>2, <1>3, <1>4, <1>5 DEF Next

\* No call of mem_map, mem_map_range or mem_alloc overwrites or clears an
\* entry of a table that is in use.
THEOREM MappingsKeptHolds == Spec => MappingsKept
<1>1. Init => IInv
  BY InitGood
<1>2. IInv /\ [Next]_allVars =>
          [/\ \A page \in Pages : mem.pt[page] # Absent => mem'.pt[page] = mem.pt[page]
           /\ \A dir \in 0..(Dirs - 1) :
                  mem.pd[dir] # Absent => mem'.pd[dir] = mem.pd[dir]]_allVars
  BY StepKeeps DEF Keeps
<1> QED
  BY <1>1, <1>2, MemoryInductive, PTL DEF Spec, MappingsKept

\* alloc_phys hands out none of the frames that the tags declared unusable,
\* once they are read.
THEOREM AllocRespectsMapHolds == Spec => AllocRespectsMap
<1>1. Init => IInv
  BY InitGood
<1>2. IInv /\ [Next]_allVars =>
          [(pc \in {"ramdisk", "running"}) =>
              FramesHandedOut \subseteq (0..(upper_bound - 1)) \ reserved]_allVars
  <2> SUFFICES ASSUME IInv, [Next]_allVars, pc \in {"ramdisk", "running"},
                      NEW x \in FramesHandedOut
               PROVE  x \in 0..(upper_bound - 1) /\ x \notin reserved
    OBVIOUS
  <2>1. Keeps(mem, mem')
    BY StepKeeps
  <2>2. x \in FreeFrames(mem)
    BY <2>1 DEF FramesHandedOut, Keeps
  <2>3. reserved \subseteq mem.used /\ BoundsOK
    BY DEF IInv, TypeInv
  <2> QED
    BY <2>2, <2>3, SizesAssumption DEF FreeFrames, BoundsOK
<1> QED
  BY <1>1, <1>2, MemoryInductive, PTL DEF Spec, AllocRespectsMap
=============================================================================
