------------------------------- MODULE Memory -------------------------------
(***************************************************************************)
(* The physical and virtual memory manager, kernel/arch/i686/mem.c.        *)
(*                                                                         *)
(* Physical memory is a range of frames, and the bitmap the set used of    *)
(* the frames marked.  Virtual memory is a range of pages; TableSize of    *)
(* them share a page table, which is there if its entry of page_directory  *)
(* is not Absent.  The functions of mem.c run one at a time, and loop over *)
(* pages: they are operators from a state of the manager to the next, a    *)
(* record with the fields                                                  *)
(*                                                                         *)
(*   used       frames whose bit is set in phys_page_bitmap                *)
(*   pd         page_directory: the frame of each page table, or Absent    *)
(*   pt         page_tables: the frame each page is mapped to, or Absent   *)
(*   faulted    a paging structure that is not mapped was accessed         *)
(*   handed     history: the frames alloc_phys returned                    *)
(*                                                                         *)
(* phys_page_bitmap has bits for the frames below 2 GiB; memory that the   *)
(* boot loader reports beyond that is not modelled.                        *)
(***************************************************************************)
EXTENDS Integers, Sequences, FiniteSets, FiniteSetsExt

CONSTANTS
    TableSize,      \* entries of a page table, 1024 in the code
    Dirs,           \* entries of the page directory
    PhysFrames,     \* frames of the physical address space
    OneMeg,         \* the frame at 1 MiB
    ProtEnd,        \* PROT_PHYS_END
    KernelFrames    \* the frames of the kernel image

ASSUME SizesAssumption ==
    /\ TableSize \in Nat \ {0} /\ Dirs \in Nat \ {0} /\ PhysFrames \in Nat
    /\ OneMeg \in 0..ProtEnd /\ ProtEnd \in 0..PhysFrames
    /\ KernelFrames \subseteq OneMeg..(ProtEnd - 1)

VARIABLES
    mem,            \* the state described above
    lower_bound,
    upper_bound

memVars == <<mem, lower_bound, upper_bound>>

Absent  == -1       \* an entry without PG_PRES
NoFrame == -2       \* what alloc_phys returns when it finds nothing
NULL    == -3
Junk    == -4       \* what a word nobody initialised may look like

Pages   == 0..(Dirs * TableSize - 1)
Frames  == 0..(PhysFrames - 1)
DirOf(page) == page \div TableSize
-----------------------------------------------------------------------------
(***************************************************************************)
(* Physical memory.                                                        *)
(***************************************************************************)

\* set_phys_used for each frame of a set.
set_phys_used(s, frames) == [s EXCEPT !.used = @ \cup frames]

FreeFrames(s) == lower_bound..(upper_bound - 1) \ s.used

\* alloc_phys: the frame it returns, and the state it leaves.
alloc_phys(s) == IF FreeFrames(s) = {} THEN NoFrame ELSE Min(FreeFrames(s))

\* Mutant: the frame is not marked.
AfterAllocUnmarked(s) ==
    IF FreeFrames(s) = {} THEN s
    ELSE [s EXCEPT !.handed = @ \cup {alloc_phys(s)}]

AfterAlloc(s) ==
    IF FreeFrames(s) = {} THEN s
    ELSE [s EXCEPT !.used = @ \cup {alloc_phys(s)},
                   !.handed = @ \cup {alloc_phys(s)}]

\* Marks the frames of the kernel image.
mem_init ==
    /\ mem' = set_phys_used(mem, KernelFrames)
    /\ UNCHANGED <<lower_bound, upper_bound>>

\* lower and upper are the sizes, in frames, of the memory below and above
\* 1 MiB.
mem_init_regions(lower, upper) ==
    /\ mem' = set_phys_used(mem, lower..(OneMeg - 1))
    /\ upper_bound' = OneMeg + upper
    /\ lower_bound' = 0

\* The frames mem_set_used marks: regions that start beyond the 32-bit
\* address space are ignored and larger ones cut off; the first frame is
\* marked even if the region is empty.
RegionFrames(start, len) ==
    IF start >= PhysFrames THEN {}
    ELSE {start} \cup start..(Min({start + len, PhysFrames}) - 1)

\* Mutant: the loop ends after the first frame.
mem_set_usedOnce(s, start, len) ==
    IF start >= PhysFrames THEN s ELSE set_phys_used(s, {start})

mem_set_used(s, start, len) == set_phys_used(s, RegionFrames(start, len))
-----------------------------------------------------------------------------
(***************************************************************************)
(* Virtual memory.                                                         *)
(***************************************************************************)

\* The first page of a region at which is_virt_region_used stops: a page
\* that is mapped, or one whose table is absent.  In the second case it sets
\* page to the last page of the address space instead of the last one of the
\* table, and so does not look at the rest of the region.
StopsAt(s, page) == s.pd[DirOf(page)] = Absent \/ s.pt[page] # Absent

is_virt_region_used(s, start, n) ==
    LET stops == {page \in start..(start + n - 1) : StopsAt(s, page)}
    IN  stops # {} /\ s.pd[DirOf(Min(stops))] # Absent

\* Mutant: the caller's address is taken as it is.
FreeRegionUnsearched(s, virt_min, n) == virt_min

\* Where mem_map's search ends.  Trying the page after the used one that was
\* found skips only pages whose region contains that page too, so the search
\* ends at the first page whose region is found free.
FreeRegion(s, virt_min, n) ==
    LET found == {start \in virt_min..(Dirs * TableSize - n) :
                      ~is_virt_region_used(s, start, n)}
    IN  IF found = {} THEN NULL ELSE Min(found)

\* Mutant: a new page table is not cleared.
AddTableUncleared(s, page, fresh) ==
    [AfterAlloc(s) EXCEPT
        !.pd[DirOf(page)] = alloc_phys(s),
        !.pt = [p \in Pages |-> IF DirOf(p) = DirOf(page) THEN fresh ELSE s.pt[p]],
        !.faulted = @ \/ alloc_phys(s) = NoFrame]

\* A page table is added for page.  fresh is what its frame held before.
\* The memset clears one table's worth of entries from page on, not from the
\* start of the table: it reaches into the next table unless page is the
\* first of its own, and faults if that one is absent.
AddTable(s, page, fresh) ==
    LET dir     == DirOf(page)
        end     == page + TableSize - 1
        present == s.pd[DirOf(end)] # Absent
    IN  [AfterAlloc(s) EXCEPT
            !.pd[dir] = alloc_phys(s),
            !.pt = [p \in Pages |->
                       CASE p \in page..end            -> Absent
                         [] p < page /\ DirOf(p) = dir -> fresh
                         [] OTHER                      -> s.pt[p]],
            !.faulted = \/ @
                        \/ alloc_phys(s) = NoFrame
                        \/ DirOf(end) # dir /\ ~present]

\* One iteration of mem_map's loop.
MapPage(s, page, frame, fresh) ==
    LET t == IF s.pd[DirOf(page)] = Absent THEN AddTable(s, page, fresh) ELSE s
    IN  [t EXCEPT !.pt[page] = frame]

\* The loop of mem_map.
MapPages(s, start, n, frame, fresh) ==
    LET after[k \in 0..n] ==
            IF k = 0 THEN s
            ELSE MapPage(after[k - 1], start + k - 1, frame + k - 1, fresh)
    IN  after[n]

\* mem_map(virt_min, n, phys): the address it returns, and the state it
\* leaves.  The search never gives up: past the last page it reads beyond
\* the page directory.
mem_map(s, virt_min, n, frame, fresh) ==
    LET start == FreeRegion(s, virt_min, n)
    IN  IF frame = NoFrame THEN [ret |-> NULL, state |-> s]
        ELSE IF start = NULL
        THEN [ret |-> NULL, state |-> [s EXCEPT !.faulted = TRUE]]
        ELSE [ret |-> start, state |-> MapPages(s, start, n, frame, fresh)]

\* mem_map_range: addresses are in units of PageUnits to a page.
PageUnits == 2

mem_map_range(s, virt_min, phys_start, phys_end, fresh) ==
    LET n == (phys_end - phys_start + PageUnits - 1) \div PageUnits
    IN  IF phys_end < phys_start THEN [ret |-> NULL, state |-> s]
        ELSE mem_map(s, virt_min, n, phys_start \div PageUnits, fresh)

\* The loop of mem_alloc: one frame and one call of mem_map for each page.
AllocPages(s, start, n, fresh) ==
    LET after[k \in 0..n] ==
            IF k = 0 THEN s
            ELSE LET t == after[k - 1]
                 IN  mem_map(AfterAlloc(t), start + k - 1, 1, alloc_phys(t), fresh).state
    IN  after[n]

mem_alloc(s, start, max, n, fresh) ==
    IF start + n > max \/ is_virt_region_used(s, start, n)
    THEN [ret |-> NULL, state |-> s]
    ELSE [ret |-> start, state |-> AllocPages(s, start, n, fresh)]
=============================================================================
