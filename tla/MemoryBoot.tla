----------------------------- MODULE MemoryBoot -----------------------------
(***************************************************************************)
(* Who calls the memory manager while the kernel boots, and in what order: *)
(* hlinit of kernel/arch/i686/boot/boot1.c, tty_init, and malloc, which    *)
(* extends the heap by whole pages at its end.                             *)
(*                                                                         *)
(* The boot loader's tags come in any order and any of them may be         *)
(* missing.  Where it put the RAM disk, how much memory there is and which *)
(* regions are reserved are inputs.  Where it put the tags themselves is   *)
(* not modelled.                                                           *)
(***************************************************************************)
EXTENDS Memory

CONSTANTS
    K_MEM_START,        \* first page of the kernel's part of memory
    K_MEM_HEAP_START,   \* first and last page of the heap
    K_MEM_HEAP_END,
    K_MEM_DEV_START,    \* first page for devices
    VgaFrame,           \* the frame of the screen, 0xb8000
    LowerSizes,         \* possible sizes of the memory below 1 MiB
    UpperSizes,         \* and above
    Reserved,           \* possible regions of the memory map, <<start, len>>
    Ramdisks,           \* possible places of the RAM disk, <<start, end>> in units
    MaxGrow             \* bound: pages malloc asks for at once

ASSUME LayoutAssumption ==
    /\ K_MEM_HEAP_END \in Nat
    /\ K_MEM_START < K_MEM_HEAP_START
    /\ K_MEM_HEAP_START <= K_MEM_HEAP_END
    /\ K_MEM_HEAP_END < K_MEM_DEV_START
    /\ {K_MEM_START, K_MEM_HEAP_START, K_MEM_DEV_START} \subseteq Pages
    /\ \A page \in {K_MEM_START, K_MEM_HEAP_START, K_MEM_DEV_START} :
           page % TableSize = 0

\* The kernel leaves a frame of the memory that is there for certain, and
\* all frames the boot loader speaks of exist.
ASSUME MachineAssumption ==
    /\ KernelFrames # {} /\ KernelFrames # OneMeg..(ProtEnd - 1)
    /\ TableSize <= PhysFrames /\ VgaFrame \in Frames
    /\ LowerSizes \subseteq Nat /\ UpperSizes \subseteq 0..(PhysFrames - OneMeg)
    /\ Reserved \subseteq Nat \X Nat
    /\ MaxGrow \in Nat

\* A RAM disk lies in physical memory, and has fewer pages than there are
\* between the kernel and the devices.
ASSUME RamdisksAssumption ==
    \A disk \in Ramdisks :
        /\ disk \in Nat \X Nat /\ disk[1] <= disk[2] /\ disk[2] <= PhysFrames * PageUnits
        /\ (disk[2] - disk[1] + PageUnits - 1) \div PageUnits
               <= K_MEM_DEV_START - (K_MEM_START + TableSize)

VARIABLES
    pc,             \* where hlinit is
    tags,           \* the tags the loop has not come to
    got,            \* got_meminfo, got_mmap, got_rd
    rd,             \* the RAM disk, or <<>> if there is none
    ramdisk,        \* where it was mapped
    heap_end,       \* the page after the last of the heap
    reserved,       \* history: frames the tags declared unusable
    lastAlloc       \* history: what the last call of mem_alloc was and returned

bootVars == <<pc, tags, got, rd, ramdisk, heap_end, reserved, lastAlloc>>
allVars  == <<memVars, bootVars>>

NoAlloc == [start |-> NULL, n |-> 0, ret |-> NULL]

\* boot0.s: one page table, which maps the first TableSize frames.  The same
\* table is entered for the pages below K_MEM_START, where nothing is mapped
\* later, and the directory for itself; both are left out.
Init ==
    /\ mem = [used |-> {}, handed |-> {}, faulted |-> FALSE,
              pd |-> [d \in 0..(Dirs - 1) |->
                         IF d = DirOf(K_MEM_START) THEN Min(KernelFrames) ELSE Absent],
              pt |-> [p \in Pages |->
                         IF DirOf(p) = DirOf(K_MEM_START) THEN p - K_MEM_START
                                                          ELSE Absent]]
    /\ lower_bound = OneMeg /\ upper_bound = ProtEnd
    /\ pc = "mem_init"
    /\ tags \in SUBSET {"meminfo", "mmap", "module"}
    /\ got = {} /\ rd = <<>> /\ ramdisk = NULL
    /\ heap_end = K_MEM_HEAP_START
    /\ reserved = {} /\ lastAlloc = NoAlloc

MemInit ==
    /\ pc = "mem_init"
    /\ mem_init
    /\ pc' = "tty_init"
    /\ UNCHANGED <<tags, got, rd, ramdisk, heap_end, reserved, lastAlloc>>

\* The screen is mapped for devices.
tty_init ==
    /\ pc = "tty_init"
    /\ \E fresh \in {Absent, Junk} :
           mem' = mem_map(mem, K_MEM_DEV_START, 1, VgaFrame, fresh).state
    /\ pc' = "tags"
    /\ UNCHANGED <<lower_bound, upper_bound, tags, got, rd, ramdisk, heap_end,
                   reserved, lastAlloc>>

Got(tag) == tags' = tags \ {tag} /\ got' = got \cup {tag}

\* MULTIBOOT_TAG_TYPE_BASIC_MEMINFO
TagMeminfo ==
    /\ pc = "tags" /\ "meminfo" \in tags
    /\ \E lower \in LowerSizes, upper \in UpperSizes :
           /\ mem_init_regions(lower, upper)
           /\ reserved' = reserved \cup (lower..(OneMeg - 1))
    /\ Got("meminfo")
    /\ UNCHANGED <<pc, rd, ramdisk, heap_end, lastAlloc>>

\* MULTIBOOT_TAG_TYPE_MMAP, one iteration for each region that is not
\* available memory.
TagMmapRegion ==
    /\ pc = "tags" /\ "mmap" \in tags
    /\ \E region \in Reserved :
           /\ ~(RegionFrames(region[1], region[2]) \subseteq reserved)
           /\ mem' = mem_set_used(mem, region[1], region[2])
           /\ reserved' = reserved \cup RegionFrames(region[1], region[2])
    /\ UNCHANGED <<lower_bound, upper_bound, pc, tags, got, rd, ramdisk, heap_end,
                   lastAlloc>>

TagMmapEnd ==
    /\ pc = "tags" /\ "mmap" \in tags
    /\ Got("mmap")
    /\ UNCHANGED <<memVars, pc, rd, ramdisk, heap_end, reserved, lastAlloc>>

\* MULTIBOOT_TAG_TYPE_MODULE
TagModule ==
    /\ pc = "tags" /\ "module" \in tags
    /\ rd' \in Ramdisks
    /\ Got("module")
    /\ UNCHANGED <<memVars, pc, ramdisk, heap_end, reserved, lastAlloc>>

\* The check after the loop.
TagsDone ==
    /\ pc = "tags" /\ tags = {}
    /\ pc' = IF {"meminfo", "mmap"} \subseteq got THEN "ramdisk" ELSE "panic"
    /\ UNCHANGED <<memVars, tags, got, rd, ramdisk, heap_end, reserved, lastAlloc>>

MapRamdisk ==
    /\ pc = "ramdisk"
    /\ IF "module" \notin got
       THEN UNCHANGED <<mem, ramdisk>>
       ELSE \E fresh \in {Absent, Junk} :
                LET map == mem_map_range(mem, K_MEM_START, rd[1], rd[2], fresh)
                IN  mem' = map.state /\ ramdisk' = map.ret
    /\ pc' = "running"
    /\ UNCHANGED <<lower_bound, upper_bound, tags, got, rd, heap_end, reserved,
                   lastAlloc>>

\* malloc extends the heap at its end; if mem_alloc refuses it writes through
\* a null pointer.
HeapGrow(n) ==
    /\ pc = "running" /\ ~mem.faulted
    /\ \E fresh \in {Absent, Junk} :
           LET alloc == mem_alloc(mem, heap_end, K_MEM_HEAP_END, n, fresh)
           IN  /\ mem' = alloc.state
               /\ lastAlloc' = [start |-> heap_end, n |-> n, ret |-> alloc.ret]
               /\ IF alloc.ret = NULL
                  THEN pc' = "null" /\ UNCHANGED heap_end
                  ELSE pc' = pc /\ heap_end' = heap_end + n
    /\ UNCHANGED <<lower_bound, upper_bound, tags, got, rd, ramdisk, reserved>>

Next ==
    \/ MemInit \/ tty_init
    \/ TagMeminfo \/ TagMmapRegion \/ TagMmapEnd \/ TagModule \/ TagsDone
    \/ MapRamdisk
    \/ \E n \in 1..MaxGrow : HeapGrow(n)

Spec == Init /\ [][Next]_allVars
-----------------------------------------------------------------------------
(***************************************************************************)
(* Properties.                                                             *)
(***************************************************************************)
Entries == Frames \cup {Absent, NoFrame, Junk}

\* Type invariant.
TypeOK ==
    /\ mem.used \subseteq Frames
    /\ mem.handed \subseteq Frames
    /\ mem.pd \in [0..(Dirs - 1) -> Entries]
    /\ mem.pt \in [Pages -> Entries]
    /\ mem.faulted \in BOOLEAN
    /\ lower_bound \in 0..PhysFrames /\ upper_bound \in 0..PhysFrames
    /\ pc \in {"mem_init", "tty_init", "tags", "ramdisk", "running", "null", "panic"}
    /\ heap_end \in K_MEM_HEAP_START..K_MEM_HEAP_END

\* Whatever is mapped stays mapped, to the same frame: no call of mem_map,
\* mem_map_range or mem_alloc overwrites or clears an entry that is in use.
MappingsKept ==
    [][/\ \A page \in Pages : mem.pt[page] # Absent => mem'.pt[page] = mem.pt[page]
       /\ \A dir \in 0..(Dirs - 1) :
              mem.pd[dir] # Absent => mem'.pd[dir] = mem.pd[dir]]_allVars

HeapPages == K_MEM_HEAP_START..(heap_end - 1)
TableDirs == {dir \in 0..(Dirs - 1) :
                 dir # DirOf(K_MEM_START) /\ mem.pd[dir] \in Frames}

\* The manager's state has its type, and no frame serves two purposes: the
\* page tables and the pages of the heap have a frame each, and none is one
\* of the kernel's.
FramesOwnedOnce ==
    LET mapped == {page \in HeapPages : mem.pt[page] \in Frames}
        frames == {mem.pt[page] : page \in mapped}
        tables == {mem.pd[dir] : dir \in TableDirs}
    IN  /\ TypeOK
        /\ Cardinality(frames) = Cardinality(mapped)
        /\ Cardinality(tables) = Cardinality(TableDirs)
        /\ frames \cap tables = {}
        /\ (frames \cup tables) \cap KernelFrames = {}

FramesHandedOut == mem'.handed \ mem.handed

\* Once the tags are read, alloc_phys hands out no frame that they declared
\* unusable or that lies beyond the end of memory.
AllocRespectsMap ==
    [][(pc \in {"ramdisk", "running"}) =>
          FramesHandedOut \subseteq (0..(upper_bound - 1)) \ reserved]_allVars

\* A paging structure that is not there is touched only when physical memory
\* is exhausted, only then does mem_alloc return the address of pages that are
\* not all mapped, and no mapping is left with uninitialised entries.
FaultsOnlyWhenExhausted ==
    /\ mem.faulted => FreeFrames(mem) = {}
    /\ lastAlloc.ret # NULL
       /\ (\E page \in lastAlloc.start..(lastAlloc.start + lastAlloc.n - 1) :
               mem.pt[page] \notin Frames)
       => FreeFrames(mem) = {}
    /\ \A page \in Pages : mem.pt[page] # Junk

\* The pages at which the RAM disk was mapped.
RamdiskPages ==
    IF ramdisk = NULL THEN {}
    ELSE ramdisk..(ramdisk + (rd[2] - rd[1] + PageUnits - 1) \div PageUnits - 1)

\* mem_alloc gives out no memory that is already taken: after the RAM disk was
\* mapped, no page of the heap shares a frame with it.
HeapSparesRamdisk ==
    \A page \in HeapPages, rdpage \in RamdiskPages :
        mem.pt[page] \in Frames => mem.pt[page] # mem.pt[rdpage]
=============================================================================
