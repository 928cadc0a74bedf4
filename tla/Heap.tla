-------------------------------- MODULE Heap --------------------------------
(***************************************************************************)
(* The kernel heap, libc/arch/i686/malloc.c: malloc and free.              *)
(*                                                                         *)
(* Addresses count units of 16 bytes from K_MEM_HEAP_START.  That is the   *)
(* size of a header, and malloc rounds every size up to it.  hdrs holds    *)
(* the headers that were written and not merged away since; what lies      *)
(* between them belongs to the users of the heap, so that a step that      *)
(* takes any other address for a header finds arbitrary data there.  What  *)
(* happens from then on is not modelled: the state is then "derailed".     *)
(* The heap is used by one caller at a time, a call is one step.           *)
(***************************************************************************)
EXTENDS Integers, FiniteSets

CONSTANTS
    PageUnits,      \* units in a page, 256 in the code
    HeapPages,      \* pages between K_MEM_HEAP_START and K_MEM_HEAP_END
    Sizes           \* the sizes, in units, that are asked for

ASSUME PageUnitsAssumption == PageUnits \in Nat /\ PageUnits > 2
ASSUME HeapPagesAssumption == HeapPages \in Nat
ASSUME SizesAssumption == Sizes \subseteq Nat

VARIABLES
    hdrs,       \* address |-> header
    mapped,     \* pages of the heap that mem_alloc mapped
    live,       \* history: address of a header |-> size its user asked for
    merges,     \* history: a free merged two blocks
    outcome     \* "ok", "derailed", or "null": a write through a null pointer

vars == <<hdrs, mapped, live, merges, outcome>>

NULL == -1
Header == [used : BOOLEAN, end : BOOLEAN, size : Nat, prev : Nat \cup {NULL}]

Units == 0..(HeapPages * PageUnits - 1)

\* first_hdr, which never changes once it is set.
first_hdr == IF hdrs = <<>> THEN NULL ELSE 0

find_next_hdr(h, hdr) == hdr + 1 + h[hdr].size

IsHeader(h, addr) == addr \in DOMAIN h

\* h with a header at addr.
Put(h, addr, header) ==
    [a \in DOMAIN h \cup {addr} |-> IF a = addr THEN header ELSE h[a]]

Drop(h, addr) == [a \in DOMAIN h \ {addr} |-> h[a]]
-----------------------------------------------------------------------------
(***************************************************************************)
(* malloc.                                                                 *)
(***************************************************************************)

Unsuitable(hdr, size) == hdrs[hdr].used \/ hdrs[hdr].size < size

\* Where the search stops: at a header that is large enough and free, at the
\* last one, or at something that is not a header.
Search(size) ==
    LET goes(hdr) == /\ IsHeader(hdrs, hdr)
                     /\ Unsuitable(hdr, size)
                     /\ ~hdrs[hdr].end
        hdr[k \in 0..Cardinality(DOMAIN hdrs)] ==
            IF k = 0 THEN first_hdr
            ELSE IF goes(hdr[k - 1]) THEN find_next_hdr(hdrs, hdr[k - 1])
                                     ELSE hdr[k - 1]
    IN  hdr[Cardinality(DOMAIN hdrs)]

\* mem_alloc(start, K_MEM_HEAP_END, n): it refuses to go beyond the end and
\* to map a page twice, and returns start otherwise.
mem_alloc(start, n) ==
    IF \/ start + n * PageUnits > HeapPages * PageUnits
       \/ start \div PageUnits < mapped
    THEN NULL ELSE start

\* The number of pages malloc asks for.
PagesFor(size) == (size + 1) \div PageUnits + 1

\* The headers after the heap was extended by a block after hdr.
Grown(hdr, size) ==
    LET new == IF hdr = NULL THEN 0 ELSE find_next_hdr(hdrs, hdr)
        h   == IF hdr = NULL THEN hdrs ELSE [hdrs EXCEPT ![hdr].end = FALSE]
    IN  Put(h, new, [used |-> FALSE, end |-> TRUE, prev |-> hdr,
                     size |-> PagesFor(size) * PageUnits - 1])

\* Mutant: the remaining size forgets the header of the rest.
SplitTooLarge(h, hdr, size) ==
    LET rest == hdr + 1 + size
        next == find_next_hdr(h, hdr)
        cut  == Put([h EXCEPT ![hdr].used = TRUE, ![hdr].end = FALSE, ![hdr].size = size],
                    rest, [used |-> FALSE, end |-> h[hdr].end, prev |-> hdr,
                           size |-> h[hdr].size - size])
    IN  IF h[hdr].size < size + 2 THEN [h EXCEPT ![hdr].used = TRUE]
        ELSE IF h[hdr].end THEN cut
        ELSE IF IsHeader(h, next) THEN [cut EXCEPT ![next].prev = rest]
        ELSE cut

\* Mutant: the block after the rest still points back to hdr.
SplitUnlinked(h, hdr, size) ==
    IF h[hdr].size < size + 2 THEN [h EXCEPT ![hdr].used = TRUE]
    ELSE Put([h EXCEPT ![hdr].used = TRUE, ![hdr].end = FALSE, ![hdr].size = size],
             hdr + 1 + size,
             [used |-> FALSE, end |-> h[hdr].end, prev |-> hdr,
              size |-> h[hdr].size - size - 1])

\* The headers after hdr was taken, and split in two if it is much too large.
Split(h, hdr, size) ==
    LET rest == hdr + 1 + size
        next == find_next_hdr(h, hdr)
        cut  == Put([h EXCEPT ![hdr].used = TRUE, ![hdr].end = FALSE, ![hdr].size = size],
                    rest, [used |-> FALSE, end |-> h[hdr].end, prev |-> hdr,
                           size |-> h[hdr].size - size - 1])
    IN  IF h[hdr].size < size + 2 THEN [h EXCEPT ![hdr].used = TRUE]
        ELSE IF h[hdr].end THEN cut
        ELSE IF IsHeader(h, next) THEN [cut EXCEPT ![next].prev = rest]
        ELSE cut

\* Does the split write to a next_next that is not a header?
SplitDerails(h, hdr, size) ==
    /\ h[hdr].size >= size + 2
    /\ ~h[hdr].end
    /\ ~IsHeader(h, find_next_hdr(h, hdr))

Take(h, hdr, size) ==
    /\ hdrs' = Split(h, hdr, size)
    /\ live' = Put(live, hdr, size)
    /\ outcome' = IF SplitDerails(h, hdr, size) THEN "derailed" ELSE "ok"
    /\ UNCHANGED merges

Stop(how) == outcome' = how /\ UNCHANGED <<hdrs, mapped, live, merges>>

MustGrow(hdr, size) == hdr # NULL => Unsuitable(hdr, size)

MallocDerails(size) ==
    LET hdr == Search(size)
    IN  hdr # NULL /\ ~IsHeader(hdrs, hdr) /\ Stop("derailed")

MallocReuses(size) ==
    LET hdr == Search(size)
    IN  /\ IsHeader(hdrs, hdr)
        /\ ~MustGrow(hdr, size)
        /\ Take(hdrs, hdr, size)
        /\ UNCHANGED mapped

\* If mem_alloc refuses, malloc writes the new header all the same.
MallocGrows(size) ==
    LET hdr   == Search(size)
        start == IF hdr = NULL THEN 0 ELSE find_next_hdr(hdrs, hdr)
    IN  /\ hdr # NULL => IsHeader(hdrs, hdr)
        /\ MustGrow(hdr, size)
        /\ IF mem_alloc(start, PagesFor(size)) = NULL
           THEN Stop("null")
           ELSE /\ Take(Grown(hdr, size), start, size)
                /\ mapped' = mapped + PagesFor(size)

malloc(size) == MallocDerails(size) \/ MallocReuses(size) \/ MallocGrows(size)
-----------------------------------------------------------------------------
(***************************************************************************)
(* free.                                                                   *)
(***************************************************************************)

\* The first half: the block, or the one before it if that was free.  Its
\* size then lacks the header that disappears.
MergesPrev(hdr) == hdrs[hdr].prev # NULL /\ ~hdrs[hdrs[hdr].prev].used

MergePrev(hdr) ==
    LET prev == hdrs[hdr].prev
    IN  Drop([hdrs EXCEPT ![prev].size = @ + hdrs[hdr].size,
                          ![prev].end  = @ \/ hdrs[hdr].end], hdr)

\* The second half, which is left out only if the status is END_OF_MEMORY
\* and nothing else, so not for a last block that is still marked as used.
\* The size lacks a header once more.
LooksAtNext(h, hdr) == ~(h[hdr].end /\ ~h[hdr].used)

MergeNext(h, hdr) ==
    LET next     == find_next_hdr(h, hdr)
        nextnext == find_next_hdr(h, next)
        merged   == Drop([h EXCEPT ![hdr].size = @ + h[next].size,
                                   ![hdr].end  = @ \/ h[next].end], next)
    IN  IF ~h[next].end /\ IsHeader(h, nextnext)
        THEN [merged EXCEPT ![nextnext].prev = hdr]
        ELSE merged

\* Mutant: the block stays marked as used.
FreedStillUsed(h, hdr) == h

Freed(h, hdr) == [h EXCEPT ![hdr].used = FALSE]

free(ptr) ==
    LET h    == IF MergesPrev(ptr) THEN MergePrev(ptr) ELSE hdrs
        hdr  == IF MergesPrev(ptr) THEN hdrs[ptr].prev ELSE ptr
        next == find_next_hdr(h, hdr)
        mergesNext == LooksAtNext(h, hdr) /\ ~h[next].used
    IN  /\ IF LooksAtNext(h, hdr) /\ ~IsHeader(h, next)
           THEN outcome' = "derailed" /\ hdrs' = h /\ merges' = merges
           ELSE /\ hdrs' = Freed(IF mergesNext THEN MergeNext(h, hdr) ELSE h, hdr)
                /\ merges' = (merges \/ MergesPrev(ptr) \/ mergesNext)
                /\ outcome' = IF /\ mergesNext
                                 /\ ~h[next].end
                                 /\ ~IsHeader(h, find_next_hdr(h, next))
                              THEN "derailed" ELSE "ok"
        /\ live' = Drop(live, ptr)
        /\ UNCHANGED mapped
-----------------------------------------------------------------------------
Init == hdrs = <<>> /\ mapped = 0 /\ live = <<>> /\ merges = FALSE /\ outcome = "ok"

Next ==
    /\ outcome = "ok"
    /\ \/ \E size \in Sizes : malloc(size)
       \/ \E ptr \in DOMAIN live : free(ptr)

Spec == Init /\ [][Next]_vars
-----------------------------------------------------------------------------
(***************************************************************************)
(* Properties.                                                             *)
(***************************************************************************)

\* Type invariant.
TypeOK ==
    /\ DOMAIN hdrs \subseteq Units
    /\ \A hdr \in DOMAIN hdrs : hdrs[hdr] \in Header
    /\ mapped \in 0..HeapPages
    /\ DOMAIN live \subseteq DOMAIN hdrs
    /\ \A hdr \in DOMAIN live : live[hdr] \in Sizes
    /\ merges \in BOOLEAN
    /\ outcome \in {"ok", "derailed", "null"}

\* Headers have their type and lie in the heap, and as long as no two blocks
\* were merged, the blocks tile the heap: the next header follows each block,
\* back links agree, and the one block marked as the last ends where the
\* mapped pages end.
BlocksTileHeap ==
    /\ TypeOK
    /\ ~merges /\ outcome = "ok" => \A hdr \in DOMAIN hdrs :
           LET next == find_next_hdr(hdrs, hdr)
           IN  IF hdrs[hdr].end
               THEN next = mapped * PageUnits
               ELSE IsHeader(hdrs, next) /\ hdrs[next].prev = hdr

\* What malloc hands out is the caller's alone, even after merges have lost
\* track of some memory: as large as the caller asked for, on mapped pages,
\* without a header inside and disjoint from every other allocation.  A block
\* is marked as used exactly as long as it is allocated, so that memory that
\* was freed can be found by the next search.
AllocationsDisjoint ==
    outcome = "ok" =>
        /\ \A hdr \in DOMAIN live :
               LET data == (hdr + 1)..(hdr + live[hdr])
               IN  /\ live[hdr] <= hdrs[hdr].size
                   /\ hdr + live[hdr] < mapped * PageUnits
                   /\ data \cap DOMAIN hdrs = {}
                   /\ \A other \in DOMAIN live \ {hdr} :
                          data \cap (other + 1)..(other + live[other]) = {}
        /\ \A hdr \in DOMAIN hdrs : hdrs[hdr].used <=> hdr \in DOMAIN live

\* Once everything is freed, the merges have made one large allocation
\* possible again: a single block with all of the heap.
FreedHeapIsOneBlock ==
    live = <<>> /\ mapped > 0 /\ outcome = "ok" =>
        \E hdr \in DOMAIN hdrs : hdrs[hdr].size = mapped * PageUnits - 1
=============================================================================
