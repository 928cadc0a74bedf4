---------------------------- MODULE MCMemoryBoot ----------------------------
(***************************************************************************)
(* MemoryBoot with page tables of three entries and sixteen frames: frame  *)
(* 1 is the screen, and the kernel is at 1 MiB, frames 2 and 3.            *)
(***************************************************************************)
EXTENDS MemoryBoot

Kernel == {2, 3}
Lower == {0, 1}
Upper == {5, 11}
Regions == {<<5, 1>>, <<8, 3>>}

\* Page aligned, as the multiboot header asks for, but of any length: less
\* than a page, and more than a page table.
Modules == {<<22, 23>>, <<22, 29>>}

\* Page aligned and in memory the map says is available, behind the frames
\* that tty_init and the mapping of the RAM disk take for page tables.
ModulesInMemory == {<<12, 16>>}
Plenty == {11}
=============================================================================
