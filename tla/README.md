# A TLA+ model of oldasternix

oldasternix is a small hobby kernel for 32-bit x86 with a keyboard driver, a
text console, a physical and virtual memory manager, a heap, an in-memory file
system and a few character and block devices. It runs on one processor, has no
processes yet, and its only concurrency is between the kernel's main loop and the
keyboard interrupt. This directory holds TLA+ modules that model its parts, the
TLC configurations that check them on small instances, and proofs checked by
TLAPS. Paths below are relative to the root of the repository.

## 1. Inventory

| part | source | state | operations |
|---|---|---|---|
| keyboard queue | `kernel/drivers/kb.c` | `input_queue`, `queue_idx`, `modifiers` | `kb_key_pressed`, `kb_key_released` (interrupt), `vconsole_read` (main loop) |
| PS/2 decoder | `kernel/arch/i686/drivers/ps2_kb.c` | `release_next`, `ignore_next`, `scancode_plane`, `scancode_set` | `ps2_key_pressed` (interrupt) |
| PS/2 setup | same file | the controller's configuration, the keyboard's scancode set, the interrupt gate and mask | `controller_setup`, `ps2_kb_driversetup` |
| memory manager | `kernel/arch/i686/mem.c` | `phys_page_bitmap`, `lower_bound`, `upper_bound`, page directory and page tables | `mem_init`, `mem_init_regions`, `mem_set_used`, `mem_map`, `mem_map_range`, `mem_alloc` |
| boot | `kernel/arch/i686/boot/` | the boot loader's tags, where the RAM disk is | `_start`, `hlinit` |
| heap | `libc/arch/i686/malloc.c` | the chain of block headers | `malloc`, `free` |
| tmpfs, files | `kernel/fs/tmpfs.c` | the list of blocks and the size of a file | `tmpfs_read`, `tmpfs_write` |
| tmpfs, directories | same file | inodes, link counts, lists of entries | `tmpfs_mount`, `tmpfs_create`, `tmpfs_lookup`, `tmpfs_readdir`, `tmpfs_destroy` |
| virtual console | `kernel/arch/i686/drivers/tty.c` | text buffer, position, attribute | `tty_init`, `tty_putchar`, cursor |
| drivers and devices | `kernel/drivers/driver.c`, `char/`, `block/`, `arch/i686/drivers/char/` | tables by major number, the table of RAM disks | registration, dispatch, `null`, `zero`, `full`, `urandom`, `port`, `tty`, RAM disk |
| interrupts | `kernel/arch/i686/interrupts.c`, `.s` | gates, masks of the two controllers, the processor's interrupt flag | `setup_interrupts`, `set_isr`, `pic_set_mask`, `pic_clear_mask`, `pic_eoi`, stubs and exception handlers |
| panic | `kernel/panic.c` | none | `panic` |
| library | `libc/string.c`, `libc/stdio.c` | none | string and memory functions, `printf` |

How they interact: `ps2_key_pressed` runs in the keyboard interrupt, decodes one
byte and calls `kb_key_pressed` or `kb_key_released`; these share `input_queue`
and `queue_idx` with `vconsole_read`, which the main loop of `hlinit` calls with
interrupts enabled. `hlinit` calls the memory manager, then the initcalls and the
file system, uses three device files and then echoes the console for ever; `malloc` extends the heap with `mem_alloc`, and tmpfs allocates
everything it stores with `malloc`. Files of a device type are passed on to the
driver tables, these by major number to a driver and those by minor number to a
device. `printf` writes to the console in the main loop, and also in the keyboard
interrupt when it meets an unknown scancode; both share the text buffer, the position
and the cursor registers. All handlers depend on the gates and masks of
`interrupts.c`.

What is hard to test in it:

- the interrupt handler changes the queue between any two accesses of the reader,
  and no lock or `cli` keeps it out;
- one key is up to six bytes and as many interrupts, with the state between them
  in three static variables;
- setup polls a controller whose answers do not say what they answer, while keys
  may be pressed and the keyboard may ask for a byte again;
- the console is written to by the main loop and by the handler, which may come between
  the check of the position and the scrolling that follows from it, or between the
  four port writes that set the cursor;
- interrupts are enabled before any driver has set its gate, with lines that may be
  raised already, and an interrupt of the second controller has to be ended at two;
- device numbers, block numbers and port numbers are checked at several places, each
  with its own off-by-one or its own width;
- the memory manager is used before it knows the memory map, and must keep every
  frame for a single purpose until memory is exhausted;
- heap and file blocks are delimited by arithmetic on sizes that is wrong only at
  some boundaries and in some orders of calls.

What makes each part correct:

- queue: indices stay in bounds whenever the handler runs, characters arrive in
  order, once, and eventually, and only a full queue throws any away;
- decoder: each sequence is reported once, as the right key and direction, and
  the character is the one the user meant; no modifier sticks;
- setup: it ends, and if it succeeds the driver and the keyboard agree;
- memory: mappings and frames that are in use are left alone, a frame has one
  owner, and only memory that the boot loader declared usable is handed out;
- heap: allocations are large enough, mapped and disjoint;
- console: the position stays on the screen, the screen shows what was printed, the
  cursor is where the position is;
- interrupts: no line is delivered before its handler is in place, handlers do not
  nest, every interrupt ends, a driver changes its own line only;
- devices: requests reach their device and no other, disks hold what was written,
  no more is stored than was asked for;
- `printf` and `string.c`: a number that is printed means its argument, and counts,
  copies and comparisons are exact;
- files: an array of bytes; directories: a tree with unique names and right link
  counts.

`PROJECT.json` lists the components, the hazards with the line where each one
bites, and for every definition the lines of code that it models.

## 2. Modules and how they correspond to the code

**`Keyboard`** is `kb.c`. A call of `kb_key_pressed` or `kb_key_released` is one
step, since the handler runs behind an interrupt gate on one processor.
`vconsole_read` is a step for every access to shared variables: `ReadStart` loads
`queue_idx`, `ReadCopy` is an iteration of `memcpy`, `ReadRest` loads `queue_idx`
again for the third argument of `memmove`, `ReadMove` and `ReadStore` are the load
and the store of an iteration of `memmove`, `ReadDone` is `queue_idx -= n`, one
instruction in the build. A character in the queue is represented by its position
in the history `typed`, so that loss, repetition and order can be stated.
`races` counts the characters that arrived while a read was exposed: while it
moves the rest of a queue whose length it knows already, or, for a full queue that
the handler has to shift, from its first copied character on.

**`Ps2Keyboard`** extends `Keyboard` with the handler of `ps2_kb.c`. The user and
the keyboard are external: they put the byte sequences of scancode sets 1, 2 and 3
on a wire, each with the event and the character that the handler ought to
produce. `ps2_key_pressed` takes one byte; the translation tables are cut down to
the keys that the instances press.

**`Interrupts`** has the functions of `interrupts.c` as actions on the gates, the masks
and the interrupts in service, the last two as bits of the first or the second
controller, and, external, when a line is delivered and what that does. An absent gate
raises an exception, whose handler panics. The module has no specification of its own:

**`Ps2Setup`** extends it with its callers: `setup_interrupts`, then `controller_setup`
and `ps2_kb_driversetup`, a step per access to the controller, and afterwards drivers
of other lines that set a gate, unmask and mask. The other devices may raise their
lines at any time, from the start. `cfg_clear` and `cfg_set` are two steps each, since keys may come in
between. The controller and the keyboard are external: the output buffer is a
queue of bytes without sender; the keyboard may ask again for any byte, may lack
set 3, and both self tests may fail.

**`Console`** is `tty.c`. The main loop takes a step for each access to what it shares
with the handler, as compiled: `tty_putchar` loads `pos` once (`LoadPos`), stores the
character (`PutVisible`), stores the new position (`Advance`, `PutControl`), and decides
whether to scroll from its own copy; `tty_scroll` moves, blanks and then subtracts from
`pos` in memory. `tty_set_cursor` is its four port writes. The handler prints a whole
message while the main loop stands still, a character per step. `log` is what was printed
since the screen was cleared; the reference (`Paper`) is a roll of paper of which the
screen shows the end.

**`Stdio`** is `vprintf` as a function: a format and its arguments give a sequence of
writes, one call of `vconsole_write` each, which `MCConsole` lets `Console` carry out. Its
reference reads the text of a number back. **`Strings`** has the loops of `string.c` that the
kernel uses, on a memory that is a function from addresses to bytes: those that copy are
functions of the number of iterations done, those that search end at the first place
that ends them. **`ConsoleLibrary`** puts `Console` and `Strings` together, since
`tty_scroll` is made of `memmove` and `memset`.

**`Devices`** is what is behind a device file: the switch on the type in `tmpfs.c`,
`driver.c`, the memory devices, the terminals and the RAM disks. A request yields what it
returns, what it stores in the caller's buffer and the devices' new state. The RAM disks
are parts of one memory, so a block behind the end of one may be in another. The callers
are the end of `hlinit` (`add_ramdisk`, the initcalls in any order, the three device
files, the echo loop) and, between two echoes, arbitrary requests. `hlinit` adds one
RAM disk at most; the model lets it add more, so that the table fills.

**`Memory`** has one operator per function of `mem.c`, from a state of the manager
to the next. Addresses are page and frame numbers, a page table is a range of
pages, flags other than presence are left out. Where the code does something
surprising the operator does it too: `is_virt_region_used` gives up at the first
absent table, the `memset` for a new table starts at the page's own entry, results
of `alloc_phys` are not checked. **`MemoryBoot`** calls them in the order `hlinit`,
`tty_init` and `malloc` do, for all tags in all orders.

**`Heap`** is `malloc` and `free`, with addresses in units of 16 bytes. Its headers
are a function from addresses, what lies between them is the users' data. A step
that takes such data for a header ends the behaviour as `derailed`; a write through
the null pointer that `mem_alloc` returned ends it as `null`. Both happen in the
code; what follows is not defined by it.

**`TmpfsFile`** is `tmpfs_read` and `tmpfs_write` on a regular file, block by
block: the bytes that the loops copy too much are `Stray`, the `nextblk` of a block
allocated in the loop is null or wild. **`ByteFile`** is the abstract file: an array
of bytes. It says which writes are exact (no gap behind the end of the file, and
within one block or up to the end of the file) and bounds what others may damage.

**`TmpfsTree`** is the rest of `tmpfs.c`: inodes with their type, link count and list
of entries. The link count wraps like `nlink_t`. The root has no type, as in
`tmpfs_mount`, and no entries `.` and `..`.

Operators whose comment starts with "Mutant:" are not part of the model. Each one
is a plausible mistake in the definition that follows it; `PROJECT.json` pairs each
property with a mutant that violates it, as evidence that the property depends on
the code.

## 3. Runs

| run | instance | states | result |
|---|---|---|---|
| `kb_queue` | queue of 3, reads of 2, five characters typed | 320 thousand | holds |
| `kb_loss` | the same with three characters | | violated: see 5 |
| `ps2_decode` | six keys, two down at once, 2, 6 or 4 bytes on the wire in set 1, 2 or 3 | 366 thousand | holds |
| `ps2_setup` | two keys, two requests to send again, all hardware, lines 1, 2, 8 and 9, two interrupts of others | 663 thousand | holds |
| `console` | two lines of four columns, three texts, two messages of the handler | 91 thousand | holds |
| `devices` | addresses modulo 16, four ports, up to two RAM disks, two requests | 98 thousand | holds |
| `mem_boot` | tables of 3 pages, 16 frames, heap requests up to 4 pages | 2 thousand | holds |
| `mem_ramdisk` | the same, RAM disk in available memory | | violated: see 5 |
| `heap` | three pages of four units, requests for none, two and four units | 180 thousand | holds |
| `heap_merge` | two pages | | violated: see 5 |
| `tmpfs_file` | blocks of two bytes, positions to 3, lengths from 0 to 4 | 55 thousand | holds |
| `tmpfs_tree` | four inodes, two mounts, link counts modulo 3 | 31 thousand | holds |

What the passing runs show (each module's type invariant is the first conjunct of one of
its invariants, except in `Keyboard`, where it is checked and proved by itself):

- `kb_queue`: `ReadWithinQueue` - whatever the handler does, what a read copies and
  moves is inside the queue and no subtraction underflows. `OnlyTypedDelivered`.
  `DeliveredInOrder` and `NoSilentLoss` - without a race nothing is reordered,
  repeated or lost except by a full queue. `LossBoundedByRaces` - each race costs
  one character at most. `EventuallyRead` - the main loop gets every character.
- `ps2_decode`: `ReportedAsSent` and `TypedAsMeant` on every interrupt,
  `ModifiersMatchKeys` whenever the wire is empty, and `NoStuckModifier`.
- `ps2_setup`: `SuccessAgrees` - success means that both sides use the same set,
  untranslated, with port and interrupt enabled; `QuietSetupSucceeds`; `SetupReturns`.
  `HandlerReady` - no line is delivered before its gate is set, so nothing panics.
  `InServiceMatchesHandlers` - handlers do not nest, and both controllers are told of the
  end of an interrupt; `OtherLinesServed` - so every line whose driver unmasked it is
  served again and again, with the exception of line 8 (see 5).
- `console`: `PosOnScreen` - wherever the handler interrupts, `pos` does not underflow, is
  on the screen again after each character, and no character is stored behind the
  screen by the main loop; `BehindScreen` - the handler does so only while the main loop
  scrolls. `ScreenShowsLog` - as long as no character is interrupted the screen shows
  the end of what was printed, and clearing the screen repairs it after a race.
  `CursorAtPos` - a cursor that a handler confused is right after the next write.
  `PrintfExact` and `LibraryExact` check `Stdio` and `Strings` against their references
  in the initial state.
- `devices`: `BootRequestsSucceed` - in every order of the initcalls the requests of
  `hlinit` are carried out, and the echo loop passes on no error code as a length.
  `DisksHoldWritten`, unless a write went behind the end of a disk.
  `ReadsBounded` - character devices store what was asked for, and a block that is read
  starts at the end of the disk at the latest, whatever the position.
  `PortsWrittenExactly`.
- `mem_boot`: `MappingsKept`, `FramesOwnedOnce`, `AllocRespectsMap`, and
  `FaultsOnlyWhenExhausted`: the odd `memset` and the ignored results do no harm in
  the order the kernel calls them until memory runs out; then `mem_alloc` returns the
  address of pages that are not mapped.
- `heap`: `BlocksTileHeap` until a merge, `AllocationsDisjoint` also after merges, for as
  long as no header is missed.
- `tmpfs_file`: `ImplementsByteFile`, the refinement, for every caller;
  `BlocksHoldFile`; `ReadOverrunBounded` - a read writes behind its caller's buffer only
  if what it returns lies in more than one block, and then fewer bytes than the last of
  them has left.
- `tmpfs_tree`: `NlinkCountsEntries`, modulo the width of the count; `NamesUnique`;
  `DirectoriesFormTree` - every directory but the root has exactly one entry with a name
  of its own, in the directory its `..` leads to, so that none of the three insertions of
  `tmpfs_create` may be missing or go elsewhere; `EntriesKept`.

### Bounds

All bounds are constants of the modules. A queue of three with reads of two has
reads that leave something behind, a queue that is shifted during each phase of a
read and between a load and a store, and reads longer than the queue; five
characters fill it, overflow it and follow a lost one. Six bytes are the longest
sequence of set 2 (the release of PrtSc), and the room in sets 1 and 3 is that of two
keys; two keys down are a modifier and a key. Page tables
of three pages make the heap, the RAM disk and a single request cross tables, and
sixteen frames run out. A heap of three pages has blocks of every relation: split and
not, empty, first, middle and last, merged with either neighbour and both. Blocks of two
bytes with positions to three and lengths to four give writes inside a block, across
one and two boundaries, at the end of a file that fills its blocks, with a gap and
too far behind the end. Link counts modulo three wrap within four inodes.

A screen of two lines scrolls with the second newline, by one line or, when a handler
adds a line while the main loop is about to scroll, by more than it computed; tab stops
every two columns and cursor registers of four values give both bytes of a position
something to hold. The texts wrap, end in a newline, contain a tab, an escape and a form
feed; two messages let a handler hit a character and, later, the cursor. `vprintf` is
checked on every value of eight bits, for which the array of digits has the three
cells that octal needs, as eleven are needed for 32. Memory of six bytes has every
overlap of two copies. Two disks, one with half a block at its end, are next to each
other, so that a block behind the first is in the second; with addresses modulo 16 the
product of block number and size wraps, and position 16 is cut to block 0. Lines 1, 8
and 9 are one of the first controller, the first of the second, which the mask functions
take for one of the first, and one beyond it; line 2 is the cascade.

### Fairness

`Keyboard!FairSpec` has weak fairness of `vconsole_read`: the main loop is
`while (1)` and the handler always returns, so the processor gets back to it.
`Ps2Spec` has weak fairness of the handler: the main loop runs with interrupts
enabled, so a pending interrupt that is not blocked by a missing end of interrupt is
delivered. `Ps2Setup` has weak fairness of the driver, which polls, of the handlers,
which are finite, and of the delivery of each line that stays raised: the lines are few
and the processor takes an interrupt as soon as it may. `Console` and `Devices` have no
liveness properties. Nothing is assumed of the user, and the keyboard only answers what it is
sent.

### Limits of what the setup run claims

`SuccessAgrees` and `SetupReturns` are stated for setups that at most one key press
disturbed, on a keyboard that then asked for nothing again. A single byte shifts all
answers by one, and setup fails cleanly. With more disturbance the code promises
less: a byte of a key can be taken for the configuration byte, and answers and
requests to send again can chase each other. The run explores these behaviours, the
properties do not speak of them.

## 4. Proofs

Each proof module extends the module it is about. The theorems hold for every value of
the constants that satisfies the assumptions of the modules; `PROJECT.json` lists them
with the property that each one states, which is always one that a run checks as well.
Every inductive invariant was checked by TLC on the run's instance before it was proved.

**`KeyboardProofs`**, for every queue length and read size: `TypeCorrect`,
`ReadsWithinQueue`, `OnlyTypedAreDelivered`, `DeliveryIsOrdered`, `NothingLostSilently`.
The first two follow from `Bounds`: a character that arrives never lowers `queue_idx`,
so a value that the reader loaded earlier stays a lower bound. The others need `IInv`,
which adds `QueueFilled` (the cells below `queue_idx`, the caller's buffer and the
character between load and store hold typed characters), `BufLength` (ties the loop
counter to what was copied) and `Fifo` (which character each cell holds as long as there
was no race). Neither order nor loss is inductive without them.

What a race costs, `LossIsBounded`, needs a bound that holds in the middle of a read as
well: `LossBound` counts the characters that are in no place from which a read can still
deliver them (`Lost`) and those that arrived behind the part of the queue that is being
moved and may be cut off when it ends (`Late`). A step that stores over a cell has copied
it before, so only an arrival raises the sum, by one, when it raises `races` too.

For the decoder the proofs are in the same module: `ModifiersAlwaysMatch`,
`AllReportedAsSent` and `AllTypedAsMeant`, for every number of keys down, every length of
the wire and each scancode set. `Ps2Inv` says where the bytes on the wire lead: there is a
path of decoder states and a path of modifiers, from the present ones to no sequence
in progress and to the modifiers of the keys that are down, on which each byte is decoded to
the event it carries. A key extends the path at its end, an interrupt takes it one byte
further. `Ps2ImplementsKeyboard` is the refinement: an interrupt calls
the queue for at most one key of the keyboard, so all that is proved of the queue holds with the
decoder in front of it.

**`ConsoleProofs`**, for every screen, tab size and text: `PosOnScreenHolds`,
`BehindScreenHolds`, `CursorAtPosHolds`. What is missing in `PosOnScreen` is that the main
loop scrolls one line at a time and finds `pos` behind the first line, however much a
handler printed and scrolled in between (`OnScreen`), and that there is a character
wherever `tty_putchar` takes one (`TextLeft`). The other two have to know what the main
loop was at when the handler that prints now interrupted it.

`ScreenAlwaysShowsLog` compares the screen with the roll of paper, whose positions are a
recursive function of the log. The log grows by one character per step, so the
invariant carries the function along: `Roll` says that exactly one function satisfies
the recursive definition, and that it ends behind everything printed. `Shown` says, for
each point of `tty_putchar`, which cells show the log and which are a line ahead or
behind.

The same module holds what is proved of the two libraries. `MemmoveExact` is about any
memory, length and overlap; `ScrollIsMemmove` ties it to the console: the step that
moves the lines is `memmove` with the arguments of `tty_scroll`. `NamesExact` is about names
of any length, and `LibraryAlwaysExact` states the property of the run for every size of memory
and every alphabet. `DigitsReadBack`, `DigitsFitArray` and `PutiradixExact` are about
`putiradix`: its digits mean the number in radix 8, 10 and 16, 11 cells hold those of
32 bits, and the count it returns is that of the characters printed. (The radices are those
`vprintf` passes, and division by each is linear for the solver.)

**`Ps2SetupProofs`**, for every set of lines, and any number of key presses, requests to
send again and interrupts of others: `InServiceHolds`, `HandlerReadyHolds`,
`SuccessAgreesHolds`, `QuietSetupSucceedsHolds`. The first two depend on each other and on
the order in which gates and masks are set: `GatesInv` and `ServiceInv` are inductive only
together. For the others the whole conversation matters: `QuietTalk` and `ShiftedTalk` say
which bytes wait to be read at each point of setup, without a key press and with one.

**`MemoryBootProofs`**, for every layout of the address space, memory size, memory map
and RAM disk: `FramesOwnedOnceHolds`, `FaultsOnlyWhenExhaustedHolds`, `MappingsKeptHolds`,
`AllocRespectsMapHolds`. The functions of `mem.c` are loops over pages, and their
surprises are harmless only because of where the callers start. The invariant says why:
page tables fill from their first page (so the odd `memset` clears the whole table), the
heap has no gaps while there is memory, and what follows it is free (so the odd search
returns a free region), unless the RAM disk is there from the first page of the heap on.

**`HeapProofs`**, for every page size, heap and set of sizes: `BlocksTileHeapHolds`,
`AllocationsDisjointHolds`. `Ordered` says what is left after merges: blocks do not reach
into each other or behind the mapped pages, and back links lead to the header before. What
the search computes is not needed: `mem_alloc` refuses to map a page twice, so the heap
grows only behind its last block, wherever the search stopped.

**`TmpfsFileProofs`**, for every block size and set of buffers: `BlocksHoldFileHolds`,
`ReadOverrunBoundedHolds`, and the refinement `ImplementsByteFileHolds`. `FileInv` adds to
`BlocksHoldFile` that the list of blocks is a sequence with at least one block. For the
refinement each byte of the abstract file is found where the quotient and the remainder of
its position say. `AskedIsCopied` and `CopiedBehind` say which bytes a write copies: all that
were asked for and, behind them, only bytes of the last of several blocks. Each call is then
the step of `ByteFile` with the same arguments, or a stutter if it goes wrong.

**`TmpfsTreeProofs`**, for every set of names, number of inodes and width of the link
count: `NlinkCountsEntriesHolds`, `NamesUniqueHolds`, `DirectoriesFormTreeHolds`,
`EntriesKeptHolds`. `Shape` says with which entries a directory starts and that every
other entry leads to an inode that was created later; `Linked` that each inode but
the root has exactly one such entry, which a directory needs while it is being created and
which a later `tmpfs_create` leaves alone because its own inode is new; `Counted` is the
link count as the cardinality of a set of entries, which one `add_to_dir` enlarges by one.

**`DevicesProofs`**, for every size of the tables, of memory and of the bus, every
geometry of RAM disks and all requests: `BootRequestsSucceedHolds`,
`DisksHoldWrittenHolds`, `ReadsBoundedHolds`, `PortsWrittenExactlyHolds`. `DriversInv`
says which driver is registered where, for any order of the initcalls, and that all are
there when the first request comes. `DiskInv` says that disks do not overlap and have a
row of contents each. With that, a write of a block is shown to change this block and no
other one of any disk (`BlockWrite`): two blocks of a disk are apart by the arithmetic of
block numbers, two disks because they do not overlap, and inside a disk the arithmetic
modulo the word does not wrap.

Assumptions that the proofs turned out to need, and that are now in the modules: the
messages of the handler contain no form feed (`MessagesAssumption`; no `printf` in the
handler has one); there is at least the inode of the root; buffers hold bytes and are not
longer than the largest request (the bound of the model); the kernel's frames leave
something of the area below `ProtEnd` free, and a RAM disk is in physical memory
and fits between kernel and devices (`MachineAssumption`, `RamdisksAssumption`); the minor
numbers of the serial ports are below the reserved ones, 128 in the code
(`DevicesAssumption`); the keys of the keyboard are some of those whose sequences
`Ps2Keyboard` gives (`SentKeysAssumption`). TLC evaluates all of them on the instances of the runs.

The provers cannot use the library's induction theorems, which take a predicate as a
parameter. Where a loop or a recursive function has to be followed (the loops of `mem.c`,
the seeds of `urandom`, copies, digits), the proofs take the smallest iteration at
which the claim fails, which exists by well-foundedness of the natural numbers, and derive
a contradiction; `Induction` and `StrongInduction` in `ConsoleProofs` say this once, for
a set instead of a predicate. That a recursive function exists at all is proved from a
closed form (copies) or by extending it one argument at a time (digits).

Only model-checked are

- the liveness properties `EventuallyRead`, `NoStuckModifier`, `SetupReturns` and
  `OtherLinesServed`: temporal reasoning under fairness is out of the prover's reach;
- `PrintfExact`: its numbers are proved (see above), but how `vprintf` scans a format,
  and the reference that reads a text back, are folds of the community modules with an
  operator as a parameter, whose defining equations the provers cannot derive;
- the properties that the code violates (section 5).

## 5. Where the code and its comments disagree

| run | what happens |
|---|---|
| `kb_loss` | A character that arrives while `vconsole_read` moves the rest of the queue is appended behind the part that is moved, and lost; the comment says only a full queue throws inputs away. |
| `mem_ramdisk` | The RAM disk's frames are mapped but not marked as used: the first page malloc asks for gets the first of them, although other frames are free; the header says `mem_alloc` allocates the pages it maps (`mem.h:97`). With a call of `mem_set_used` for the module's frames in `TagModule` the property holds on this instance. |
| `heap_merge` | Merging drops a header's 16 bytes, and later searches miss the next header; the comment says merging makes one large allocation possible again. |

More is visible in the code and the models without a run of its own:

- `tty_init` allocates a frame before `mem_init_regions`, which its comment forbids
  (`AllocRespectsMap` speaks only of the time after the tags).
- `mem_alloc` returns its address when frames run out and pages are not mapped; its
  header promises the address only on success (`FaultsOnlyWhenExhausted` says when).
- `phys_page_bitmap` has bits for 2 GiB, and `mem_set_used` marks frames up to 4 GiB.
- A write that starts behind the end of the last block of a file dereferences a null
  pointer (`WriteBeyond`).
- A handler that prints while the main loop scrolls stores a character behind the
  screen, and one that prints in the middle of a character makes it or the handler's
  text disappear (`BehindScreen`, `ScreenShowsLog` state the limits of that).
- Line 8 cannot be masked or unmasked: the mask functions take it for a ninth bit of the
  first controller (`MaskBit`; `OtherLinesServed` excepts it).
- A read or write of the ports that starts at port 0 transfers nothing (`PortCount`).
- `ramdisk_readblk` accepts one block too many and `ramdisk_writeblk` any
  (`ReadsBounded`, `DisksHoldWritten`); a block read ignores the length of the
  caller's buffer (`ReadsBounded`).
- Without a RAM disk `hlinit` prints a buffer that was never filled.
- `stdio.h` calls the conversion of `%o` hexadecimal; an unknown specifier is printed
  but not counted (`Convert`).
- `halt_loop` leaves interrupts enabled, so the keyboard still works after a panic.

## 6. Not modelled

- Timing, and the hardware below the ports. Of several interrupts that may be delivered
  any one is, so no property rests on the priorities of the controllers.
- The GDT and the switch to protected mode and paging: straight-line machine setup,
  except for the mappings, which are the initial state of `MemoryBoot`.
- Exceptions other than the one an absent gate raises: no step of the models divides by
  zero or faults, except where a model says that a behaviour ends.
- The functions of `string.c` that nobody calls (`strncpy`, `strcat`, `strncmp`, `strchr`,
  `strstr`, `memchr`, `memcmp` and their like).
- Physical memory beyond 2 GiB.
- Permissions and owners of inodes (stored, never looked at), colours and the wording of
  messages. A `panic` is a terminal state of the main loop.
- Where the boot loader puts its tags, which `hlinit` reads while frames are handed out.
- The codes `tmpfs_create` returns: its callers ignore them, and the models tell success
  from failure by what was created.
- What undefined behaviour leads to after it happened (a wild pointer, user data taken
  for a header).

## 7. Plan

Done, in this order: `Keyboard` with its proofs, `Ps2Keyboard` on top of it,
`Ps2Setup`, `Memory` and `MemoryBoot`, `Heap`, `TmpfsFile` with `ByteFile`,
`TmpfsTree`, then `Console`, `Stdio` and `Strings`, `Devices`, and `Interrupts` below
`Ps2Setup`; then the proofs about all of these, the decoder and the two libraries last.
Left:

1. The scan of `vprintf` for every format: a recursive function in place of the fold, and the
   claim that the count is the length for every format without unknown specifiers.
2. The composition of `Heap` with `TmpfsTree`: the buffer for a name is one byte too
   short, and its terminating zero reaches the next header.

## 8. Running

From this directory, with the tools of TLA+ and TLAPS:

    tlc -workers 2 -config MCKeyboard.cfg MCKeyboard
    tlapm KeyboardProofs.tla

Each run of `PROJECT.json` names its module and configuration. The proof modules are
`KeyboardProofs`, `ConsoleProofs`, `Ps2SetupProofs`, `MemoryBootProofs`, `HeapProofs`,
`TmpfsFileProofs`, `TmpfsTreeProofs` and `DevicesProofs`; each takes one to a few minutes from
scratch.
