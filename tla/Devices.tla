------------------------------- MODULE Devices -------------------------------
(***************************************************************************)
(* Device files: tmpfs passes a read or write of a device inode on to the  *)
(* driver tables of kernel/drivers/driver.c, these by major number to the  *)
(* drivers of memory devices, terminals and RAM disks, and those by minor  *)
(* number to a device.  The callers are the end of hlinit: it adds the RAM *)
(* disk, runs the initcalls that register the drivers, uses its three      *)
(* device files and then echoes the console for ever; between two echoes   *)
(* other requests to any device number may come.                           *)
(*                                                                         *)
(* Error codes are negative, as in the code.  A write is of one value,     *)
(* repeated.  The console itself is module Console, its input Keyboard:    *)
(* here a read of it returns any number of characters.                     *)
(***************************************************************************)
EXTENDS Integers, Sequences, FiniteSets

CONSTANTS
    MajorMod,       \* major numbers, 256 in the code
    SerialMinors,   \* minors of tty from here on are reserved, 128 in the code
    MAX_RAMDISK,    \* 8 in the code
    WordMod,        \* one more than the largest address, 2^32 in the code
    PortMod,        \* one more than the largest port, 2^16 in the code
    Values,         \* what is written
    Disks,          \* the RAM disks that may be added: blksize, bufs, size
    Positions, Lengths, Minors,  \* the arguments of requests
    MaxRequests     \* bound: requests beside those of hlinit

ASSUME DevicesAssumption ==
    /\ MajorMod \in Nat \ {0, 1, 2} /\ SerialMinors \in Nat \ 0..2
    /\ MAX_RAMDISK \in Nat \ {0}
    /\ WordMod \in Nat \ {0} /\ PortMod \in Nat \ 0..3
    /\ \A d \in Disks : /\ d.blksize \in 1..WordMod /\ d.bufs \in Nat /\ d.size \in Nat
                        /\ d.bufs + d.size <= WordMod
    /\ Positions \subseteq Nat /\ Lengths \subseteq Nat /\ Minors \subseteq Nat
    /\ Values # {} /\ MaxRequests \in Nat

VARIABLES
    char_drivers, block_drivers,    \* major |-> driver, "none" at first
    ramdisks,       \* the disks added so far; its length is rd_idx
    seed,           \* of urandom
    mem,            \* address |-> value: the memory the RAM disks are part of
    ports,          \* port |-> value last written to it
    pc,             \* where hlinit is
    initcalls,      \* initcalls that have not run
    last,           \* the last request and its result
    requests,       \* requests still to come
    contents,       \* history: value last written to each block of each disk
    strayed         \* history: some write was behind the end of its disk

tables == <<char_drivers, block_drivers, ramdisks>>
vars == <<tables, seed, mem, ports, pc, initcalls, last, requests, contents, strayed>>

NULL   == 0
EPERM  == 5
ENODEV == 10
EISDIR == 8
EFAULT == 6
ENOSPC == 7

CHR_MEMDEV  == 1
CHR_TTY     == 2
BLK_RAMDISK == 1

DEV(major, minor) == minor * MajorMod + major
MAJOR(dev) == dev % MajorMod
MINOR(dev) == dev \div MajorMod

Smaller(a, b) == IF a < b THEN a ELSE b

\* What a request returns, the bytes it stores in the caller's buffer, and
\* the state of the devices after it.
Same(ret) == [ret |-> ret, buf |-> <<>>, seed |-> seed, mem |-> mem, ports |-> ports]
Filled(bytes) == [Same(Len(bytes)) EXCEPT !.buf = bytes]
-----------------------------------------------------------------------------
(***************************************************************************)
(* The memory devices.                                                     *)
(***************************************************************************)
MEMDEV_NULL    == 1
MEMDEV_ZERO    == 2
MEMDEV_FULL    == 3
MEMDEV_PORT    == 4
MEMDEV_URANDOM == 6

\* Mutant: the number of bytes asked for is not looked at.
PortCountAll(pos, n) == PortMod - pos

\* Mutant: the last port is left out.
PortCountShort(pos, n) == Smaller(PortMod - 1 - pos, n)

\* How many ports are left on the bus, in 16 bits: from port 0 none.
PortCount(pos, n) == Smaller((PortMod - pos) % PortMod, n)

port_read(pos, n) ==
    IF pos >= PortMod THEN Same(-EFAULT)
    ELSE Filled([k \in 1..PortCount(pos, n) |-> ports[pos + k - 1]])

port_write(pos, n, v) ==
    IF pos >= PortMod THEN Same(-EFAULT)
    ELSE [Same(PortCount(pos, n)) EXCEPT
             !.ports = [p \in DOMAIN ports |->
                            IF p >= pos /\ p < pos + PortCount(pos, n) THEN v ELSE ports[p]]]

NextSeed(s) == (9735 * s + 13997) % 19468

urandom_read(n) ==
    LET seeds[k \in 0..n] == IF k = 0 THEN seed ELSE NextSeed(seeds[k - 1])
    IN  [Filled([k \in 1..n |-> seeds[k] % 256]) EXCEPT !.seed = seeds[n]]

null_read     == Same(0)
null_write(n) == Same(n)
zero_read(n)  == Filled([k \in 1..n |-> 0])
full_write    == Same(-ENOSPC)

memdev_read(minor, pos, n) ==
    CASE minor = MEMDEV_NULL                  -> null_read
      [] minor \in {MEMDEV_FULL, MEMDEV_ZERO} -> zero_read(n)
      [] minor = MEMDEV_PORT                  -> port_read(pos, n)
      [] minor = MEMDEV_URANDOM               -> urandom_read(n)
      [] OTHER                                -> Same(-ENODEV)

memdev_write(minor, pos, n, v) ==
    CASE minor \in {MEMDEV_NULL, MEMDEV_ZERO, MEMDEV_URANDOM} -> null_write(n)
      [] minor = MEMDEV_FULL                                  -> full_write
      [] minor = MEMDEV_PORT                                  -> port_write(pos, n, v)
      [] OTHER                                                -> Same(-ENODEV)
-----------------------------------------------------------------------------
(***************************************************************************)
(* Terminals.  The COM ports are ports of the same bus.                    *)
(***************************************************************************)
COM == <<PortMod - 1, PortMod - 2>>

serial_read == Same(0)

serial_write(port, n, v) ==
    IF port > 2 THEN Same(-ENODEV)
    ELSE IF n = 0 THEN Same(0)
    ELSE [Same(n) EXCEPT !.ports = [ports EXCEPT ![COM[port]] = v]]

tty_read(minor, n) ==
    IF minor = 0 THEN {Same(k) : k \in 0..n}
    ELSE IF minor < SerialMinors THEN {serial_read} ELSE {Same(-ENODEV)}

tty_write(minor, n, v) ==
    IF minor = 0 THEN Same(n)
    ELSE IF minor < SerialMinors THEN serial_write(minor, n, v) ELSE Same(-ENODEV)
-----------------------------------------------------------------------------
(***************************************************************************)
(* RAM disks.                                                              *)
(***************************************************************************)
Added(m) == m < Smaller(Len(ramdisks), MAX_RAMDISK) /\ ramdisks[m + 1].bufs # NULL

ramdisk_getblksize(m) == IF Added(m) THEN ramdisks[m + 1].blksize ELSE 0

\* Mutant: a block is addressed by its number.
BlockStartUnscaled(m, blk) == ramdisks[m + 1].bufs + blk

\* &bufs[blk * blksize], in the arithmetic of 32 bits.
BlockStart(m, blk) ==
    (ramdisks[m + 1].bufs + blk * ramdisks[m + 1].blksize) % WordMod

\* Mutant: the block number is not checked.
ReadableUnchecked(m, blk) == TRUE

Readable(m, blk) == blk <= ramdisks[m + 1].size \div ramdisks[m + 1].blksize

ramdisk_readblk(m, blk) ==
    IF ~Added(m) THEN Same(-ENODEV)
    ELSE IF ~Readable(m, blk) THEN Same(-EFAULT)
    ELSE Filled([k \in 1..ramdisks[m + 1].blksize |->
                    mem[(BlockStart(m, blk) + k - 1) % WordMod]])

ramdisk_writeblk(m, blk, v) ==
    IF ~Added(m) THEN Same(-ENODEV)
    ELSE LET size  == ramdisks[m + 1].blksize
             cells == {(BlockStart(m, blk) + k) % WordMod : k \in 0..(size - 1)}
         IN  [Same(size) EXCEPT !.mem = [a \in DOMAIN mem |->
                                            IF a \in cells THEN v ELSE mem[a]]]
-----------------------------------------------------------------------------
(***************************************************************************)
(* The driver tables, and the switch on the type of an inode.  A position  *)
(* of 64 bits becomes a block number of 32.                                *)
(***************************************************************************)
read_char(dev, pos, n) ==
    CASE char_drivers[MAJOR(dev)] = "memdev" -> {memdev_read(MINOR(dev), pos, n)}
      [] char_drivers[MAJOR(dev)] = "tty"    -> tty_read(MINOR(dev), n)
      [] OTHER                               -> {Same(-ENODEV)}

write_char(dev, pos, n, v) ==
    CASE char_drivers[MAJOR(dev)] = "memdev" -> memdev_write(MINOR(dev), pos, n, v)
      [] char_drivers[MAJOR(dev)] = "tty"    -> tty_write(MINOR(dev), n, v)
      [] OTHER                               -> Same(-ENODEV)

getblksize(dev) ==
    IF block_drivers[MAJOR(dev)] = "ramdisk" THEN ramdisk_getblksize(MINOR(dev)) ELSE 0

read_block(dev, blk) ==
    IF block_drivers[MAJOR(dev)] = "ramdisk"
    THEN ramdisk_readblk(MINOR(dev), blk) ELSE Same(-ENODEV)

write_block(dev, blk, v) ==
    IF block_drivers[MAJOR(dev)] = "ramdisk"
    THEN ramdisk_writeblk(MINOR(dev), blk, v) ELSE Same(-ENODEV)

tmpfs_read(file, pos, n) ==
    CASE file.type = "IT_DIR" -> {Same(-EISDIR)}
      [] file.type = "IT_CHR" -> read_char(file.dev_type, pos, n)
      [] file.type = "IT_BLK" -> {read_block(file.dev_type, pos % WordMod)}
      [] OTHER                -> {Same(-EPERM)}

tmpfs_write(file, pos, n, v) ==
    CASE file.type = "IT_DIR" -> Same(-EISDIR)
      [] file.type = "IT_CHR" -> write_char(file.dev_type, pos, n, v)
      [] file.type = "IT_BLK" -> write_block(file.dev_type, pos % WordMod, v)
      [] OTHER                -> Same(-EPERM)
-----------------------------------------------------------------------------
(***************************************************************************)
(* Requests.                                                               *)
(***************************************************************************)
Blocks(m) == IF Added(m) THEN ramdisks[m + 1].size \div ramdisks[m + 1].blksize ELSE 0

\* The request is a write that a RAM disk carries out.
WritesDisk(file, o) == file.type = "IT_BLK" /\ o.ret > 0

Answered(op, file, pos, n, o) ==
    /\ last' = [op |-> op, file |-> file, pos |-> pos, n |-> n, ret |-> o.ret, buf |-> o.buf]
    /\ seed' = o.seed /\ mem' = o.mem /\ ports' = o.ports
    /\ UNCHANGED <<tables, initcalls>>

Read(file, pos, n) ==
    /\ \E o \in tmpfs_read(file, pos, n) : Answered("read", file, pos, n, o)
    /\ UNCHANGED <<contents, strayed>>

Write(file, pos, n, v) ==
    LET o == tmpfs_write(file, pos, n, v)
        m == MINOR(file.dev_type)
    IN  /\ Answered("write", file, pos, n, o)
        /\ contents' = IF WritesDisk(file, o) /\ pos < Blocks(m)
                       THEN [contents EXCEPT ![m + 1][pos] = v] ELSE contents
        /\ strayed' = (strayed \/ (WritesDisk(file, o) /\ pos >= Blocks(m)))

File(type, major, minor) == [type |-> type, dev_type |-> DEV(major, minor)]

tty1    == File("IT_CHR", 2, 1)
console == File("IT_CHR", 2, 0)
ram0    == File("IT_BLK", 1, 0)
-----------------------------------------------------------------------------
(***************************************************************************)
(* The end of hlinit.                                                      *)
(***************************************************************************)
Overlap(d, e) ==
    d.bufs # NULL /\ e.bufs # NULL /\ d.bufs < e.bufs + e.size /\ e.bufs < d.bufs + d.size

\* Mutant: the index is compared with the last one instead of the length.
TableFullLate == Len(ramdisks) > MAX_RAMDISK

TableFull == Len(ramdisks) >= MAX_RAMDISK

\* A full table leaves everything as it is and returns NULL_DEV.  hlinit adds
\* one disk at most; here there may be more, so that the table fills.
add_ramdisk ==
    /\ pc = "ramdisk"
    /\ \E d \in Disks :
          /\ \A k \in DOMAIN ramdisks : ~Overlap(d, ramdisks[k])
          /\ IF TableFull THEN UNCHANGED <<ramdisks, contents>>
             ELSE /\ ramdisks' = Append(ramdisks, d)
                  /\ contents' = Append(contents, [b \in 0..(d.size \div d.blksize - 1) |-> 0])
    /\ pc' \in {"ramdisk", "initcalls"}
    /\ UNCHANGED <<char_drivers, block_drivers, seed, mem, ports, initcalls, last, requests,
                   strayed>>

NoRamdisk ==
    /\ pc = "ramdisk"
    /\ pc' = "initcalls"
    /\ UNCHANGED <<tables, seed, mem, ports, initcalls, last, requests, contents, strayed>>

Register(table, major, driver) ==
    IF table[major] = "none" THEN [table EXCEPT ![major] = driver] ELSE table

\* Mutant: block drivers are entered in the table of character drivers.
register_block_driverWrongTable(major, driver) ==
    /\ char_drivers' = Register(char_drivers, major, driver)
    /\ UNCHANGED block_drivers

register_block_driver(major, driver) ==
    /\ block_drivers' = Register(block_drivers, major, driver)
    /\ UNCHANGED char_drivers

register_char_driver(major, driver) ==
    /\ char_drivers' = Register(char_drivers, major, driver)
    /\ UNCHANGED block_drivers

register_memdev_driver  == register_char_driver(CHR_MEMDEV, "memdev")
register_tty_driver     == register_char_driver(CHR_TTY, "tty")
register_ramdisk_driver == register_block_driver(BLK_RAMDISK, "ramdisk")

\* The linker decides on the order of the initcalls.
Initcall ==
    /\ pc = "initcalls"
    /\ \E driver \in initcalls :
          /\ CASE driver = "memdev"  -> register_memdev_driver
               [] driver = "tty"     -> register_tty_driver
               [] driver = "ramdisk" -> register_ramdisk_driver
          /\ initcalls' = initcalls \ {driver}
    /\ pc' = IF initcalls' = {} THEN "tty1" ELSE pc
    /\ UNCHANGED <<ramdisks, seed, mem, ports, last, requests, contents, strayed>>

\* A request of hlinit itself.
Boot(at, then) ==
    /\ pc = at
    /\ pc' = then
    /\ UNCHANGED requests

HelloLength == 2
EchoLength  == 2

WriteTty1    == Boot("tty1", "console") /\ \E v \in Values : Write(tty1, 0, HelloLength, v)
WriteConsole == Boot("console", "ram0") /\ \E v \in Values : Write(console, 0, HelloLength, v)
ReadRam0     == Boot("ram0", "echo") /\ Read(ram0, 0, EchoLength)
EchoRead     == Boot("echo", "echo_write") /\ Read(console, 0, EchoLength)
EchoWrite    == Boot("echo_write", "echo") /\ \E v \in Values : Write(console, 0, last.ret, v)

\* Any other request; a device file has number 0 until one is assigned.
Files ==
    {File("IT_DIR", 0, 0), File("IT_FIFO", 0, 0), File("IT_CHR", 0, 0)}
        \cup {File(type, major, minor) :
                  type \in {"IT_CHR", "IT_BLK"}, major \in {1, 2}, minor \in Minors}

Request ==
    /\ pc = "echo" /\ requests > 0
    /\ \E file \in Files, pos \in Positions, n \in Lengths :
          Read(file, pos, n) \/ \E v \in Values : Write(file, pos, n, v)
    /\ requests' = requests - 1
    /\ UNCHANGED pc

Init ==
    /\ char_drivers = [m \in 0..(MajorMod - 1) |-> "none"]
    /\ block_drivers = [m \in 0..(MajorMod - 1) |-> "none"]
    /\ ramdisks = <<>> /\ seed = 62521
    /\ mem = [a \in 0..(WordMod - 1) |-> 0] /\ ports = [p \in 0..(PortMod - 1) |-> 0]
    /\ pc = "ramdisk" /\ initcalls = {"memdev", "tty", "ramdisk"}
    /\ last = [op |-> "none", file |-> tty1, pos |-> 0, n |-> 0, ret |-> 0, buf |-> <<>>]
    /\ requests = MaxRequests
    /\ contents = <<>> /\ strayed = FALSE

Next ==
    \/ add_ramdisk \/ NoRamdisk \/ Initcall
    \/ WriteTty1 \/ WriteConsole \/ ReadRam0 \/ EchoRead \/ EchoWrite
    \/ Request

Spec == Init /\ [][Next]_vars
-----------------------------------------------------------------------------
(***************************************************************************)
(* Properties.                                                             *)
(***************************************************************************)

\* The first seed, and the values that NextSeed takes.
Seeds == (0..19467) \cup {62521}

\* Type invariant.
TypeOK ==
    /\ char_drivers \in [0..(MajorMod - 1) -> {"none", "memdev", "tty"}]
    /\ block_drivers \in [0..(MajorMod - 1) -> {"none", "ramdisk"}]
    /\ ramdisks \in Seq(Disks) /\ Len(ramdisks) <= MAX_RAMDISK
    /\ seed \in Seeds
    /\ mem \in [0..(WordMod - 1) -> Values \cup {0}]
    /\ ports \in [0..(PortMod - 1) -> Values \cup {0}]
    /\ initcalls \subseteq {"memdev", "tty", "ramdisk"}
    /\ requests \in 0..MaxRequests

\* In whatever order the initcalls ran and whatever other requests did, the
\* requests of hlinit are carried out in full, and the echo loop never passes
\* an error code on as a length; only the first RAM disk may be missing.
BootRequestsSucceed ==
    /\ pc = "console" => last.ret = HelloLength
    /\ pc = "ram0" => last.ret = HelloLength
    /\ pc = "echo_write" => last.ret \in 0..EchoLength
    /\ pc = "echo" /\ last.op = "read" /\ requests = MaxRequests =>
           last.ret = IF Added(0) THEN getblksize(ram0.dev_type) ELSE -ENODEV

\* The table of RAM disks is not overrun, and a RAM disk holds what was last
\* written to each of its blocks, and a read returns it, unless some write was
\* behind the end of its disk: writes are not checked and may hit other disks.
DisksHoldWritten ==
    /\ TypeOK
    /\ ~strayed =>
           \A k \in DOMAIN ramdisks : ramdisks[k].bufs # NULL =>
               LET d == ramdisks[k]
               IN  /\ \A b \in DOMAIN contents[k] : \A j \in 0..(d.blksize - 1) :
                          mem[d.bufs + b * d.blksize + j] = contents[k][b]
                   /\ last.op = "read" /\ last.file = File("IT_BLK", BLK_RAMDISK, k - 1)
                      /\ last.pos \in DOMAIN contents[k] =>
                          last.buf = [j \in 1..d.blksize |-> contents[k][last.pos]]

\* No character device stores more than it was asked for in the caller's
\* buffer, and what is returned is what was stored.  A RAM disk stores one
\* block, whatever was asked for, and this block starts at the end of the disk
\* at the latest, whatever the position: at most one block of foreign memory
\* is read.
ReadsBounded ==
    last.op = "read" /\ last.buf # <<>> =>
        /\ last.ret = Len(last.buf)
        /\ last.file.type = "IT_CHR" => last.ret <= last.n
        /\ last.file.type = "IT_BLK" =>
               LET d == ramdisks[MINOR(last.file.dev_type) + 1]
               IN  /\ last.ret = d.blksize
                   /\ (last.pos % WordMod) * d.blksize <= d.size

\* The ports that a write is meant for: those from the position to the end
\* of the bus, and none if it starts at port 0, or the terminal's own.
MeantPorts(type, major, minor, pos, n) ==
    IF type = "IT_CHR" /\ major = CHR_MEMDEV /\ minor = MEMDEV_PORT
    THEN {p \in 1..(PortMod - 1) : pos > 0 /\ p >= pos /\ p < pos + n}
    ELSE IF type = "IT_CHR" /\ major = CHR_TTY /\ minor \in 1..2 /\ n > 0
    THEN {COM[minor]} ELSE {}

\* Output reaches exactly the ports it is meant for; every other request
\* leaves the bus alone.
PortsWrittenExactly ==
    [][ LET dev   == last'.file.dev_type
            meant == IF last'.op = "write"
                     THEN MeantPorts(last'.file.type, MAJOR(dev), MINOR(dev), last'.pos, last'.n)
                     ELSE {}
        IN  /\ \A p \in DOMAIN ports : ports'[p] # ports[p] => p \in meant
            /\ (last' # last => \E v \in Values : \A p \in meant : ports'[p] = v)
      ]_vars
=============================================================================
