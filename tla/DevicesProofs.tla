---------------------------- MODULE DevicesProofs ----------------------------
(***************************************************************************)
(* Proofs about device files, for any sizes of the tables, of the ports    *)
(* and of memory, any RAM disks that do not overlap, and any requests.     *)
(*                                                                         *)
(* What a request does depends on the driver tables, which the initcalls   *)
(* fill in any order: the invariant says which driver can be where and     *)
(* that all are there when the first request comes.  That a disk keeps     *)
(* what was written needs more: disks do not overlap, and neither do the   *)
(* blocks of a disk, so that a write of one block leaves all others alone. *)
(***************************************************************************)
EXTENDS Devices, SequenceTheorems, WellFoundedInduction, TLAPS

-----------------------------------------------------------------------------
(***************************************************************************)
(* Arithmetic of device numbers and blocks.                                *)
(***************************************************************************)
Times(a, b) == a * b

\* Products are ordered as their factors.
LEMMA TimesFacts ==
    /\ \A a, b \in Nat : Times(a, b) \in Nat
    /\ \A a, b \in Nat : Times(a + 1, b) = Times(a, b) + b
    /\ \A a, b, c \in Nat : a <= c => Times(a, b) <= Times(c, b)
<1> USE DEF Times
<1>1. \A a, b \in Nat : a * b \in Nat
  OBVIOUS
<1>2. \A a, b \in Nat : (a + 1) * b = a * b + b
  OBVIOUS
<1>3. ASSUME NEW a \in Nat, NEW b \in Nat, NEW c \in Nat, a <= c PROVE a * b <= c * b
  <2>1. c * b = a * b + (c - a) * b
    OBVIOUS
  <2>2. (c - a) * b \in Nat /\ a * b \in Nat /\ c * b \in Nat
    BY <1>3
  <2> QED
    BY <2>1, <2>2
<1> QED
  BY <1>1, <1>2, <1>3

\* Division with remainder.
LEMMA DivFacts ==
    ASSUME NEW a \in Nat, NEW b \in Nat \ {0}
    PROVE  /\ a \div b \in Nat /\ a % b \in 0..(b - 1)
           /\ a = Times(a \div b, b) + (a % b)
  BY DEF Times

\* Quotient and remainder are unique.
LEMMA DivUnique ==
    ASSUME NEW b \in Nat \ {0}, NEW q \in Nat, NEW r \in 0..(b - 1)
    PROVE  /\ (Times(q, b) + r) \div b = q
           /\ (Times(q, b) + r) % b = r
<1> DEFINE a == Times(q, b) + r
<1>0. Times(q, b) \in Nat
  BY TimesFacts
<1>8. a \in Nat
  BY <1>0
<1> HIDE DEF a
<1>1. PICK x \in Nat, y \in 0..(b - 1) : x = a \div b /\ y = a % b /\ a = Times(x, b) + y
  BY <1>8, DivFacts
<1>2. a = Times(q, b) + r /\ a = Times(x, b) + y
  BY <1>1 DEF a
<1>3. Times(x, b) \in Nat
  BY TimesFacts
<1>4. ASSUME x < q PROVE FALSE
  <2>1. Times(x + 1, b) <= Times(q, b) /\ Times(x + 1, b) = Times(x, b) + b
    BY <1>4, TimesFacts
  <2> QED
    BY <1>0, <1>2, <1>3, <2>1
<1>5. ASSUME q < x PROVE FALSE
  <2>1. Times(q + 1, b) <= Times(x, b) /\ Times(q + 1, b) = Times(q, b) + b
    BY <1>5, TimesFacts
  <2> QED
    BY <1>0, <1>2, <1>3, <2>1
<1>6. x = q
  BY <1>4, <1>5
<1>7. y = r
  BY <1>0, <1>2, <1>6
<1> QED
  BY <1>1, <1>6, <1>7 DEF a

\* A device number has the parts it was made of.
LEMMA DevParts ==
    ASSUME NEW major \in 0..2, NEW minor \in Nat
    PROVE  /\ DEV(major, minor) \in Nat
           /\ MAJOR(DEV(major, minor)) = major /\ MINOR(DEV(major, minor)) = minor
<1>1. MajorMod \in Nat \ {0} /\ major \in 0..(MajorMod - 1)
  BY DevicesAssumption
<1>2. DEV(major, minor) = Times(minor, MajorMod) + major
  BY DEF DEV, Times
<1>3. Times(minor, MajorMod) \in Nat
  BY <1>1, TimesFacts
<1> QED
  BY <1>1, <1>2, <1>3, DivUnique DEF MAJOR, MINOR

\* The blocks of a disk lie inside it.
LEMMA BlockInside ==
    ASSUME NEW size \in Nat, NEW bs \in Nat \ {0}, NEW b \in Nat, b < size \div bs
    PROVE  Times(b, bs) \in Nat /\ Times(b, bs) + bs <= size
<1>1. /\ size \div bs \in Nat /\ size % bs \in 0..(bs - 1)
      /\ size = Times(size \div bs, bs) + (size % bs)
  BY DivFacts
<1>2. PICK q \in Nat, r \in 0..(bs - 1) : q = size \div bs /\ size = Times(q, bs) + r
  BY <1>1
<1>3. /\ Times(b, bs) \in Nat /\ Times(q, bs) \in Nat /\ Times(b + 1, bs) = Times(b, bs) + bs
      /\ Times(b + 1, bs) <= Times(q, bs)
  BY <1>2, TimesFacts
<1> QED
  BY <1>2, <1>3

\* And do not overlap.
LEMMA BlocksApart ==
    ASSUME NEW bs \in Nat \ {0}, NEW b \in Nat, NEW c \in Nat, b # c,
           NEW i \in 0..(bs - 1), NEW j \in 0..(bs - 1)
    PROVE  Times(b, bs) + i # Times(c, bs) + j
<1>1. Times(b, bs) \in Nat /\ Times(c, bs) \in Nat
  BY TimesFacts
<1>2. b < c => Times(b, bs) + bs <= Times(c, bs)
  BY TimesFacts
<1>3. c < b => Times(c, bs) + bs <= Times(b, bs)
  BY TimesFacts
<1> QED
  BY <1>1, <1>2, <1>3

\* A block that may be read starts at the end of the disk at the latest.
LEMMA BlockReadable ==
    ASSUME NEW size \in Nat, NEW bs \in Nat \ {0}, NEW b \in Nat, b <= size \div bs
    PROVE  Times(b, bs) <= size
<1>1. PICK q \in Nat, r \in 0..(bs - 1) : q = size \div bs /\ size = Times(q, bs) + r
  BY DivFacts
<1>2. Times(b, bs) \in Nat /\ Times(q, bs) \in Nat /\ Times(b, bs) <= Times(q, bs)
  BY <1>1, TimesFacts
<1> QED
  BY <1>1, <1>2

\* Addresses that exist are not changed by the arithmetic of 32 bits.
LEMMA ModSmall == \A a \in Nat : a < WordMod => a % WordMod = a
<1> SUFFICES ASSUME NEW a \in Nat, a < WordMod PROVE a % WordMod = a
  OBVIOUS
<1>1. WordMod \in Nat \ {0}
  BY DevicesAssumption
<1>2. Times(0, WordMod) = 0
  BY <1>1 DEF Times
<1>3. (Times(0, WordMod) + a) % WordMod = a
  BY <1>1, DivUnique
<1> QED
  BY <1>2, <1>3
-----------------------------------------------------------------------------
(***************************************************************************)
(* What a request returns and leaves behind.                               *)
(***************************************************************************)
Cells == Values \cup {0}

\* The length of a buffer.
LEMMA LenOf ==
    ASSUME NEW n \in Nat, NEW S, NEW f \in [1..n -> S]
    PROVE  f \in Seq(S) /\ Len(f) = n
  OBVIOUS

\* The fields of the two kinds of results.
LEMMA SameFields ==
    \A r : /\ Same(r).ret = r /\ Same(r).buf = <<>> /\ Same(r).seed = seed
           /\ Same(r).mem = mem /\ Same(r).ports = ports
  BY DEF Same

\* The result of a read that fills the buffer.
LEMMA FilledFields ==
    \A bytes : /\ Filled(bytes).ret = Len(bytes) /\ Filled(bytes).buf = bytes
               /\ Filled(bytes).seed = seed /\ Filled(bytes).mem = mem
               /\ Filled(bytes).ports = ports
  BY DEF Filled, Same

Less == {ss \in Nat \X Nat : ss[1] < ss[2]}

\* Every nonempty set of naturals has a smallest element.
LEMMA LeastNat ==
    ASSUME NEW T, T \subseteq Nat, T # {}
    PROVE  \E x \in T : \A y \in T : x <= y
<1>1. IsWellFoundedOn(Less, Nat)
  BY NatLessThanWellFounded, Zenon DEF OpToRel, Less
<1>2. PICK x \in T : \A y \in T : ~(<<y, x>> \in Less)
  BY <1>1, WFMin
<1>3. \A y \in T : ~(y < x)
  BY <1>2 DEF Less
<1> QED
  BY <1>3

IsSeedRun(f, n) == f = [k \in 0..n |-> IF k = 0 THEN seed ELSE NextSeed(f[k - 1])]

\* The loop of urandom_read has a run.
LEMMA SeedRunExists == \A n \in Nat : \E f : IsSeedRun(f, n)
<1> DEFINE T == {n \in Nat : ~\E f : IsSeedRun(f, n)}
<1> SUFFICES ASSUME T # {} PROVE FALSE
  OBVIOUS
<1>1. PICK m \in T : \A y \in T : m <= y
  BY LeastNat
<1>2. CASE m = 0
  <2> DEFINE g == [k \in 0..0 |-> seed]
  <2>1. \A k \in 0..0 : k = 0
    OBVIOUS
  <2>2. IsSeedRun(g, 0)
    BY <2>1 DEF IsSeedRun
  <2> QED
    BY <1>2, <2>2
<1>3. CASE m # 0
  <2>0. m \in Nat
    OBVIOUS
  <2>1. m - 1 \in Nat /\ m - 1 \notin T
    BY <1>1, <1>3
  <2>2. PICK f : IsSeedRun(f, m - 1)
    BY <2>1
  <2> DEFINE g == [k \in 0..m |-> IF k = m THEN NextSeed(f[m - 1]) ELSE f[k]]
  <2>3. ASSUME NEW k \in 0..m PROVE g[k] = IF k = 0 THEN seed ELSE NextSeed(g[k - 1])
    <3>1. CASE k = m
      <4>1. g[k - 1] = f[m - 1]
        BY <1>3, <2>0, <3>1
      <4> QED
        BY <1>3, <3>1, <4>1
    <3>2. CASE k # m
      <4>1. k \in 0..(m - 1) /\ (k # 0 => k - 1 \in 0..m /\ k - 1 # m)
        BY <2>0, <3>2
      <4>2. g[k] = f[k] /\ (k # 0 => g[k - 1] = f[k - 1])
        BY <3>2, <4>1
      <4>3. f[k] = IF k = 0 THEN seed ELSE NextSeed(f[k - 1])
        BY <2>2, <4>1 DEF IsSeedRun
      <4> QED
        BY <4>2, <4>3
    <3> QED
      BY <3>1, <3>2
  <2>4. g = [k \in 0..m |-> g[k]]
    OBVIOUS
  <2> HIDE DEF g
  <2>5. IsSeedRun(g, m)
    BY <2>3, <2>4 DEF IsSeedRun
  <2> QED
    BY <2>5
<1> QED
  BY <1>2, <1>3

\* A seed follows a seed.
LEMMA SeedNext == \A x \in Seeds : NextSeed(x) \in Seeds
<1> SUFFICES ASSUME NEW x \in Seeds PROVE NextSeed(x) \in Seeds
  OBVIOUS
<1>1. x \in Nat
  BY DEF Seeds
<1>2. PICK y \in Nat : y = 9735 * x + 13997
  BY <1>1
<1>3. PICK z \in 0..19467 : z = y % 19468
  OBVIOUS
<1>4. NextSeed(x) = z
  BY <1>2, <1>3 DEF NextSeed
<1>5. z \in Seeds
  BY DEF Seeds
<1> QED
  BY <1>4, <1>5

\* urandom_read fills the buffer and leaves a seed behind.
LEMMA UrandomEffect ==
    ASSUME seed \in Seeds, NEW n \in Nat
    PROVE  LET o == urandom_read(n)
           IN  /\ o.ret = n /\ Len(o.buf) = n /\ o.mem = mem /\ o.ports = ports
               /\ o.seed \in Seeds
<1> DEFINE F == CHOOSE f : IsSeedRun(f, n)
           bytes == [k \in 1..n |-> F[k] % 256]
           o == urandom_read(n)
<1>1. IsSeedRun(F, n)
  BY SeedRunExists
<1>2. o = [Filled(bytes) EXCEPT !.seed = F[n]]
  BY DEF urandom_read, IsSeedRun
<1> HIDE DEF F
<1>3. F[0] = seed /\ \A k \in 1..n : F[k] = NextSeed(F[k - 1])
  BY <1>1 DEF IsSeedRun
<1> DEFINE T == {k \in 0..n : F[k] \notin Seeds}
<1>4. T = {}
  <2> SUFFICES ASSUME T # {} PROVE FALSE
    OBVIOUS
  <2>0. T \subseteq Nat
    OBVIOUS
  <2>1. PICK k \in T : \A y \in T : k <= y
    BY <2>0, LeastNat
  <2>2. k \in 1..n /\ k - 1 \in 0..n
    BY <1>3
  <2>3. F[k - 1] \in Seeds
    BY <2>1, <2>2
  <2>4. F[k] = NextSeed(F[k - 1])
    BY <1>3, <2>2
  <2>5. F[k] \in Seeds
    BY <2>3, <2>4, SeedNext
  <2> QED
    BY <2>5
<1>5. F[n] \in Seeds
  BY <1>4
<1>6. bytes \in [1..n -> {F[k] % 256 : k \in 1..n}]
  OBVIOUS
<1> HIDE DEF bytes
<1>7. Len(bytes) = n
  BY <1>6, LenOf
<1> HIDE DEF o
<1>8. o.ret = Len(bytes) /\ o.buf = bytes /\ o.mem = mem /\ o.ports = ports /\ o.seed = F[n]
  BY <1>2 DEF Filled, Same
<1> QED
  BY <1>5, <1>7, <1>8 DEF o

Types == {"IT_DIR", "IT_FIFO", "IT_CHR", "IT_BLK"}

\* The drivers when all initcalls have run.
Drivers ==
    /\ char_drivers[0] = "none" /\ char_drivers[1] = "memdev" /\ char_drivers[2] = "tty"
    /\ block_drivers[0] = "none" /\ block_drivers[1] = "ramdisk" /\ block_drivers[2] = "none"

\* A read of a port device stays on the bus and within the buffer.
LEMMA PortReadEffect ==
    ASSUME TypeOK, NEW pos \in Nat, NEW n \in Nat
    PROVE  LET o == port_read(pos, n)
           IN  /\ o.mem = mem /\ o.ports = ports /\ o.seed = seed
               /\ o.buf # <<>> => o.ret = Len(o.buf) /\ o.ret <= n
<1> DEFINE o == port_read(pos, n)
           count == PortCount(pos, n)
           bytes == [k \in 1..count |-> ports[pos + k - 1]]
<1>1. CASE pos >= PortMod
  <2>1. o = Same(-EFAULT)
    BY <1>1 DEF port_read
  <2> HIDE DEF o
  <2> QED
    BY <2>1, SameFields DEF o
<1>2. CASE ~(pos >= PortMod)
  <2>1. PortMod \in Nat \ {0} /\ PortMod - pos \in Nat
    BY <1>2, DevicesAssumption
  <2>2. (PortMod - pos) % PortMod \in Nat
    BY <2>1, DivFacts
  <2>3. count \in Nat /\ count <= n
    BY <2>2 DEF PortCount, Smaller
  <2>4. o = Filled(bytes)
    BY <1>2 DEF port_read
  <2>5. bytes \in [1..count -> {ports[pos + k - 1] : k \in 1..count}]
    OBVIOUS
  <2> HIDE DEF o, bytes, count
  <2>6. Len(bytes) = count
    BY <2>3, <2>5, LenOf
  <2> QED
    BY <2>3, <2>4, <2>6, FilledFields DEF o
<1> QED
  BY <1>1, <1>2

\* Reads of the memory devices.
LEMMA MemdevReadEffect ==
    ASSUME TypeOK, NEW minor \in Nat, NEW pos \in Nat, NEW n \in Nat
    PROVE  LET o == memdev_read(minor, pos, n)
           IN  /\ o.mem = mem /\ o.ports = ports /\ o.seed \in Seeds
               /\ o.buf # <<>> => o.ret = Len(o.buf) /\ o.ret <= n
<1> USE DEF MEMDEV_NULL, MEMDEV_ZERO, MEMDEV_FULL, MEMDEV_PORT, MEMDEV_URANDOM
<1>0. seed \in Seeds
  BY DEF TypeOK
<1> DEFINE o == memdev_read(minor, pos, n)
<1>1. CASE minor = 1
  <2>1. o = Same(0)
    BY <1>1 DEF memdev_read, null_read
  <2> HIDE DEF o
  <2> QED
    BY <1>0, <2>1, SameFields DEF o
<1>2. CASE minor \in {2, 3}
  <2> DEFINE bytes == [k \in 1..n |-> 0]
  <2>1. o = Filled(bytes)
    BY <1>2 DEF memdev_read, zero_read
  <2>2. bytes \in [1..n -> {0}]
    OBVIOUS
  <2> HIDE DEF o, bytes
  <2>3. Len(bytes) = n
    BY <2>2, LenOf
  <2> QED
    BY <1>0, <2>1, <2>3, FilledFields DEF o
<1>3. CASE minor = 4
  <2>1. o = port_read(pos, n)
    BY <1>3 DEF memdev_read
  <2> HIDE DEF o
  <2> QED
    BY <1>0, <2>1, PortReadEffect DEF o
<1>4. CASE minor = 6
  <2>1. o = urandom_read(n)
    BY <1>4 DEF memdev_read
  <2> HIDE DEF o
  <2> QED
    BY <1>0, <2>1, UrandomEffect DEF o
<1>5. CASE minor \notin {1, 2, 3, 4, 6}
  <2>1. o = Same(-ENODEV)
    BY <1>5 DEF memdev_read
  <2> HIDE DEF o
  <2> QED
    BY <1>0, <2>1, SameFields DEF o
<1> QED
  BY <1>1, <1>2, <1>3, <1>4, <1>5

\* A read leaves memory and ports alone, and stores what it says.
ReadDone(o, type, major, minor, pos, n) ==
    /\ o.mem = mem /\ o.ports = ports /\ o.seed \in Seeds
    /\ type = "IT_CHR" => (o.buf # <<>> => o.ret = Len(o.buf) /\ o.ret <= n)
    /\ type = "IT_CHR" /\ major = 2 /\ minor = 0 => o.ret \in 0..n
    /\ type = "IT_BLK" /\ major = 1 => o = ramdisk_readblk(minor, pos % WordMod)
    /\ type \notin {"IT_CHR", "IT_BLK"} \/ (type = "IT_BLK" /\ major # 1) => o.buf = <<>>

\* Reads of RAM disks leave the devices alone.
LEMMA DiskReadSame ==
    \A m, blk : LET o == ramdisk_readblk(m, blk)
                IN  o.mem = mem /\ o.ports = ports /\ o.seed = seed
  BY SameFields, FilledFields DEF ramdisk_readblk

\* Every read.
LEMMA ReadEffect ==
    ASSUME TypeOK, Drivers, NEW type \in Types, NEW major \in 0..2, NEW minor \in Nat,
           NEW pos \in Nat, NEW n \in Nat, NEW o \in tmpfs_read(File(type, major, minor), pos, n)
    PROVE  ReadDone(o, type, major, minor, pos, n)
<1> DEFINE file == File(type, major, minor)
           dev == DEV(major, minor)
<1>0. seed \in Seeds
  BY DEF TypeOK
<1>1. file.type = type /\ file.dev_type = dev
  BY DEF File
<1>2. MAJOR(dev) = major /\ MINOR(dev) = minor
  BY DevParts
<1> HIDE DEF file, dev
<1>3. o \in tmpfs_read(file, pos, n)
  BY DEF file
<1>4. CASE type = "IT_DIR"
  <2>1. o = Same(-EISDIR)
    BY <1>1, <1>3, <1>4 DEF tmpfs_read
  <2> QED
    BY <1>0, <1>4, <2>1, SameFields DEF ReadDone
<1>5. CASE type = "IT_FIFO"
  <2>1. o = Same(-EPERM)
    BY <1>1, <1>3, <1>5 DEF tmpfs_read
  <2> QED
    BY <1>0, <1>5, <2>1, SameFields DEF ReadDone
<1>6. CASE type = "IT_CHR"
  <2>1. o \in read_char(dev, pos, n)
    BY <1>1, <1>3, <1>6 DEF tmpfs_read
  <2>2. CASE major = 0
    <3>1. o = Same(-ENODEV)
      BY <1>2, <2>1, <2>2 DEF read_char, Drivers
    <3> QED
      BY <1>0, <1>6, <2>2, <3>1, SameFields DEF ReadDone
  <2>3. CASE major = 1
    <3>1. o = memdev_read(minor, pos, n)
      BY <1>2, <2>1, <2>3 DEF read_char, Drivers
    <3>2. /\ o.mem = mem /\ o.ports = ports /\ o.seed \in Seeds
          /\ o.buf # <<>> => o.ret = Len(o.buf) /\ o.ret <= n
      BY <3>1, MemdevReadEffect
    <3> QED
      BY <1>6, <2>3, <3>2 DEF ReadDone
  <2>4. CASE major = 2
    <3>1. o \in tty_read(minor, n)
      BY <1>2, <2>1, <2>4 DEF read_char, Drivers
    <3>2. PICK r \in Int : o = Same(r) /\ (minor = 0 => r \in 0..n)
      <4>1. CASE minor = 0
        BY <3>1, <4>1 DEF tty_read
      <4>2. CASE minor # 0 /\ minor < SerialMinors
        BY <3>1, <4>2 DEF tty_read, serial_read
      <4>3. CASE minor # 0 /\ ~(minor < SerialMinors)
        BY <3>1, <4>3 DEF tty_read, ENODEV
      <4> QED
        BY <4>1, <4>2, <4>3
    <3> QED
      BY <1>0, <1>6, <2>4, <3>2, SameFields DEF ReadDone
  <2> QED
    BY <2>2, <2>3, <2>4
<1>7. CASE type = "IT_BLK"
  <2>1. o = read_block(dev, pos % WordMod)
    BY <1>1, <1>3, <1>7 DEF tmpfs_read
  <2>2. CASE major = 1
    <3>1. o = ramdisk_readblk(minor, pos % WordMod)
      BY <1>2, <2>1, <2>2 DEF read_block, Drivers
    <3> QED
      BY <1>0, <1>7, <2>2, <3>1, DiskReadSame DEF ReadDone
  <2>3. CASE major # 1
    <3>1. o = Same(-ENODEV)
      BY <1>2, <2>1, <2>3 DEF read_block, Drivers
    <3> QED
      BY <1>0, <1>7, <2>3, <3>1, SameFields DEF ReadDone
  <2> QED
    BY <2>2, <2>3
<1> QED
  BY <1>4, <1>5, <1>6, <1>7 DEF Types

PortSet == 0..(PortMod - 1)

\* A write reaches the ports it is meant for, and memory only if it is a
\* write to a RAM disk.
WriteDone(o, type, major, minor, pos, n, v) ==
    /\ o.seed = seed /\ o.buf = <<>> /\ o.ports \in [PortSet -> Cells]
    /\ \A p \in PortSet :
           o.ports[p] = IF p \in MeantPorts(type, major, minor, pos, n) THEN v ELSE ports[p]
    /\ type = "IT_CHR" /\ major = 2 /\ minor \in {0, 1} => o.ret = n
    /\ type = "IT_BLK" /\ major = 1 => o = ramdisk_writeblk(minor, pos % WordMod, v)
    /\ ~(type = "IT_BLK" /\ major = 1) => o.mem = mem
    /\ type = "IT_BLK" /\ major # 1 => ~(o.ret > 0)

\* A write of ports ends at the end of the bus.
LEMMA PortWriteEffect ==
    ASSUME TypeOK, NEW pos \in Nat, NEW n \in Nat, NEW v \in Values
    PROVE  WriteDone(port_write(pos, n, v), "IT_CHR", 1, 4, pos, n, v)
<1> DEFINE o == port_write(pos, n, v)
           count == PortCount(pos, n)
           M == MeantPorts("IT_CHR", 1, 4, pos, n)
           new == [p \in DOMAIN ports |-> IF p >= pos /\ p < pos + count THEN v ELSE ports[p]]
<1>0. ports \in [PortSet -> Cells] /\ PortMod \in Nat \ {0} /\ v \in Cells
  BY DevicesAssumption DEF TypeOK, PortSet, Cells
<1>1. M = {p \in 1..(PortMod - 1) : pos > 0 /\ p >= pos /\ p < pos + n}
  BY DEF MeantPorts, CHR_MEMDEV, MEMDEV_PORT
<1> HIDE DEF M
<1>2. CASE pos >= PortMod
  <2>1. o = Same(-EFAULT)
    BY <1>2 DEF port_write
  <2>2. M = {}
    BY <1>0, <1>1, <1>2
  <2> HIDE DEF o
  <2>3. o.seed = seed /\ o.buf = <<>> /\ o.ports = ports /\ o.mem = mem
    BY <2>1, SameFields
  <2> QED
    BY <1>0, <2>2, <2>3 DEF WriteDone, M, o
<1>3. CASE ~(pos >= PortMod)
  <2>1. /\ pos = 0 => count = 0
        /\ pos > 0 => count = Smaller(PortMod - pos, n)
    <3>1. pos = 0 => (PortMod - pos) % PortMod = 0
      <4>1. (Times(1, PortMod) + 0) % PortMod = 0
        BY <1>0, DivUnique
      <4>2. Times(1, PortMod) + 0 = PortMod
        BY <1>0 DEF Times
      <4> QED
        BY <1>0, <4>1, <4>2
    <3>2. pos > 0 => (PortMod - pos) % PortMod = PortMod - pos
      <4>1. ASSUME pos > 0 PROVE PortMod - pos \in 0..(PortMod - 1)
        BY <1>0, <1>3, <4>1
      <4>2. pos > 0 => (Times(0, PortMod) + (PortMod - pos)) % PortMod = PortMod - pos
        BY <1>0, <4>1, DivUnique
      <4>3. pos > 0 => Times(0, PortMod) + (PortMod - pos) = PortMod - pos
        BY <1>0 DEF Times
      <4> QED
        BY <4>2, <4>3
    <3> QED
      BY <3>1, <3>2 DEF PortCount, Smaller
  <2>2. o = [Same(count) EXCEPT !.ports = new]
    BY <1>3 DEF port_write
  <2>3. DOMAIN ports = PortSet /\ count \in Nat
    BY <1>0, <1>3, <2>1 DEF Smaller
  <2> HIDE DEF count, o
  <2>4. ASSUME NEW p \in PortSet PROVE (p >= pos /\ p < pos + count) <=> p \in M
    BY <1>0, <1>1, <1>3, <2>1, <2>3 DEF PortSet, Smaller
  <2>5. new \in [PortSet -> Cells] /\ \A p \in PortSet : new[p] = IF p \in M THEN v ELSE ports[p]
    BY <1>0, <2>3, <2>4
  <2> HIDE DEF new
  <2>6. o.seed = seed /\ o.buf = <<>> /\ o.ports = new /\ o.mem = mem
    BY <2>2 DEF Same
  <2> QED
    BY <2>5, <2>6 DEF WriteDone, M, o
<1> QED
  BY <1>2, <1>3

\* A write to nowhere.
LEMMA WriteNothing ==
    ASSUME TypeOK, NEW type, NEW major, NEW minor, NEW pos, NEW n, NEW v, NEW r \in Int,
           MeantPorts(type, major, minor, pos, n) = {},
           ~(type = "IT_BLK" /\ major = 1),
           type = "IT_CHR" /\ major = 2 /\ minor \in {0, 1} => r = n,
           type = "IT_BLK" => ~(r > 0)
    PROVE  WriteDone(Same(r), type, major, minor, pos, n, v)
<1>1. Same(r).seed = seed /\ Same(r).buf = <<>> /\ Same(r).ports = ports /\ Same(r).mem = mem
      /\ Same(r).ret = r
  BY SameFields
<1>2. ports \in [PortSet -> Cells]
  BY DEF TypeOK, PortSet, Cells
<1> QED
  BY <1>1, <1>2 DEF WriteDone

\* A write to a terminal.
LEMMA TtyWriteEffect ==
    ASSUME TypeOK, NEW minor \in Nat, NEW pos \in Nat, NEW n \in Nat, NEW v \in Values
    PROVE  WriteDone(tty_write(minor, n, v), "IT_CHR", 2, minor, pos, n, v)
<1> DEFINE o == tty_write(minor, n, v)
           M == MeantPorts("IT_CHR", 2, minor, pos, n)
<1>0. /\ ports \in [PortSet -> Cells] /\ PortMod \in Nat \ 0..3 /\ v \in Cells
      /\ SerialMinors \in Nat \ 0..2
  BY DevicesAssumption DEF TypeOK, PortSet, Cells
<1>1. M = IF minor \in 1..2 /\ n > 0 THEN {COM[minor]} ELSE {}
  BY DEF MeantPorts, CHR_MEMDEV, CHR_TTY
<1>2. CASE minor \in 1..2 /\ n > 0
  <2>1. M = {COM[minor]}
    BY <1>1, <1>2
  <2> HIDE DEF M
  <2>2. PICK c \in PortSet : c = COM[minor]
    <3>1. COM[1] = PortMod - 1 /\ COM[2] = PortMod - 2
      BY DEF COM
    <3>2. COM[1] \in PortSet /\ COM[2] \in PortSet
      BY <1>0, <3>1 DEF PortSet
    <3> QED
      BY <1>2, <3>2
  <2>3. minor # 0 /\ minor < SerialMinors /\ ~(minor > 2) /\ n # 0
    BY <1>0, <1>2
  <2>4. o = [Same(n) EXCEPT !.ports = [ports EXCEPT ![c] = v]]
    BY <2>2, <2>3 DEF tty_write, serial_write
  <2> HIDE DEF o
  <2>5. /\ o.seed = seed /\ o.buf = <<>> /\ o.ports = [ports EXCEPT ![c] = v] /\ o.mem = mem
        /\ o.ret = n
    BY <2>4 DEF Same
  <2>6. o.ports \in [PortSet -> Cells] /\ \A p \in PortSet : o.ports[p] = IF p \in M THEN v ELSE ports[p]
    BY <1>0, <2>1, <2>2, <2>5
  <2> QED
    BY <2>5, <2>6 DEF WriteDone, M, o
<1>3. CASE ~(minor \in 1..2 /\ n > 0)
  <2>1. M = {}
    BY <1>1, <1>3
  <2> HIDE DEF M
  <2>2. CASE minor = 0
    <3>1. o = Same(n)
      BY <2>2 DEF tty_write
    <3> QED
      BY <2>1, <2>2, <3>1, WriteNothing DEF M
  <2>3. CASE minor # 0 /\ ~(minor < SerialMinors)
    <3>1. o = Same(-ENODEV) /\ -ENODEV \in Int /\ minor # 1
      BY <1>0, <2>3 DEF tty_write, ENODEV
    <3> QED
      BY <2>1, <2>3, <3>1, WriteNothing DEF M
  <2>4. CASE minor # 0 /\ minor < SerialMinors /\ minor > 2
    <3>1. o = Same(-ENODEV) /\ -ENODEV \in Int /\ minor # 1
      BY <1>0, <2>4 DEF tty_write, serial_write, ENODEV
    <3> QED
      BY <2>1, <2>4, <3>1, WriteNothing DEF M
  <2>5. CASE minor # 0 /\ minor < SerialMinors /\ ~(minor > 2)
    <3>1. n = 0
      BY <1>3, <2>5
    <3>2. o = Same(n)
      BY <2>5, <3>1 DEF tty_write, serial_write
    <3> QED
      BY <2>1, <2>5, <3>2, WriteNothing DEF M
  <2> QED
    BY <2>2, <2>3, <2>4, <2>5
<1> QED
  BY <1>2, <1>3

\* Writes to RAM disks leave ports and seed alone.
LEMMA DiskWriteSame ==
    \A m, blk, v : LET o == ramdisk_writeblk(m, blk, v)
                   IN  o.ports = ports /\ o.seed = seed /\ o.buf = <<>>
  BY DEF ramdisk_writeblk, Same

\* Every write.
LEMMA WriteEffect ==
    ASSUME TypeOK, Drivers, NEW type \in Types, NEW major \in 0..2, NEW minor \in Nat,
           NEW pos \in Nat, NEW n \in Nat, NEW v \in Values
    PROVE  WriteDone(tmpfs_write(File(type, major, minor), pos, n, v),
                     type, major, minor, pos, n, v)
<1> DEFINE file == File(type, major, minor)
           dev == DEV(major, minor)
           o == tmpfs_write(file, pos, n, v)
           M == MeantPorts(type, major, minor, pos, n)
<1>0. \A e \in {EISDIR, EPERM, ENODEV, ENOSPC} : -e \in Int /\ ~(-e > 0)
  BY DEF EISDIR, EPERM, ENODEV, ENOSPC
<1>1. file.type = type /\ file.dev_type = dev
  BY DEF File
<1>2. MAJOR(dev) = major /\ MINOR(dev) = minor
  BY DevParts
<1>3. /\ type # "IT_CHR" => M = {}
      /\ major = 0 => M = {}
      /\ major = 1 /\ minor # 4 => M = {}
  BY DEF MeantPorts, CHR_MEMDEV, CHR_TTY, MEMDEV_PORT
<1> HIDE DEF file, dev, M
<1>4. CASE type = "IT_DIR"
  <2>1. o = Same(-EISDIR)
    BY <1>1, <1>4 DEF tmpfs_write
  <2> QED
    BY <1>0, <1>3, <1>4, <2>1, WriteNothing DEF M, file
<1>5. CASE type = "IT_FIFO"
  <2>1. o = Same(-EPERM)
    BY <1>1, <1>5 DEF tmpfs_write
  <2> QED
    BY <1>0, <1>3, <1>5, <2>1, WriteNothing DEF M, file
<1>6. CASE type = "IT_CHR"
  <2>1. o = write_char(dev, pos, n, v)
    BY <1>1, <1>6 DEF tmpfs_write
  <2>2. CASE major = 0
    <3>1. o = Same(-ENODEV)
      BY <1>2, <2>1, <2>2 DEF write_char, Drivers
    <3> QED
      BY <1>0, <1>3, <1>6, <2>2, <3>1, WriteNothing DEF M, file
  <2>3. CASE major = 1
    <3>1. o = memdev_write(minor, pos, n, v)
      BY <1>2, <2>1, <2>3 DEF write_char, Drivers
    <3> USE DEF MEMDEV_NULL, MEMDEV_ZERO, MEMDEV_FULL, MEMDEV_PORT, MEMDEV_URANDOM
    <3>2. CASE minor = 4
      <4>1. o = port_write(pos, n, v)
        BY <3>1, <3>2 DEF memdev_write
      <4> QED
        BY <1>6, <2>3, <3>2, <4>1, PortWriteEffect DEF file
    <3>3. CASE minor # 4
      <4>1. PICK r \in Int : o = Same(r)
        <5>1. CASE minor \in {1, 2, 6}
          BY <3>1, <5>1 DEF memdev_write, null_write
        <5>2. CASE minor = 3
          BY <1>0, <3>1, <5>2 DEF memdev_write, full_write
        <5>3. CASE minor \notin {1, 2, 3, 4, 6}
          BY <1>0, <3>1, <5>3 DEF memdev_write
        <5> QED
          BY <3>3, <5>1, <5>2, <5>3
      <4> QED
        BY <1>3, <1>6, <2>3, <3>3, <4>1, WriteNothing DEF M, file
    <3> QED
      BY <3>2, <3>3
  <2>4. CASE major = 2
    <3>1. o = tty_write(minor, n, v)
      BY <1>2, <2>1, <2>4 DEF write_char, Drivers
    <3> QED
      BY <1>6, <2>4, <3>1, TtyWriteEffect DEF file
  <2> QED
    BY <2>2, <2>3, <2>4
<1>7. CASE type = "IT_BLK"
  <2>1. o = write_block(dev, pos % WordMod, v)
    BY <1>1, <1>7 DEF tmpfs_write
  <2>2. CASE major = 1
    <3>1. o = ramdisk_writeblk(minor, pos % WordMod, v)
      BY <1>2, <2>1, <2>2 DEF write_block, Drivers
    <3>2. o.ports = ports /\ o.seed = seed /\ o.buf = <<>>
      BY <3>1, DiskWriteSame
    <3>3. ports \in [PortSet -> Cells]
      BY DEF TypeOK, PortSet, Cells
    <3>4. M = {}
      BY <1>3, <1>7
    <3> HIDE DEF o
    <3> QED
      BY <1>7, <2>2, <3>1, <3>2, <3>3, <3>4 DEF WriteDone, M, o, file
  <2>3. CASE major # 1
    <3>1. o = Same(-ENODEV)
      BY <1>2, <2>1, <2>3 DEF write_block, Drivers
    <3> QED
      BY <1>0, <1>3, <1>7, <2>3, <3>1, WriteNothing DEF M, file
  <2> QED
    BY <2>2, <2>3
<1> QED
  BY <1>4, <1>5, <1>6, <1>7 DEF Types
-----------------------------------------------------------------------------
(***************************************************************************)
(* The inductive invariant.                                                *)
(***************************************************************************)
AllFiles == {File(type, major, minor) : type \in Types, major \in 0..2, minor \in Nat}

Early == {"ramdisk", "initcalls"}
Late  == {"tty1", "console", "ram0", "echo", "echo_write"}

\* A driver is registered when its initcall has run, under its own number.
DriversInv ==
    /\ pc \in Early \cup Late
    /\ pc \in Late => initcalls = {}
    /\ \A m \in 0..(MajorMod - 1) : /\ m \notin {1, 2} => char_drivers[m] = "none"
                                    /\ m # 1 => block_drivers[m] = "none"
    /\ char_drivers[1] = IF "memdev" \in initcalls THEN "none" ELSE "memdev"
    /\ char_drivers[2] = IF "tty" \in initcalls THEN "none" ELSE "tty"
    /\ block_drivers[1] = IF "ramdisk" \in initcalls THEN "none" ELSE "ramdisk"

\* The last request is one, and there is none before the first.
LastInv ==
    /\ last.file \in AllFiles /\ last.pos \in Nat /\ last.n \in Nat
    /\ pc \in Early \cup {"tty1"} => last.op = "none"

NBlocks(d) == d.size \div d.blksize
Rows == UNION {[0..(b - 1) -> Cells] : b \in Nat}

\* Disks do not overlap, each has its row of contents, and memory is zero
\* until the first request.
DiskInv ==
    /\ contents \in Seq(Rows) /\ Len(contents) = Len(ramdisks)
    /\ \A k \in DOMAIN ramdisks : contents[k] \in [0..(NBlocks(ramdisks[k]) - 1) -> Cells]
    /\ \A j, k \in DOMAIN ramdisks : j # k => ~Overlap(ramdisks[j], ramdisks[k])
    /\ pc = "ramdisk" => mem = [a \in 0..(WordMod - 1) |-> 0]
    /\ strayed \in BOOLEAN

IInv ==
    /\ TypeOK /\ DriversInv /\ LastInv /\ DiskInv
    /\ BootRequestsSucceed /\ DisksHoldWritten /\ ReadsBounded

\* What holds of one disk: its memory is what was written.
Held(k) ==
    ramdisks[k].bufs # NULL =>
        \A b \in DOMAIN contents[k] : \A j \in 0..(ramdisks[k].blksize - 1) :
            mem[ramdisks[k].bufs + Times(b, ramdisks[k].blksize) + j] = contents[k][b]

\* What a read of one disk returned is what was written.
ReadBack(k) ==
    ramdisks[k].bufs # NULL =>
        (last.op = "read" /\ last.file = File("IT_BLK", BLK_RAMDISK, k - 1)
         /\ last.pos \in DOMAIN contents[k] =>
             last.buf = [j \in 1..ramdisks[k].blksize |-> contents[k][last.pos]])

\* The property, disk by disk.
LEMMA DisksByDisk ==
    DisksHoldWritten <=>
        TypeOK /\ (~strayed => \A k \in DOMAIN ramdisks : Held(k) /\ ReadBack(k))
  BY DEF DisksHoldWritten, Held, ReadBack, Times

\* The numbers of a disk.
LEMMA DiskFacts ==
    ASSUME TypeOK, NEW k \in DOMAIN ramdisks
    PROVE  /\ ramdisks[k] \in Disks /\ k \in Nat /\ k <= Len(ramdisks) /\ k # 0
           /\ ramdisks[k].blksize \in Nat \ {0}
           /\ ramdisks[k].bufs \in Nat /\ ramdisks[k].size \in Nat
           /\ ramdisks[k].bufs + ramdisks[k].size <= WordMod /\ WordMod \in Nat
<1>1. ramdisks \in Seq(Disks)
  BY DEF TypeOK
<1>2. k \in Nat /\ k <= Len(ramdisks) /\ k # 0 /\ ramdisks[k] \in Disks
  BY <1>1
<1> QED
  BY <1>2, DevicesAssumption

\* The minor numbers that have a disk.
LEMMA AddedFacts ==
    ASSUME TypeOK, NEW m \in Nat
    PROVE  Added(m) <=> m + 1 \in DOMAIN ramdisks /\ ramdisks[m + 1].bufs # NULL
<1>1. ramdisks \in Seq(Disks) /\ Len(ramdisks) <= MAX_RAMDISK /\ MAX_RAMDISK \in Nat
  BY DevicesAssumption DEF TypeOK
<1>2. m < Smaller(Len(ramdisks), MAX_RAMDISK) <=> m + 1 \in DOMAIN ramdisks
  BY <1>1 DEF Smaller
<1> QED
  BY <1>2 DEF Added

\* The addresses of a block of a disk.
LEMMA BlockCells ==
    ASSUME TypeOK, NEW k \in DOMAIN ramdisks, NEW b \in Nat, b < NBlocks(ramdisks[k])
    PROVE  LET d == ramdisks[k]
               at == d.bufs + Times(b, d.blksize)
           IN  /\ Times(b, d.blksize) \in Nat /\ at \in Nat /\ b < WordMod
               /\ at + d.blksize <= d.bufs + d.size
               /\ BlockStart(k - 1, b) = at
               /\ \A j \in 0..(d.blksize - 1) : (at + j) % WordMod = at + j
<1> DEFINE d == ramdisks[k]
           at == d.bufs + Times(b, d.blksize)
<1>1. /\ k \in Nat /\ d.blksize \in Nat \ {0} /\ d.bufs \in Nat /\ d.size \in Nat
      /\ d.bufs + d.size <= WordMod /\ WordMod \in Nat
  BY DiskFacts
<1>2. Times(b, d.blksize) \in Nat /\ Times(b, d.blksize) + d.blksize <= d.size
  BY <1>1, BlockInside DEF NBlocks
<1>3. b <= Times(b, d.blksize)
  <2>1. PICK bs \in Nat \ {0} : bs = d.blksize
    BY <1>1
  <2>2. b * bs = b + b * (bs - 1) /\ b * (bs - 1) \in Nat
    BY <2>1
  <2> QED
    BY <2>1, <2>2 DEF Times
<1>4. k - 1 + 1 = k
  BY <1>1
<1>5. BlockStart(k - 1, b) = at % WordMod
  BY <1>4 DEF BlockStart, Times
<1> DEFINE t == Times(b, d.blksize)
<1> HIDE DEF t
<1>6. t \in Nat /\ t + d.blksize <= d.size /\ b <= t /\ at = d.bufs + t
  BY <1>2, <1>3 DEF t
<1> HIDE DEF d, at
<1>7. /\ at \in Nat /\ at + d.blksize <= d.bufs + d.size /\ at < WordMod /\ b < WordMod
      /\ \A j \in 0..(d.blksize - 1) : at + j \in Nat /\ at + j < WordMod
  BY <1>1, <1>6
<1>8. at % WordMod = at /\ \A j \in 0..(d.blksize - 1) : (at + j) % WordMod = at + j
  BY <1>7, ModSmall
<1> QED
  BY <1>2, <1>5, <1>7, <1>8 DEF d, at
-----------------------------------------------------------------------------
(***************************************************************************)
(* Each step keeps it.                                                     *)
(***************************************************************************)

\* The first state.
LEMMA InitGood == Init => IInv
<1> SUFFICES ASSUME Init PROVE IInv
  OBVIOUS
<1>1. /\ ramdisks = <<>> /\ contents = <<>> /\ last.op = "none" /\ pc = "ramdisk"
      /\ strayed = FALSE /\ initcalls = {"memdev", "tty", "ramdisk"}
      /\ mem = [a \in 0..(WordMod - 1) |-> 0] /\ ports = [p \in 0..(PortMod - 1) |-> 0]
      /\ char_drivers = [m \in 0..(MajorMod - 1) |-> "none"]
      /\ block_drivers = [m \in 0..(MajorMod - 1) |-> "none"]
      /\ last.file = tty1 /\ last.pos = 0 /\ last.n = 0
  BY DEF Init
<1>2. TypeOK
  <2>1. 62521 \in Seeds
    BY DEF Seeds
  <2> QED
    BY <1>1, <2>1, DevicesAssumption DEF Init, TypeOK
<1>3. DriversInv
  BY <1>1, DevicesAssumption DEF DriversInv, Early, Late
<1>4. LastInv
  <2>1. tty1 \in AllFiles
    BY DEF tty1, AllFiles, Types
  <2> QED
    BY <1>1, <2>1 DEF LastInv
<1>5. DOMAIN ramdisks = {}
  BY <1>1
<1>6. DiskInv
  <2>1. <<>> \in Seq(Rows) /\ Len(contents) = Len(ramdisks)
    BY <1>1
  <2> QED
    BY <1>1, <1>5, <2>1 DEF DiskInv
<1>7. BootRequestsSucceed
  BY <1>1 DEF BootRequestsSucceed
<1>8. DisksHoldWritten
  BY <1>2, <1>5, DisksByDisk
<1>9. ReadsBounded
  BY <1>1 DEF ReadsBounded
<1> QED
  BY <1>2, <1>3, <1>4, <1>6, <1>7, <1>8, <1>9 DEF IInv

\* A new disk holds zeros, and overlaps no other.
LEMMA AddRamdiskKeeps == IInv /\ (add_ramdisk \/ NoRamdisk) => IInv'
<1> SUFFICES ASSUME IInv, add_ramdisk \/ NoRamdisk PROVE IInv'
  OBVIOUS
<1> USE DEF Early, Late
<1>1. /\ pc = "ramdisk" /\ pc' \in {"ramdisk", "initcalls"}
      /\ char_drivers' = char_drivers /\ block_drivers' = block_drivers /\ seed' = seed
      /\ mem' = mem /\ ports' = ports /\ initcalls' = initcalls /\ last' = last
      /\ requests' = requests /\ strayed' = strayed
  BY DEF add_ramdisk, NoRamdisk, tables
<1>2. /\ TypeOK /\ DriversInv /\ LastInv /\ DiskInv
      /\ ~strayed => \A k \in DOMAIN ramdisks : Held(k) /\ ReadBack(k)
  BY DisksByDisk DEF IInv
<1>3. last.op = "none" /\ mem = [a \in 0..(WordMod - 1) |-> 0]
  BY <1>1, <1>2 DEF LastInv, DiskInv
<1>4. DriversInv' /\ LastInv' /\ BootRequestsSucceed' /\ ReadsBounded'
  <2>1. DriversInv'
    BY <1>1, <1>2 DEF DriversInv
  <2>2. LastInv'
    BY <1>1, <1>2 DEF LastInv
  <2>3. BootRequestsSucceed'
    BY <1>1 DEF BootRequestsSucceed
  <2>4. ReadsBounded'
    BY <1>1, <1>3 DEF ReadsBounded
  <2> QED
    BY <2>1, <2>2, <2>3, <2>4
<1>5. CASE ramdisks' = ramdisks /\ contents' = contents
  <2>1. TypeOK'
    BY <1>1, <1>2, <1>5 DEF TypeOK
  <2>2. DiskInv'
    BY <1>1, <1>2, <1>3, <1>5 DEF DiskInv
  <2>3. ~strayed' => \A k \in DOMAIN ramdisks' : Held(k)' /\ ReadBack(k)'
    BY <1>1, <1>2, <1>5 DEF Held, ReadBack
  <2>4. DisksHoldWritten'
    BY <2>1, <2>3 DEF DisksHoldWritten, Held, ReadBack, Times
  <2> QED
    BY <1>4, <2>1, <2>2, <2>4 DEF IInv
<1>6. ASSUME NEW d \in Disks, \A k \in DOMAIN ramdisks : ~Overlap(d, ramdisks[k]),
             ~TableFull, ramdisks' = Append(ramdisks, d),
             contents' = Append(contents, [b \in 0..(d.size \div d.blksize - 1) |-> 0])
      PROVE  IInv'
  <2> DEFINE row == [b \in 0..(NBlocks(d) - 1) |-> 0]
             L == Len(ramdisks)
  <2>1. /\ ramdisks \in Seq(Disks) /\ L \in Nat /\ L < MAX_RAMDISK /\ MAX_RAMDISK \in Nat
        /\ contents \in Seq(Rows) /\ Len(contents) = L /\ DOMAIN ramdisks = 1..L
    BY <1>2, <1>6, DevicesAssumption DEF TypeOK, TableFull, DiskInv
  <2>2. /\ d.blksize \in Nat \ {0} /\ d.bufs \in Nat /\ d.size \in Nat
        /\ d.bufs + d.size <= WordMod /\ WordMod \in Nat /\ NBlocks(d) \in Nat
    <3>1. /\ d.blksize \in Nat \ {0} /\ d.bufs \in Nat /\ d.size \in Nat
          /\ d.bufs + d.size <= WordMod /\ WordMod \in Nat
      BY DevicesAssumption
    <3> QED
      BY <3>1, DivFacts DEF NBlocks
  <2>3. row \in [0..(NBlocks(d) - 1) -> Cells] /\ row \in Rows
    BY <2>2 DEF Rows, Cells
  <2>4. contents' = Append(contents, row)
    BY <1>6 DEF NBlocks
  <2> HIDE DEF row, L
  <2>5. /\ ramdisks' \in Seq(Disks) /\ Len(ramdisks') = L + 1 /\ DOMAIN ramdisks' = 1..(L + 1)
        /\ ramdisks'[L + 1] = d /\ \A k \in 1..L : ramdisks'[k] = ramdisks[k]
    BY <1>6, <2>1
  <2>6. /\ contents' \in Seq(Rows) /\ Len(contents') = L + 1
        /\ contents'[L + 1] = row /\ \A k \in 1..L : contents'[k] = contents[k]
    BY <2>1, <2>3, <2>4
  <2>7. \A k \in 1..(L + 1) : k \in 1..L \/ k = L + 1
    BY <2>1
  <2>8. TypeOK'
    BY <1>1, <1>2, <2>1, <2>5 DEF TypeOK
  <2>9. DiskInv'
    <3>1. \A k \in 1..(L + 1) : contents'[k] \in [0..(NBlocks(ramdisks'[k]) - 1) -> Cells]
      BY <1>2, <2>1, <2>3, <2>5, <2>6, <2>7 DEF DiskInv
    <3>2. ASSUME NEW j \in 1..(L + 1), NEW k \in 1..(L + 1), j # k
          PROVE  ~Overlap(ramdisks'[j], ramdisks'[k])
      <4>1. CASE j \in 1..L /\ k \in 1..L
        BY <1>2, <2>1, <2>5, <3>2, <4>1 DEF DiskInv
      <4>2. CASE j = L + 1 /\ k \in 1..L
        BY <1>6, <2>1, <2>5, <4>2
      <4>3. CASE k = L + 1 /\ j \in 1..L
        <5>1. ~Overlap(d, ramdisks[j])
          BY <1>6, <2>1, <4>3
        <5> QED
          BY <2>5, <4>3, <5>1 DEF Overlap
      <4> QED
        BY <2>7, <3>2, <4>1, <4>2, <4>3
    <3>3. mem' = [a \in 0..(WordMod - 1) |-> 0] /\ strayed' \in BOOLEAN
      BY <1>1, <1>2, <1>3 DEF DiskInv
    <3>4. Len(contents') = Len(ramdisks') /\ contents' \in Seq(Rows)
      BY <2>5, <2>6
    <3> QED
      BY <2>5, <3>1, <3>2, <3>3, <3>4 DEF DiskInv
  <2>10. ASSUME ~strayed', NEW k \in 1..(L + 1) PROVE Held(k)' /\ ReadBack(k)'
    <3>1. ReadBack(k)'
      BY <1>1, <1>3 DEF ReadBack
    <3>2. CASE k \in 1..L
      <4>1. Held(k)
        BY <1>1, <1>2, <2>1, <2>10, <3>2
      <4> QED
        BY <1>1, <2>5, <2>6, <3>1, <3>2, <4>1 DEF Held
    <3>3. CASE k = L + 1
      <4>1. ASSUME NEW b \in 0..(NBlocks(d) - 1), NEW j \in 0..(d.blksize - 1)
            PROVE  mem[d.bufs + Times(b, d.blksize) + j] = 0
        <5>1. b \in Nat /\ b < NBlocks(d)
          BY <2>2
        <5>2. Times(b, d.blksize) \in Nat /\ Times(b, d.blksize) + d.blksize <= d.size
          BY <2>2, <5>1, BlockInside DEF NBlocks
        <5>3. PICK t \in Nat : t = Times(b, d.blksize) /\ t + d.blksize <= d.size
          BY <5>2
        <5>4. d.bufs + t + j \in 0..(WordMod - 1)
          BY <2>2, <5>3
        <5> QED
          BY <1>3, <5>3, <5>4
      <4>2. DOMAIN row = 0..(NBlocks(d) - 1) /\ \A b \in 0..(NBlocks(d) - 1) : row[b] = 0
        BY DEF row
      <4>3. mem' = mem /\ ramdisks'[k] = d /\ contents'[k] = row
        BY <1>1, <2>5, <2>6, <3>3
      <4>4. Held(k)'
        BY <4>1, <4>2, <4>3 DEF Held
      <4> QED
        BY <3>1, <4>4
    <3> QED
      BY <2>7, <3>2, <3>3
  <2>11. ~strayed' => \A k \in DOMAIN ramdisks' : Held(k)' /\ ReadBack(k)'
    BY <2>5, <2>10
  <2>12. DisksHoldWritten'
    BY <2>8, <2>11 DEF DisksHoldWritten, Held, ReadBack, Times
  <2> QED
    BY <1>4, <2>8, <2>9, <2>12 DEF IInv
<1>7. CASE NoRamdisk
  BY <1>5, <1>7 DEF NoRamdisk, tables
<1>8. CASE add_ramdisk
  <2>1. PICK d \in Disks :
            /\ \A k \in DOMAIN ramdisks : ~Overlap(d, ramdisks[k])
            /\ IF TableFull THEN UNCHANGED <<ramdisks, contents>>
               ELSE /\ ramdisks' = Append(ramdisks, d)
                    /\ contents' = Append(contents, [b \in 0..(d.size \div d.blksize - 1) |-> 0])
    BY <1>8 DEF add_ramdisk
  <2>2. CASE TableFull
    BY <1>5, <2>1, <2>2
  <2>3. CASE ~TableFull
    BY <1>6, <2>1, <2>3
  <2> QED
    BY <2>2, <2>3
<1> QED
  BY <1>7, <1>8

\* Each initcall enters its driver under its own number, and the last one
\* completes the tables.
LEMMA InitcallKeeps == IInv /\ Initcall => IInv'
<1> SUFFICES ASSUME IInv, Initcall PROVE IInv'
  OBVIOUS
<1> USE DEF Early, Late
<1>1. /\ pc = "initcalls" /\ pc' = IF initcalls' = {} THEN "tty1" ELSE pc
      /\ ramdisks' = ramdisks /\ seed' = seed /\ contents' = contents
      /\ mem' = mem /\ ports' = ports /\ last' = last
      /\ requests' = requests /\ strayed' = strayed
  BY DEF Initcall
<1>2. PICK driver \in initcalls :
          /\ CASE driver = "memdev"  -> register_memdev_driver
               [] driver = "tty"     -> register_tty_driver
               [] driver = "ramdisk" -> register_ramdisk_driver
          /\ initcalls' = initcalls \ {driver}
  BY DEF Initcall
<1>3. /\ TypeOK /\ DriversInv /\ LastInv /\ DiskInv
      /\ ~strayed => \A k \in DOMAIN ramdisks : Held(k) /\ ReadBack(k)
  BY DisksByDisk DEF IInv
<1>4. last.op = "none" /\ driver \in {"memdev", "tty", "ramdisk"}
  BY <1>1, <1>3 DEF LastInv, TypeOK
<1>5. /\ char_drivers \in [0..(MajorMod - 1) -> {"none", "memdev", "tty"}]
      /\ block_drivers \in [0..(MajorMod - 1) -> {"none", "ramdisk"}]
      /\ 1 \in 0..(MajorMod - 1) /\ 2 \in 0..(MajorMod - 1)
  BY <1>3, DevicesAssumption DEF TypeOK
<1>6. /\ driver = "memdev" => char_drivers' = [char_drivers EXCEPT ![1] = "memdev"]
                              /\ block_drivers' = block_drivers
      /\ driver = "tty" => char_drivers' = [char_drivers EXCEPT ![2] = "tty"]
                           /\ block_drivers' = block_drivers
      /\ driver = "ramdisk" => char_drivers' = char_drivers
                               /\ block_drivers' = [block_drivers EXCEPT ![1] = "ramdisk"]
  <2>1. /\ driver = "memdev" => register_memdev_driver
        /\ driver = "tty" => register_tty_driver
        /\ driver = "ramdisk" => register_ramdisk_driver
    BY <1>2
  <2>2. /\ driver = "memdev" => char_drivers[1] = "none"
        /\ driver = "tty" => char_drivers[2] = "none"
        /\ driver = "ramdisk" => block_drivers[1] = "none"
    BY <1>3 DEF DriversInv
  <2> QED
    BY <2>1, <2>2 DEF register_memdev_driver, register_tty_driver, register_ramdisk_driver,
                      register_char_driver, register_block_driver, Register,
                      CHR_MEMDEV, CHR_TTY, BLK_RAMDISK
<1>7. TypeOK'
  <2>1. /\ char_drivers' \in [0..(MajorMod - 1) -> {"none", "memdev", "tty"}]
        /\ block_drivers' \in [0..(MajorMod - 1) -> {"none", "ramdisk"}]
    BY <1>4, <1>5, <1>6
  <2> QED
    BY <1>1, <1>2, <1>3, <2>1 DEF TypeOK
<1>8. DriversInv'
  <2>1. pc' \in Early \cup Late /\ (pc' \in Late => initcalls' = {})
    BY <1>1
  <2>2. \A m \in 0..(MajorMod - 1) : /\ m \notin {1, 2} => char_drivers'[m] = "none"
                                     /\ m # 1 => block_drivers'[m] = "none"
    BY <1>3, <1>4, <1>5, <1>6 DEF DriversInv
  <2>3. /\ char_drivers'[1] = IF "memdev" \in initcalls' THEN "none" ELSE "memdev"
        /\ char_drivers'[2] = IF "tty" \in initcalls' THEN "none" ELSE "tty"
        /\ block_drivers'[1] = IF "ramdisk" \in initcalls' THEN "none" ELSE "ramdisk"
    <3>1. /\ char_drivers[1] = IF "memdev" \in initcalls THEN "none" ELSE "memdev"
          /\ char_drivers[2] = IF "tty" \in initcalls THEN "none" ELSE "tty"
          /\ block_drivers[1] = IF "ramdisk" \in initcalls THEN "none" ELSE "ramdisk"
          /\ initcalls' = initcalls \ {driver}
      BY <1>2, <1>3 DEF DriversInv
    <3>2. CASE driver = "memdev"
      <4>1. /\ char_drivers'[1] = "memdev" /\ char_drivers'[2] = char_drivers[2]
            /\ block_drivers'[1] = block_drivers[1]
        <5>1. char_drivers' = [char_drivers EXCEPT ![1] = "memdev"] /\ block_drivers' = block_drivers
          BY <1>6, <3>2
        <5> QED
          BY <1>5, <5>1
      <4> QED
        BY <3>1, <3>2, <4>1
    <3>3. CASE driver = "tty"
      <4>1. /\ char_drivers'[2] = "tty" /\ char_drivers'[1] = char_drivers[1]
            /\ block_drivers'[1] = block_drivers[1]
        <5>1. char_drivers' = [char_drivers EXCEPT ![2] = "tty"] /\ block_drivers' = block_drivers
          BY <1>6, <3>3
        <5> QED
          BY <1>5, <5>1
      <4> QED
        BY <3>1, <3>3, <4>1
    <3>4. CASE driver = "ramdisk"
      <4>1. /\ block_drivers'[1] = "ramdisk" /\ char_drivers' = char_drivers
        BY <1>5, <1>6, <3>4
      <4> QED
        BY <3>1, <3>4, <4>1
    <3> QED
      BY <1>4, <3>2, <3>3, <3>4
  <2> QED
    BY <2>1, <2>2, <2>3 DEF DriversInv
<1>9. LastInv'
  BY <1>1, <1>3, <1>4 DEF LastInv
<1>10. DiskInv'
  BY <1>1, <1>3 DEF DiskInv
<1>11. ~strayed' => \A k \in DOMAIN ramdisks' : Held(k)' /\ ReadBack(k)'
  BY <1>1, <1>3 DEF Held, ReadBack
<1>12. DisksHoldWritten'
  BY <1>7, <1>11 DEF DisksHoldWritten, Held, ReadBack, Times
<1>13. BootRequestsSucceed' /\ ReadsBounded'
  BY <1>1, <1>4 DEF BootRequestsSucceed, ReadsBounded
<1> QED
  BY <1>7, <1>8, <1>9, <1>10, <1>12, <1>13 DEF IInv

\* The part of the invariant that does not depend on who asked.
Common ==
    TypeOK /\ DriversInv /\ LastInv /\ DiskInv /\ DisksHoldWritten /\ ReadsBounded

\* The drivers are there when a request comes.
LEMMA DriversThere == IInv /\ pc \in Late => Drivers
<1> SUFFICES ASSUME IInv, pc \in Late PROVE Drivers
  OBVIOUS
<1>1. DriversInv /\ initcalls = {} /\ {0, 1, 2} \subseteq 0..(MajorMod - 1)
  BY DevicesAssumption DEF IInv, DriversInv
<1> QED
  BY <1>1 DEF DriversInv, Drivers

\* The types after a request.
LEMMA TypesKept ==
    ASSUME TypeOK, seed' \in Seeds, mem' \in [0..(WordMod - 1) -> Cells],
           ports' \in [PortSet -> Cells], requests' \in 0..MaxRequests,
           UNCHANGED <<char_drivers, block_drivers, ramdisks, initcalls>>
    PROVE  TypeOK'
  BY DEF TypeOK, Cells, PortSet

\* What every request leaves alone.
LEMMA RequestFrame ==
    ASSUME IInv, pc \in Late, pc' \in Late \ {"tty1"}, requests' \in 0..MaxRequests,
           NEW op, NEW file \in AllFiles, NEW pos \in Nat, NEW n \in Nat, NEW o,
           Answered(op, file, pos, n, o), o.seed \in Seeds,
           o.ports \in [PortSet -> Cells], o.mem \in [0..(WordMod - 1) -> Cells]
    PROVE  TypeOK' /\ DriversInv' /\ LastInv'
<1>1. /\ last'.op = op /\ last'.file = file /\ last'.pos = pos /\ last'.n = n
      /\ last'.ret = o.ret /\ last'.buf = o.buf
      /\ seed' = o.seed /\ mem' = o.mem /\ ports' = o.ports /\ initcalls' = initcalls
      /\ char_drivers' = char_drivers /\ block_drivers' = block_drivers /\ ramdisks' = ramdisks
  BY DEF Answered, tables
<1>2. TypeOK /\ DriversInv
  BY DEF IInv
<1>3. TypeOK'
  <2>1. /\ seed' \in Seeds /\ mem' \in [0..(WordMod - 1) -> Cells]
        /\ ports' \in [PortSet -> Cells]
    BY <1>1
  <2> QED
    BY <1>1, <1>2, <2>1, TypesKept
<1>4. DriversInv'
  BY <1>1, <1>2 DEF DriversInv
<1>5. LastInv'
  BY <1>1 DEF LastInv, Early, Late
<1> QED
  BY <1>3, <1>4, <1>5

\* A read of a RAM disk returns one block, or nothing.
LEMMA DiskReadEffect ==
    ASSUME TypeOK, NEW m \in Nat, NEW blk \in Nat
    PROVE  LET o == ramdisk_readblk(m, blk)
               d == ramdisks[m + 1]
           IN  /\ ~Added(m) => o.ret = -ENODEV
               /\ o.buf # <<>> => /\ o.ret = Len(o.buf) /\ o.ret = d.blksize
                                  /\ Times(blk, d.blksize) <= d.size
               /\ Added(m) /\ Readable(m, blk) =>
                      /\ o.ret = d.blksize
                      /\ o.buf = [k \in 1..d.blksize |->
                                      mem[(BlockStart(m, blk) + k - 1) % WordMod]]
<1> DEFINE o == ramdisk_readblk(m, blk)
           d == ramdisks[m + 1]
           bytes == [k \in 1..d.blksize |-> mem[(BlockStart(m, blk) + k - 1) % WordMod]]
<1>1. CASE ~Added(m)
  <2>1. o = Same(-ENODEV)
    BY <1>1 DEF ramdisk_readblk
  <2>2. o.ret = -ENODEV /\ o.buf = <<>>
    BY <2>1, SameFields
  <2> HIDE DEF o, d
  <2> QED
    BY <1>1, <2>2 DEF o, d
<1>2. CASE Added(m) /\ ~Readable(m, blk)
  <2>1. o = Same(-EFAULT)
    BY <1>2 DEF ramdisk_readblk
  <2>2. o.buf = <<>>
    BY <2>1, SameFields
  <2> HIDE DEF o, d
  <2> QED
    BY <1>2, <2>2 DEF o, d
<1>3. CASE Added(m) /\ Readable(m, blk)
  <2>1. o = Filled(bytes)
    BY <1>3 DEF ramdisk_readblk
  <2>2. m + 1 \in DOMAIN ramdisks
    BY <1>3, AddedFacts
  <2>3. d.blksize \in Nat \ {0} /\ d.size \in Nat
    BY <2>2, DiskFacts
  <2>4. blk <= d.size \div d.blksize
    BY <1>3 DEF Readable
  <2>5. Times(blk, d.blksize) <= d.size
    BY <2>3, <2>4, BlockReadable
  <2>6. bytes \in [1..d.blksize -> {mem[(BlockStart(m, blk) + k - 1) % WordMod] : k \in 1..d.blksize}]
    OBVIOUS
  <2> HIDE DEF o, bytes, d
  <2>7. Len(bytes) = d.blksize
    BY <2>3, <2>6, LenOf
  <2>8. o.ret = d.blksize /\ o.buf = bytes
    BY <2>1, <2>7, FilledFields
  <2> QED
    BY <1>3, <2>5, <2>7, <2>8 DEF o, d, bytes
<1> QED
  BY <1>1, <1>2, <1>3

\* A disk is known by the number of its file.
LEMMA DiskFile ==
    ASSUME NEW type, NEW major \in 0..2, NEW minor \in Nat, NEW k \in Nat \ {0},
           File(type, major, minor) = File("IT_BLK", BLK_RAMDISK, k - 1)
    PROVE  type = "IT_BLK" /\ major = 1 /\ minor = k - 1
<1>1. type = "IT_BLK" /\ DEV(major, minor) = DEV(1, k - 1)
  BY DEF File, BLK_RAMDISK
<1>2. k - 1 \in Nat /\ 1 \in 0..2
  OBVIOUS
<1>3. MAJOR(DEV(1, k - 1)) = 1 /\ MINOR(DEV(1, k - 1)) = k - 1
  BY <1>2, DevParts
<1>4. MAJOR(DEV(major, minor)) = major /\ MINOR(DEV(major, minor)) = minor
  BY DevParts
<1> QED
  BY <1>1, <1>3, <1>4

\* What a read of a block of a disk returns, while the disk is as written.
LEMMA BlockRead ==
    ASSUME TypeOK, NEW k \in DOMAIN ramdisks, ramdisks[k].bufs # NULL, Held(k),
           DOMAIN contents[k] = 0..(NBlocks(ramdisks[k]) - 1), NEW pos \in DOMAIN contents[k]
    PROVE  ramdisk_readblk(k - 1, pos % WordMod).buf
               = [j \in 1..ramdisks[k].blksize |-> contents[k][pos]]
<1> DEFINE d == ramdisks[k]
           at == d.bufs + Times(pos, d.blksize)
           bs == d.blksize
           o == ramdisk_readblk(k - 1, pos)
<1>1. k \in Nat \ {0} /\ bs \in Nat \ {0} /\ d.size \in Nat
  BY DiskFacts
<1>2. NBlocks(d) \in Nat
  BY <1>1, DivFacts DEF NBlocks
<1>3. pos \in Nat /\ pos < NBlocks(d)
  BY <1>2
<1>4. /\ at \in Nat /\ pos < WordMod /\ BlockStart(k - 1, pos) = at
      /\ \A j \in 0..(bs - 1) : (at + j) % WordMod = at + j
  BY <1>3, BlockCells
<1>5. pos % WordMod = pos
  BY <1>3, <1>4, ModSmall
<1>6. k - 1 \in Nat /\ k - 1 + 1 = k
  BY <1>1
<1>7. Added(k - 1)
  BY <1>6, AddedFacts
<1>8. Readable(k - 1, pos)
  BY <1>2, <1>3, <1>6 DEF Readable, NBlocks
<1>9. o.buf = [j \in 1..bs |-> mem[(BlockStart(k - 1, pos) + j - 1) % WordMod]]
  BY <1>3, <1>6, <1>7, <1>8, DiskReadEffect
<1>10. \A j \in 0..(bs - 1) : mem[at + j] = contents[k][pos]
  BY DEF Held
<1> HIDE DEF bs, at, o
<1>11. ASSUME NEW j \in 1..bs
       PROVE  mem[(BlockStart(k - 1, pos) + j - 1) % WordMod] = contents[k][pos]
  <2>1. PICK i \in 0..(bs - 1) : i = j - 1 /\ BlockStart(k - 1, pos) + j - 1 = at + i
    BY <1>1, <1>4
  <2> QED
    BY <1>4, <1>10, <2>1
<1>12. o.buf = [j \in 1..bs |-> contents[k][pos]]
  BY <1>9, <1>11
<1> QED
  BY <1>5, <1>12 DEF o, bs

\* Every read keeps the invariant.
LEMMA ReadStep ==
    ASSUME IInv, pc \in Late, pc' \in Late \ {"tty1"}, requests' \in 0..MaxRequests,
           NEW type \in Types, NEW major \in 0..2, NEW minor \in Nat,
           NEW pos \in Nat, NEW n \in Nat, Read(File(type, major, minor), pos, n)
    PROVE  Common'
<1> DEFINE file == File(type, major, minor)
<1>1. PICK o \in tmpfs_read(file, pos, n) : Answered("read", file, pos, n, o)
  BY DEF Read
<1>2. contents' = contents /\ strayed' = strayed
  BY DEF Read
<1>3. TypeOK /\ DriversInv /\ DiskInv /\ DisksHoldWritten /\ Drivers
  BY DriversThere DEF IInv
<1>4. ReadDone(o, type, major, minor, pos, n)
  BY <1>3, ReadEffect
<1>5. file \in AllFiles /\ file.type = type /\ file.dev_type = DEV(major, minor)
  BY DEF AllFiles, File
<1>6. MINOR(DEV(major, minor)) = minor
  BY DevParts
<1>7. o.mem = mem /\ o.ports = ports /\ o.seed \in Seeds
  BY <1>4 DEF ReadDone
<1>8. mem \in [0..(WordMod - 1) -> Cells] /\ ports \in [PortSet -> Cells]
  BY <1>3 DEF TypeOK, Cells, PortSet
<1> HIDE DEF file
<1>9. TypeOK' /\ DriversInv' /\ LastInv'
  BY <1>1, <1>5, <1>7, <1>8, RequestFrame
<1>10. /\ last'.op = "read" /\ last'.file = file /\ last'.pos = pos /\ last'.n = n
       /\ last'.ret = o.ret /\ last'.buf = o.buf /\ mem' = mem /\ ramdisks' = ramdisks
  BY <1>1, <1>7 DEF Answered, tables
<1>11. DiskInv'
  <2>1. pc' # "ramdisk"
    BY DEF Late
  <2> QED
    BY <1>2, <1>3, <1>10, <2>1 DEF DiskInv
<1>12. WordMod \in Nat \ {0} /\ pos % WordMod \in Nat
  <2>1. WordMod \in Nat \ {0}
    BY DevicesAssumption
  <2> QED
    BY <2>1, DivFacts
<1>13. ReadsBounded'
  <2>1. CASE type = "IT_CHR"
    <3>1. o.buf # <<>> => o.ret = Len(o.buf) /\ o.ret <= n
      BY <1>4, <2>1 DEF ReadDone
    <3> QED
      BY <1>5, <1>10, <2>1, <3>1 DEF ReadsBounded
  <2>2. CASE type = "IT_BLK" /\ major = 1
    <3>1. o = ramdisk_readblk(minor, pos % WordMod)
      BY <1>4, <2>2 DEF ReadDone
    <3>2. o.buf # <<>> => /\ o.ret = Len(o.buf) /\ o.ret = ramdisks[minor + 1].blksize
                          /\ (pos % WordMod) * ramdisks[minor + 1].blksize
                                 <= ramdisks[minor + 1].size
      BY <1>3, <1>12, <3>1, DiskReadEffect DEF Times
    <3>3. MINOR(last'.file.dev_type) = minor /\ last'.file.type = "IT_BLK"
      BY <1>5, <1>6, <1>10, <2>2
    <3> QED
      BY <1>10, <3>2, <3>3 DEF ReadsBounded
  <2>3. CASE type \notin {"IT_CHR", "IT_BLK"} \/ (type = "IT_BLK" /\ major # 1)
    <3>1. o.buf = <<>>
      BY <1>4, <2>3 DEF ReadDone
    <3> QED
      BY <1>10, <3>1 DEF ReadsBounded
  <2> QED
    BY <2>1, <2>2, <2>3
<1>14. ASSUME ~strayed', NEW k \in DOMAIN ramdisks' PROVE Held(k)' /\ ReadBack(k)'
  <2>1. k \in DOMAIN ramdisks /\ Held(k)
    BY <1>2, <1>3, <1>10, <1>14, DisksByDisk
  <2>2. Held(k)'
    BY <1>2, <1>10, <2>1 DEF Held
  <2>3. DOMAIN contents[k] = 0..(NBlocks(ramdisks[k]) - 1)
    BY <1>3, <2>1 DEF DiskInv
  <2>4. ASSUME ramdisks[k].bufs # NULL, file = File("IT_BLK", BLK_RAMDISK, k - 1),
               pos \in DOMAIN contents[k]
        PROVE  o.buf = [j \in 1..ramdisks[k].blksize |-> contents[k][pos]]
    <3>1. k \in Nat \ {0}
      BY <1>3, <2>1, DiskFacts
    <3>2. type = "IT_BLK" /\ major = 1 /\ minor = k - 1
      BY <2>4, <3>1, DiskFile DEF file
    <3>3. o = ramdisk_readblk(k - 1, pos % WordMod)
      BY <1>4, <3>2 DEF ReadDone
    <3> QED
      BY <1>3, <2>1, <2>3, <2>4, <3>3, BlockRead
  <2>5. ReadBack(k)'
    BY <1>2, <1>10, <2>4 DEF ReadBack
  <2> QED
    BY <2>2, <2>5
<1>15. DisksHoldWritten'
  BY <1>9, <1>14 DEF DisksHoldWritten, Held, ReadBack, Times
<1> QED
  BY <1>9, <1>11, <1>13, <1>15 DEF Common

\* A write to a RAM disk stores one block, or nothing.
LEMMA DiskWriteEffect ==
    ASSUME TypeOK, NEW m \in Nat, NEW blk, NEW v \in Values
    PROVE  LET o == ramdisk_writeblk(m, blk, v)
               d == ramdisks[m + 1]
           IN  /\ ~Added(m) => ~(o.ret > 0) /\ o.mem = mem
               /\ Added(m) =>
                      /\ o.ret > 0
                      /\ o.mem = [a \in 0..(WordMod - 1) |->
                             IF a \in {(BlockStart(m, blk) + k) % WordMod : k \in 0..(d.blksize - 1)}
                             THEN v ELSE mem[a]]
               /\ o.mem \in [0..(WordMod - 1) -> Cells]
<1> DEFINE o == ramdisk_writeblk(m, blk, v)
           d == ramdisks[m + 1]
           cells == {(BlockStart(m, blk) + k) % WordMod : k \in 0..(d.blksize - 1)}
           new == [a \in 0..(WordMod - 1) |-> IF a \in cells THEN v ELSE mem[a]]
<1>0. /\ mem \in [0..(WordMod - 1) -> Cells] /\ DOMAIN mem = 0..(WordMod - 1) /\ v \in Cells
  BY DEF TypeOK, Cells
<1>1. CASE ~Added(m)
  <2>1. o = Same(-ENODEV)
    BY <1>1 DEF ramdisk_writeblk
  <2>2. o.ret = -ENODEV /\ o.mem = mem
    BY <2>1, SameFields
  <2>3. ~(o.ret > 0)
    BY <2>2 DEF ENODEV
  <2> HIDE DEF o, d, cells
  <2> QED
    BY <1>0, <1>1, <2>2, <2>3 DEF o, d, cells
<1>2. CASE Added(m)
  <2>1. m + 1 \in DOMAIN ramdisks
    BY <1>2, AddedFacts
  <2>2. d.blksize \in Nat \ {0}
    BY <2>1, DiskFacts
  <2>3. o = [Same(d.blksize) EXCEPT !.mem = [a \in DOMAIN mem |->
                                                 IF a \in cells THEN v ELSE mem[a]]]
    BY <1>2 DEF ramdisk_writeblk
  <2> HIDE DEF o, d, cells
  <2>4. [a \in DOMAIN mem |-> IF a \in cells THEN v ELSE mem[a]] = new
    BY <1>0
  <2>5. o.ret = d.blksize /\ o.mem = new
    BY <2>3, <2>4 DEF Same
  <2>6. new \in [0..(WordMod - 1) -> Cells]
    BY <1>0
  <2>7. o.ret > 0
    BY <2>2, <2>5
  <2> QED
    BY <1>2, <2>5, <2>6, <2>7 DEF o, d, cells
<1> QED
  BY <1>1, <1>2

\* A write of a block of a disk changes this block and no other of any disk.
LEMMA BlockWrite ==
    ASSUME TypeOK, DiskInv, NEW v \in Values,
           NEW e \in DOMAIN ramdisks, ramdisks[e].bufs # NULL,
           NEW pos \in Nat, pos < NBlocks(ramdisks[e]),
           NEW k \in DOMAIN ramdisks, ramdisks[k].bufs # NULL,
           NEW b \in Nat, b < NBlocks(ramdisks[k]), NEW j \in 0..(ramdisks[k].blksize - 1)
    PROVE  LET a == ramdisks[k].bufs + Times(b, ramdisks[k].blksize) + j
           IN  ramdisk_writeblk(e - 1, pos, v).mem[a]
                   = IF k = e /\ b = pos THEN v ELSE mem[a]
<1> DEFINE d == ramdisks[k]
           f == ramdisks[e]
           a == d.bufs + Times(b, d.blksize) + j
           t == d.bufs + Times(b, d.blksize)
           u == f.bufs + Times(pos, f.blksize)
           o == ramdisk_writeblk(e - 1, pos, v)
           cells == {(BlockStart(e - 1, pos) + i) % WordMod : i \in 0..(f.blksize - 1)}
<1>1. /\ d.blksize \in Nat \ {0} /\ d.bufs \in Nat /\ d.size \in Nat
      /\ d.bufs + d.size <= WordMod /\ WordMod \in Nat
  BY DiskFacts
<1>2. /\ f.blksize \in Nat \ {0} /\ f.bufs \in Nat /\ f.size \in Nat /\ e \in Nat \ {0}
  BY DiskFacts
<1>3. /\ Times(b, d.blksize) \in Nat /\ t \in Nat /\ t + d.blksize <= d.bufs + d.size
  BY BlockCells
<1>4. /\ Times(pos, f.blksize) \in Nat /\ u \in Nat /\ u + f.blksize <= f.bufs + f.size
      /\ BlockStart(e - 1, pos) = u
      /\ \A i \in 0..(f.blksize - 1) : (u + i) % WordMod = u + i
  BY BlockCells
<1>5. Added(e - 1) /\ e - 1 \in Nat /\ e - 1 + 1 = e
  <2>1. e - 1 \in Nat /\ e - 1 + 1 = e
    BY <1>2
  <2> QED
    BY <2>1, AddedFacts
<1>6. o.mem = [x \in 0..(WordMod - 1) |-> IF x \in cells THEN v ELSE mem[x]]
  BY <1>5, DiskWriteEffect
<1>7. cells = {u + i : i \in 0..(f.blksize - 1)}
  <2> HIDE DEF u
  <2> QED
    BY <1>4
<1>8. a = t + j /\ d.bufs <= t /\ f.bufs <= u
  <2>1. PICK x \in Nat, y \in Nat : x = Times(b, d.blksize) /\ y = Times(pos, f.blksize)
    BY <1>3, <1>4
  <2>2. t = d.bufs + x /\ u = f.bufs + y /\ a = d.bufs + x + j
    BY <2>1
  <2> HIDE DEF t, u, a
  <2> QED
    BY <1>1, <1>2, <2>1, <2>2
<1>9. a \in 0..(WordMod - 1)
  <2> HIDE DEF a, t
  <2> QED
    BY <1>1, <1>3, <1>8
<1>10. CASE k = e /\ b = pos
  <2>1. a = u + j /\ j \in 0..(f.blksize - 1)
    BY <1>8, <1>10
  <2> HIDE DEF a, u, o, cells
  <2>2. a \in cells
    BY <1>7, <2>1
  <2> QED
    BY <1>6, <1>9, <1>10, <2>2 DEF a, o
<1>11. CASE ~(k = e /\ b = pos)
  <2>1. ASSUME NEW i \in 0..(f.blksize - 1) PROVE a # u + i
    <3>1. CASE k = e
      <4>1. b # pos /\ d = f
        BY <1>11, <3>1
      <4>2. Times(b, d.blksize) + j # Times(pos, d.blksize) + i
        BY <1>1, <4>1, BlocksApart
      <4>3. PICK x \in Nat, y \in Nat : x = Times(b, d.blksize) /\ y = Times(pos, d.blksize)
        BY <1>3, <1>4, <4>1
      <4>4. u = d.bufs + y /\ a = d.bufs + x + j /\ x + j # y + i /\ i \in Nat
        BY <1>2, <4>1, <4>2, <4>3
      <4> HIDE DEF a, u
      <4> QED
        BY <1>1, <4>3, <4>4
    <3>2. CASE k # e
      <4>1. ~Overlap(d, f)
        BY <3>2 DEF DiskInv
      <4>2. ~(d.bufs < f.bufs + f.size /\ f.bufs < d.bufs + d.size)
        BY <4>1 DEF Overlap
      <4>3. i \in Nat /\ j \in Nat /\ i < f.blksize /\ j < d.blksize
        BY <1>1, <1>2
      <4> HIDE DEF a, t, u, d, f
      <4> QED
        BY <1>1, <1>2, <1>3, <1>4, <1>8, <4>2, <4>3
    <3> QED
      BY <3>1, <3>2
  <2>2. a \notin cells
    <3> HIDE DEF a, u, cells
    <3> QED
      BY <1>7, <2>1
  <2> HIDE DEF a, o, cells
  <2> QED
    BY <1>6, <1>9, <1>11, <2>2 DEF a, o
<1> QED
  BY <1>10, <1>11

\* Every write keeps the invariant.
LEMMA WriteStep ==
    ASSUME IInv, pc \in Late, pc' \in Late \ {"tty1"}, requests' \in 0..MaxRequests,
           NEW type \in Types, NEW major \in 0..2, NEW minor \in Nat,
           NEW pos \in Nat, NEW n \in Nat, NEW v \in Values,
           Write(File(type, major, minor), pos, n, v)
    PROVE  Common'
<1> DEFINE file == File(type, major, minor)
<1>1. PICK o : o = tmpfs_write(file, pos, n, v)
  OBVIOUS
<1>2. file \in AllFiles /\ file.type = type /\ file.dev_type = DEV(major, minor)
  BY DEF AllFiles, File
<1>3. MINOR(file.dev_type) = minor
  BY <1>2, DevParts
<1>4. /\ Answered("write", file, pos, n, o)
      /\ contents' = IF WritesDisk(file, o) /\ pos < Blocks(minor)
                     THEN [contents EXCEPT ![minor + 1][pos] = v] ELSE contents
      /\ strayed' = (strayed \/ (WritesDisk(file, o) /\ pos >= Blocks(minor)))
  BY <1>1, <1>3 DEF Write
<1>5. TypeOK /\ DriversInv /\ DiskInv /\ DisksHoldWritten /\ Drivers
  BY DriversThere DEF IInv
<1>6. WriteDone(o, type, major, minor, pos, n, v)
  BY <1>1, <1>5, WriteEffect
<1>7. WritesDisk(file, o) <=> type = "IT_BLK" /\ o.ret > 0
  BY <1>2 DEF WritesDisk
<1> HIDE DEF file
<1>8. o.seed = seed /\ o.buf = <<>> /\ o.ports \in [PortSet -> Cells]
  BY <1>6 DEF WriteDone
<1>9. /\ mem \in [0..(WordMod - 1) -> Cells] /\ seed \in Seeds
  BY <1>5 DEF TypeOK, Cells
<1>10. o.mem \in [0..(WordMod - 1) -> Cells]
  <2>1. CASE type = "IT_BLK" /\ major = 1
    <3>1. o = ramdisk_writeblk(minor, pos % WordMod, v)
      BY <1>6, <2>1 DEF WriteDone
    <3> QED
      BY <1>5, <3>1, DiskWriteEffect
  <2>2. CASE ~(type = "IT_BLK" /\ major = 1)
    <3>1. o.mem = mem
      BY <1>6, <2>2 DEF WriteDone
    <3> QED
      BY <1>9, <3>1
  <2> QED
    BY <2>1, <2>2
<1>11. TypeOK' /\ DriversInv' /\ LastInv'
  BY <1>2, <1>4, <1>8, <1>9, <1>10, RequestFrame
<1>12. last'.op = "write" /\ mem' = o.mem /\ ramdisks' = ramdisks /\ pc' # "ramdisk"
  BY <1>4 DEF Answered, tables, Late
<1>13. ReadsBounded'
  BY <1>12 DEF ReadsBounded
<1>14. ASSUME NEW k PROVE ReadBack(k)'
  BY <1>12 DEF ReadBack
<1>15. strayed' \in BOOLEAN
  BY <1>4
<1>16. CASE ~(type = "IT_BLK" /\ major = 1 /\ Added(minor))
  <2>1. ~WritesDisk(file, o) /\ o.mem = mem
    <3>1. CASE type = "IT_BLK" /\ major = 1
      <4>1. o = ramdisk_writeblk(minor, pos % WordMod, v)
        BY <1>6, <3>1 DEF WriteDone
      <4> QED
        BY <1>5, <1>7, <1>16, <3>1, <4>1, DiskWriteEffect
    <3>2. CASE ~(type = "IT_BLK" /\ major = 1)
      BY <1>6, <1>7, <3>2 DEF WriteDone
    <3> QED
      BY <3>1, <3>2
  <2>2. contents' = contents /\ (strayed' <=> strayed) /\ mem' = mem
    BY <1>4, <1>12, <2>1
  <2>3. DiskInv'
    BY <1>5, <1>12, <1>15, <2>2 DEF DiskInv
  <2>4. ASSUME ~strayed', NEW k \in DOMAIN ramdisks' PROVE Held(k)'
    <3>1. Held(k)
      BY <1>5, <1>12, <2>2, <2>4, DisksByDisk
    <3> QED
      BY <1>12, <2>2, <3>1 DEF Held
  <2>5. DisksHoldWritten'
    BY <1>11, <1>14, <2>4 DEF DisksHoldWritten, Held, ReadBack, Times
  <2> QED
    BY <1>11, <1>13, <2>3, <2>5 DEF Common
<1>17. CASE type = "IT_BLK" /\ major = 1 /\ Added(minor)
  <2> DEFINE e == minor + 1
  <2>1. o = ramdisk_writeblk(minor, pos % WordMod, v)
    BY <1>6, <1>17 DEF WriteDone
  <2>2. WritesDisk(file, o)
    BY <1>5, <1>7, <1>17, <2>1, DiskWriteEffect
  <2>3. e \in DOMAIN ramdisks /\ ramdisks[e].bufs # NULL
    BY <1>5, <1>17, AddedFacts
  <2>4. Blocks(minor) = NBlocks(ramdisks[e])
    BY <1>17 DEF Blocks, NBlocks
  <2>5. /\ e \in Nat \ {0} /\ e - 1 = minor /\ ramdisks[e].blksize \in Nat \ {0}
        /\ ramdisks[e].size \in Nat
    BY <1>5, <2>3, DiskFacts
  <2>6. NBlocks(ramdisks[e]) \in Nat
    BY <2>5, DivFacts DEF NBlocks
  <2> HIDE DEF e
  <2>7. CASE ~(pos < NBlocks(ramdisks[e]))
    <3>1. pos >= Blocks(minor)
      BY <2>4, <2>6, <2>7
    <3>2. contents' = contents /\ strayed'
      BY <1>4, <2>2, <2>4, <2>7, <3>1
    <3>3. DiskInv'
      BY <1>5, <1>12, <1>15, <3>2 DEF DiskInv
    <3>4. DisksHoldWritten'
      BY <1>11, <3>2 DEF DisksHoldWritten
    <3> QED
      BY <1>11, <1>13, <3>3, <3>4 DEF Common
  <2>8. CASE pos < NBlocks(ramdisks[e])
    <3>1. ~(pos >= Blocks(minor))
      BY <2>4, <2>6, <2>8
    <3>2. (strayed' <=> strayed) /\ contents' = [contents EXCEPT ![e][pos] = v]
      BY <1>4, <2>2, <2>4, <2>8, <3>1 DEF e
    <3>3. pos % WordMod = pos
      <4>1. pos < WordMod
        BY <1>5, <2>3, <2>8, BlockCells
      <4> QED
        BY <4>1, ModSmall
    <3>4. o = ramdisk_writeblk(e - 1, pos, v)
      BY <2>1, <2>5, <3>3
    <3>5. /\ contents \in Seq(Rows) /\ Len(contents) = Len(ramdisks)
          /\ \A k \in DOMAIN ramdisks :
                 contents[k] \in [0..(NBlocks(ramdisks[k]) - 1) -> Cells]
      BY <1>5 DEF DiskInv
    <3>6. DOMAIN contents = DOMAIN ramdisks /\ DOMAIN contents = 1..Len(contents)
      <4>1. ramdisks \in Seq(Disks)
        BY <1>5 DEF TypeOK
      <4> QED
        BY <3>5, <4>1
    <3>7. v \in Cells
      BY DEF Cells
    <3> DEFINE row == [contents[e] EXCEPT ![pos] = v]
    <3>8. /\ row \in [0..(NBlocks(ramdisks[e]) - 1) -> Cells]
          /\ \A b \in 0..(NBlocks(ramdisks[e]) - 1) :
                 row[b] = IF b = pos THEN v ELSE contents[e][b]
      BY <2>3, <2>6, <2>8, <3>5, <3>7
    <3>9. contents' = [contents EXCEPT ![e] = row]
      BY <3>2
    <3> HIDE DEF row
    <3>10. row \in Rows
      BY <2>6, <3>8 DEF Rows
    <3>11. contents' \in Seq(Rows) /\ Len(contents') = Len(contents)
      BY <2>3, <3>5, <3>6, <3>9, <3>10
    <3>12. \A k \in DOMAIN ramdisks : contents'[k] = IF k = e THEN row ELSE contents[k]
      BY <3>6, <3>9
    <3>13. DiskInv'
      <4>1. \A k \in DOMAIN ramdisks :
                contents'[k] \in [0..(NBlocks(ramdisks[k]) - 1) -> Cells]
        BY <3>5, <3>8, <3>12
      <4> QED
        BY <1>5, <1>12, <1>15, <3>5, <3>11, <4>1 DEF DiskInv
    <3>14. ASSUME ~strayed', NEW k \in DOMAIN ramdisks' PROVE Held(k)'
      <4>1. k \in DOMAIN ramdisks /\ Held(k)
        BY <1>5, <1>12, <3>2, <3>14, DisksByDisk
      <4>2. ASSUME ramdisks[k].bufs # NULL, NEW b \in 0..(NBlocks(ramdisks[k]) - 1),
                   NEW j \in 0..(ramdisks[k].blksize - 1)
            PROVE  mem'[ramdisks[k].bufs + Times(b, ramdisks[k].blksize) + j] = contents'[k][b]
        <5> DEFINE a == ramdisks[k].bufs + Times(b, ramdisks[k].blksize) + j
        <5>1. ramdisks[k].blksize \in Nat \ {0} /\ ramdisks[k].size \in Nat
          BY <1>5, <4>1, DiskFacts
        <5>2. NBlocks(ramdisks[k]) \in Nat
          BY <5>1, DivFacts DEF NBlocks
        <5>3. b \in Nat /\ b < NBlocks(ramdisks[k])
          BY <5>2
        <5>4. mem'[a] = IF k = e /\ b = pos THEN v ELSE mem[a]
          BY <1>5, <1>12, <2>3, <2>8, <3>4, <4>1, <4>2, <5>3, BlockWrite
        <5>5. mem[a] = contents[k][b]
          BY <3>5, <4>1, <4>2 DEF Held
        <5>6. contents'[k][b] = IF k = e /\ b = pos THEN v ELSE contents[k][b]
          BY <3>8, <3>12, <4>1
        <5> QED
          BY <5>4, <5>5, <5>6
      <4>3. DOMAIN contents'[k] = 0..(NBlocks(ramdisks[k]) - 1)
        BY <3>5, <3>8, <3>12, <4>1
      <4> QED
        BY <1>12, <4>2, <4>3 DEF Held
    <3>15. DisksHoldWritten'
      BY <1>11, <1>14, <3>14 DEF DisksHoldWritten, Held, ReadBack, Times
    <3> QED
      BY <1>11, <1>13, <3>13, <3>15 DEF Common
  <2> QED
    BY <2>7, <2>8
<1> QED
  BY <1>16, <1>17
-----------------------------------------------------------------------------
(***************************************************************************)
(* The steps, and the theorems.                                            *)
(***************************************************************************)

\* The result of a write.
LEMMA WriteResult ==
    ASSUME IInv, pc \in Late, NEW type \in Types, NEW major \in 0..2, NEW minor \in Nat,
           NEW pos \in Nat, NEW n \in Nat, NEW v \in Values,
           Write(File(type, major, minor), pos, n, v)
    PROVE  /\ last'.op = "write"
           /\ type = "IT_CHR" /\ major = 2 /\ minor \in {0, 1} => last'.ret = n
<1> DEFINE file == File(type, major, minor)
<1>1. PICK o : o = tmpfs_write(file, pos, n, v)
  OBVIOUS
<1>2. Answered("write", file, pos, n, o)
  BY <1>1 DEF Write
<1>3. WriteDone(o, type, major, minor, pos, n, v)
  BY <1>1, DriversThere, WriteEffect DEF IInv
<1> HIDE DEF file
<1>4. last'.op = "write" /\ last'.ret = o.ret
  BY <1>2 DEF Answered
<1> QED
  BY <1>3, <1>4 DEF WriteDone

\* hlinit's requests succeed.
LEMMA BootKeeps ==
    IInv /\ (WriteTty1 \/ WriteConsole \/ ReadRam0 \/ EchoRead \/ EchoWrite) => IInv'
<1>0. /\ {"IT_CHR", "IT_BLK"} \subseteq Types /\ {1, 2} \subseteq 0..2
      /\ HelloLength = 2 /\ EchoLength = 2
  BY DEF Types, HelloLength, EchoLength
<1>1. IInv => requests \in 0..MaxRequests /\ TypeOK
  BY DEF IInv, TypeOK
<1>2. ASSUME IInv, WriteTty1 PROVE IInv'
  <2>1. PICK v \in Values : Write(File("IT_CHR", 2, 1), 0, HelloLength, v)
    BY <1>2 DEF WriteTty1, tty1
  <2>2. pc \in Late /\ pc' = "console" /\ pc' \in Late \ {"tty1"} /\ requests' = requests
    BY <1>2 DEF WriteTty1, Boot, Late
  <2>3. Common'
    BY <1>0, <1>1, <1>2, <2>1, <2>2, WriteStep
  <2>4. last'.ret = HelloLength
    BY <1>0, <1>2, <2>1, <2>2, WriteResult
  <2>5. BootRequestsSucceed'
    BY <2>2, <2>4 DEF BootRequestsSucceed
  <2> QED
    BY <2>3, <2>5 DEF IInv, Common
<1>3. ASSUME IInv, WriteConsole PROVE IInv'
  <2>1. PICK v \in Values : Write(File("IT_CHR", 2, 0), 0, HelloLength, v)
    BY <1>3 DEF WriteConsole, console
  <2>2. pc \in Late /\ pc' = "ram0" /\ pc' \in Late \ {"tty1"} /\ requests' = requests
    BY <1>3 DEF WriteConsole, Boot, Late
  <2>3. Common'
    BY <1>0, <1>1, <1>3, <2>1, <2>2, WriteStep
  <2>4. last'.ret = HelloLength
    BY <1>0, <1>3, <2>1, <2>2, WriteResult
  <2>5. BootRequestsSucceed'
    BY <2>2, <2>4 DEF BootRequestsSucceed
  <2> QED
    BY <2>3, <2>5 DEF IInv, Common
<1>4. ASSUME IInv, ReadRam0 PROVE IInv'
  <2>1. Read(File("IT_BLK", 1, 0), 0, EchoLength)
    BY <1>4 DEF ReadRam0, ram0
  <2>2. pc \in Late /\ pc' = "echo" /\ pc' \in Late \ {"tty1"} /\ requests' = requests
    BY <1>4 DEF ReadRam0, Boot, Late
  <2>3. Common'
    BY <1>0, <1>1, <1>4, <2>1, <2>2, ReadStep
  <2>4. PICK o \in tmpfs_read(File("IT_BLK", 1, 0), 0, EchoLength) :
            Answered("read", File("IT_BLK", 1, 0), 0, EchoLength, o)
    BY <2>1 DEF Read
  <2>5. ReadDone(o, "IT_BLK", 1, 0, 0, EchoLength)
    BY <1>0, <1>1, <1>4, <2>2, <2>4, DriversThere, ReadEffect
  <2>6. o = ramdisk_readblk(0, 0 % WordMod)
    BY <2>5 DEF ReadDone
  <2>7. 0 % WordMod = 0
    BY ModSmall, DevicesAssumption
  <2>8. Added(0) => Readable(0, 0)
    <3>1. ASSUME Added(0) PROVE 0 <= ramdisks[0 + 1].size \div ramdisks[0 + 1].blksize
      <4>1. 0 + 1 \in DOMAIN ramdisks
        BY <1>1, <1>4, <3>1, AddedFacts
      <4>2. ramdisks[0 + 1].blksize \in Nat \ {0} /\ ramdisks[0 + 1].size \in Nat
        BY <1>1, <1>4, <4>1, DiskFacts
      <4> QED
        BY <4>2, DivFacts
    <3> QED
      BY <3>1 DEF Readable
  <2>9. o.ret = IF Added(0) THEN ramdisks[0 + 1].blksize ELSE -ENODEV
    <3>1. o = ramdisk_readblk(0, 0) /\ 0 \in Nat
      BY <2>6, <2>7
    <3>2. ~Added(0) => o.ret = -ENODEV
      BY <1>1, <1>4, <3>1, DiskReadEffect
    <3>3. Added(0) => o.ret = ramdisks[0 + 1].blksize
      BY <1>1, <1>4, <2>8, <3>1, DiskReadEffect
    <3> QED
      BY <3>2, <3>3, Zenon
  <2>10. /\ last'.ret = o.ret /\ ramdisks' = ramdisks /\ block_drivers' = block_drivers
         /\ pc' = "echo"
    BY <2>2, <2>4 DEF Answered, tables
  <2>11. block_drivers[1] = "ramdisk" /\ MAJOR(ram0.dev_type) = 1 /\ MINOR(ram0.dev_type) = 0
    BY <1>0, <1>4, <2>2, DriversThere, DevParts DEF Drivers, ram0, File
  <2>12. getblksize(ram0.dev_type)' = ramdisk_getblksize(0)'
    BY <2>10, <2>11 DEF getblksize
  <2>13. Added(0)' <=> Added(0)
    BY <2>10 DEF Added
  <2>14. Added(0) => ramdisk_getblksize(0)' = ramdisks[0 + 1].blksize
    BY <2>10, <2>13 DEF ramdisk_getblksize
  <2>15. last'.ret = IF Added(0)' THEN getblksize(ram0.dev_type)' ELSE -ENODEV
    BY <2>9, <2>10, <2>12, <2>13, <2>14
  <2>16. BootRequestsSucceed'
    BY <2>10, <2>15 DEF BootRequestsSucceed
  <2> QED
    BY <2>3, <2>16 DEF IInv, Common
<1>5. ASSUME IInv, EchoRead PROVE IInv'
  <2>1. Read(File("IT_CHR", 2, 0), 0, EchoLength)
    BY <1>5 DEF EchoRead, console
  <2>2. pc \in Late /\ pc' = "echo_write" /\ pc' \in Late \ {"tty1"} /\ requests' = requests
    BY <1>5 DEF EchoRead, Boot, Late
  <2>3. Common'
    BY <1>0, <1>1, <1>5, <2>1, <2>2, ReadStep
  <2>4. PICK o \in tmpfs_read(File("IT_CHR", 2, 0), 0, EchoLength) :
            Answered("read", File("IT_CHR", 2, 0), 0, EchoLength, o)
    BY <2>1 DEF Read
  <2>5. ReadDone(o, "IT_CHR", 2, 0, 0, EchoLength)
    BY <1>0, <1>1, <1>5, <2>2, <2>4, DriversThere, ReadEffect
  <2>6. last'.ret \in 0..EchoLength
    BY <2>4, <2>5 DEF ReadDone, Answered
  <2>7. BootRequestsSucceed'
    BY <2>2, <2>6 DEF BootRequestsSucceed
  <2> QED
    BY <2>3, <2>7 DEF IInv, Common
<1>6. ASSUME IInv, EchoWrite PROVE IInv'
  <2>1. PICK v \in Values : Write(File("IT_CHR", 2, 0), 0, last.ret, v)
    BY <1>6 DEF EchoWrite, console
  <2>2. /\ pc = "echo_write" /\ pc \in Late /\ pc' = "echo" /\ pc' \in Late \ {"tty1"}
        /\ requests' = requests
    BY <1>6 DEF EchoWrite, Boot, Late
  <2>3. PICK n \in Nat : n = last.ret
    BY <1>0, <1>6, <2>2 DEF IInv, BootRequestsSucceed
  <2>4. Write(File("IT_CHR", 2, 0), 0, n, v)
    BY <2>1, <2>3
  <2>5. Common'
    BY <1>0, <1>1, <1>6, <2>2, <2>4, WriteStep
  <2>6. last'.op = "write"
    BY <1>0, <1>6, <2>2, <2>4, WriteResult
  <2>7. BootRequestsSucceed'
    BY <2>2, <2>6 DEF BootRequestsSucceed
  <2> QED
    BY <2>5, <2>7 DEF IInv, Common
<1> QED
  BY <1>2, <1>3, <1>4, <1>5, <1>6

\* The requests beside those of hlinit.
LEMMA RequestParts ==
    ASSUME NEW file \in Files
    PROVE  \E type \in Types, major \in 0..2, minor \in Nat : file = File(type, major, minor)
<1>1. Minors \subseteq Nat
  BY DevicesAssumption
<1>2. {"IT_DIR", "IT_FIFO", "IT_CHR", "IT_BLK"} = Types /\ {0, 1, 2} \subseteq 0..2
  BY DEF Types
<1> QED
  BY <1>1, <1>2 DEF Files

\* They keep the invariant too.
LEMMA RequestKeeps == IInv /\ Request => IInv'
<1> SUFFICES ASSUME IInv, Request PROVE IInv'
  OBVIOUS
<1>1. PICK file \in Files, pos \in Positions, n \in Lengths :
          Read(file, pos, n) \/ \E v \in Values : Write(file, pos, n, v)
  BY DEF Request
<1>2. PICK type \in Types, major \in 0..2, minor \in Nat : file = File(type, major, minor)
  BY RequestParts
<1>3. pos \in Nat /\ n \in Nat
  BY DevicesAssumption
<1>4. /\ pc = "echo" /\ pc' = "echo" /\ pc \in Late /\ pc' \in Late \ {"tty1"}
      /\ requests > 0 /\ requests' = requests - 1
  BY DEF Request, Late
<1>5. requests \in 0..MaxRequests /\ MaxRequests \in Nat
  BY DevicesAssumption DEF IInv, TypeOK
<1>6. requests' \in 0..MaxRequests /\ requests' # MaxRequests
  BY <1>4, <1>5
<1>7. Common'
  <2>1. CASE Read(file, pos, n)
    BY <1>2, <1>3, <1>4, <1>6, <2>1, ReadStep
  <2>2. CASE \E v \in Values : Write(file, pos, n, v)
    BY <1>2, <1>3, <1>4, <1>6, <2>2, WriteStep
  <2> QED
    BY <1>1, <2>1, <2>2
<1>8. BootRequestsSucceed'
  BY <1>4, <1>6 DEF BootRequestsSucceed
<1> QED
  BY <1>7, <1>8 DEF IInv, Common

\* Nothing changes while nobody does anything.
LEMMA StutterKeeps == IInv /\ UNCHANGED vars => IInv'
<1> SUFFICES ASSUME IInv, UNCHANGED vars PROVE IInv'
  OBVIOUS
<1>1. /\ char_drivers' = char_drivers /\ block_drivers' = block_drivers /\ ramdisks' = ramdisks
      /\ seed' = seed /\ mem' = mem /\ ports' = ports /\ pc' = pc /\ initcalls' = initcalls
      /\ last' = last /\ requests' = requests /\ contents' = contents /\ strayed' = strayed
  BY DEF vars, tables
<1>2. TypeOK' /\ DriversInv' /\ LastInv'
  BY <1>1 DEF IInv, TypeOK, DriversInv, LastInv
<1>3. DiskInv'
  BY <1>1 DEF IInv, DiskInv
<1>4. BootRequestsSucceed'
  BY <1>1 DEF IInv, BootRequestsSucceed, Added, getblksize, ramdisk_getblksize
<1>5. DisksHoldWritten'
  BY <1>1, <1>2 DEF IInv, DisksHoldWritten
<1>6. ReadsBounded'
  BY <1>1 DEF IInv, ReadsBounded
<1> QED
  BY <1>2, <1>3, <1>4, <1>5, <1>6 DEF IInv

\* The invariant is inductive.
LEMMA DevicesInductive == Spec => []IInv
<1>1. IInv /\ [Next]_vars => IInv'
  BY AddRamdiskKeeps, InitcallKeeps, BootKeeps, RequestKeeps, StutterKeeps DEF Next
<1> QED
  BY <1>1, InitGood, PTL DEF Spec

\* The requests of hlinit are carried out in full, whatever the order of the
\* initcalls, and the echo loop passes no error code on as a length.
THEOREM BootRequestsSucceedHolds == Spec => []BootRequestsSucceed
<1>1. IInv => BootRequestsSucceed
  BY DEF IInv
<1> QED
  BY <1>1, DevicesInductive, PTL

\* RAM disks hold and return what was last written to each of their blocks,
\* as long as no write was behind the end of its disk.
THEOREM DisksHoldWrittenHolds == Spec => []DisksHoldWritten
<1>1. IInv => DisksHoldWritten
  BY DEF IInv
<1> QED
  BY <1>1, DevicesInductive, PTL

\* No read of a character device stores more than was asked for, and no read
\* of a RAM disk starts behind its end.
THEOREM ReadsBoundedHolds == Spec => []ReadsBounded
<1>1. IInv => ReadsBounded
  BY DEF IInv
<1> QED
  BY <1>1, DevicesInductive, PTL

\* What one step does to the bus.
PortsStep ==
    LET dev   == last'.file.dev_type
        meant == IF last'.op = "write"
                 THEN MeantPorts(last'.file.type, MAJOR(dev), MINOR(dev), last'.pos, last'.n)
                 ELSE {}
    IN  /\ \A p \in DOMAIN ports : ports'[p] # ports[p] => p \in meant
        /\ (last' # last => \E v \in Values : \A p \in meant : ports'[p] = v)

\* A read leaves it alone.
LEMMA ReadPorts ==
    ASSUME IInv, pc \in Late, NEW type \in Types, NEW major \in 0..2, NEW minor \in Nat,
           NEW pos \in Nat, NEW n \in Nat, Read(File(type, major, minor), pos, n)
    PROVE  PortsStep
<1>1. PICK o \in tmpfs_read(File(type, major, minor), pos, n) :
          Answered("read", File(type, major, minor), pos, n, o)
  BY DEF Read
<1>2. ReadDone(o, type, major, minor, pos, n)
  BY DriversThere, ReadEffect DEF IInv
<1>3. last'.op = "read" /\ ports' = ports
  BY <1>1, <1>2 DEF Answered, ReadDone
<1>4. Values # {}
  BY DevicesAssumption
<1> QED
  BY <1>3, <1>4 DEF PortsStep

\* A write reaches the ports it is meant for.
LEMMA WritePorts ==
    ASSUME IInv, pc \in Late, NEW type \in Types, NEW major \in 0..2, NEW minor \in Nat,
           NEW pos \in Nat, NEW n \in Nat, NEW v \in Values,
           Write(File(type, major, minor), pos, n, v)
    PROVE  PortsStep
<1> DEFINE file == File(type, major, minor)
           M == MeantPorts(type, major, minor, pos, n)
<1>1. PICK o : o = tmpfs_write(file, pos, n, v)
  OBVIOUS
<1>2. Answered("write", file, pos, n, o)
  BY <1>1 DEF Write
<1>3. WriteDone(o, type, major, minor, pos, n, v)
  BY <1>1, DriversThere, WriteEffect DEF IInv
<1>4. /\ file.type = type /\ MAJOR(file.dev_type) = major /\ MINOR(file.dev_type) = minor
  BY DevParts DEF File
<1> HIDE DEF file
<1>5. /\ last'.op = "write" /\ last'.file = file /\ last'.pos = pos /\ last'.n = n
      /\ ports' = o.ports
  BY <1>2 DEF Answered
<1>6. \A p \in PortSet : ports'[p] = IF p \in M THEN v ELSE ports[p]
  BY <1>3, <1>5 DEF WriteDone
<1>7. M \subseteq PortSet
  <2>1. PortMod \in Nat \ 0..3
    BY DevicesAssumption
  <2>2. \A m \in 1..2 : COM[m] \in PortSet
    BY <2>1 DEF COM, PortSet
  <2>3. {p \in 1..(PortMod - 1) : pos > 0 /\ p >= pos /\ p < pos + n} \subseteq PortSet
    BY <2>1 DEF PortSet
  <2> QED
    BY <2>2, <2>3 DEF MeantPorts
<1>8. DOMAIN ports = PortSet
  BY DEF IInv, TypeOK, PortSet
<1>9. MeantPorts(last'.file.type, MAJOR(last'.file.dev_type), MINOR(last'.file.dev_type),
                 last'.pos, last'.n) = M
  BY <1>4, <1>5
<1> HIDE DEF M
<1> QED
  BY <1>5, <1>6, <1>7, <1>8, <1>9 DEF PortsStep

\* Every step.
LEMMA StepPorts == IInv /\ [Next]_vars => [PortsStep]_vars
<1> SUFFICES ASSUME IInv, Next PROVE PortsStep
  OBVIOUS
<1>0. /\ {"IT_CHR", "IT_BLK"} \subseteq Types /\ {1, 2} \subseteq 0..2
      /\ HelloLength = 2 /\ EchoLength = 2
  BY DEF Types, HelloLength, EchoLength
<1>1. CASE add_ramdisk \/ NoRamdisk \/ Initcall
  <2>1. ports' = ports /\ last' = last
    BY <1>1 DEF add_ramdisk, NoRamdisk, Initcall
  <2> QED
    BY <2>1 DEF PortsStep
<1>2. CASE WriteTty1
  BY <1>0, <1>2, WritePorts DEF WriteTty1, tty1, Boot, Late
<1>3. CASE WriteConsole
  BY <1>0, <1>3, WritePorts DEF WriteConsole, console, Boot, Late
<1>4. CASE ReadRam0
  BY <1>0, <1>4, ReadPorts DEF ReadRam0, ram0, Boot, Late
<1>5. CASE EchoRead
  BY <1>0, <1>5, ReadPorts DEF EchoRead, console, Boot, Late
<1>6. CASE EchoWrite
  <2>1. PICK v \in Values : Write(File("IT_CHR", 2, 0), 0, last.ret, v)
    BY <1>6 DEF EchoWrite, console
  <2>2. pc = "echo_write" /\ pc \in Late
    BY <1>6 DEF EchoWrite, Boot, Late
  <2>3. PICK n \in Nat : n = last.ret
    BY <1>0, <2>2 DEF IInv, BootRequestsSucceed
  <2>4. Write(File("IT_CHR", 2, 0), 0, n, v)
    BY <2>1, <2>3
  <2> QED
    BY <1>0, <2>2, <2>4, WritePorts
<1>7. CASE Request
  <2>1. PICK file \in Files, pos \in Positions, n \in Lengths :
            Read(file, pos, n) \/ \E v \in Values : Write(file, pos, n, v)
    BY <1>7 DEF Request
  <2>2. PICK type \in Types, major \in 0..2, minor \in Nat : file = File(type, major, minor)
    BY RequestParts
  <2>3. pos \in Nat /\ n \in Nat /\ pc \in Late
    BY <1>7, DevicesAssumption DEF Request, Late
  <2> QED
    BY <2>1, <2>2, <2>3, ReadPorts, WritePorts
<1> QED
  BY <1>1, <1>2, <1>3, <1>4, <1>5, <1>6, <1>7 DEF Next

\* Output reaches exactly the ports it is meant for.
THEOREM PortsWrittenExactlyHolds == Spec => PortsWrittenExactly
<1>1. Spec => [][PortsStep]_vars
  BY DevicesInductive, StepPorts, PTL DEF Spec
<1> QED
  BY <1>1 DEF PortsWrittenExactly, PortsStep
=============================================================================
