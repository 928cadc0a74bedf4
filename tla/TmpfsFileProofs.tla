-------------------------- MODULE TmpfsFileProofs --------------------------
(***************************************************************************)
(* Proofs about TmpfsFile, for every block size and every set of buffers,  *)
(* and that it implements ByteFile.                                        *)
(*                                                                         *)
(* BlocksHoldFile is inductive once it says that the list of blocks is a   *)
(* sequence that is never empty.  The refinement rests on it: ByteFile     *)
(* knows no blocks, so that a byte of the file has to be found where the   *)
(* quotient and the remainder of its position say.                         *)
(***************************************************************************)
EXTENDS TmpfsFile, SequenceTheorems, TLAPS

Block == [1..BlkSize -> Stray..255]

\* The block list is a list, and has at least the block of the inode.
FileInv ==
    /\ blocks \in Seq(Block) /\ Len(blocks) >= 1
    /\ BlocksHoldFile
-----------------------------------------------------------------------------
(***************************************************************************)
(* Positions and blocks.                                                   *)
(***************************************************************************)

\* Where block b starts, and the offset of a position in its block.
Start(b) == b * BlkSize
Offset(p) == p % BlkSize

\* Blocks follow each other without gaps.
LEMMA StartFacts ==
    /\ BlkSize \in Nat \ {0} /\ Start(0) = 0
    /\ \A b \in Nat : Start(b) \in Nat
    /\ \A b \in Nat : Start(b + 1) = Start(b) + BlkSize
    /\ \A a, b \in Nat : a <= b => Start(a) <= Start(b)
<1> USE BlkSizeAssumption DEF Start
<1>1. BlkSize \in Nat \ {0} /\ Start(0) = 0
  OBVIOUS
<1>2. \A b \in Nat : Start(b) \in Nat
  OBVIOUS
<1>3. \A b \in Nat : Start(b + 1) = Start(b) + BlkSize
  OBVIOUS
<1>4. ASSUME NEW a \in Nat, NEW b \in Nat, a <= b PROVE Start(a) <= Start(b)
  <2>1. b * BlkSize = a * BlkSize + (b - a) * BlkSize
    OBVIOUS
  <2>2. (b - a) * BlkSize \in Nat /\ a * BlkSize \in Nat /\ b * BlkSize \in Nat
    BY <1>4
  <2> QED
    BY <2>1, <2>2
<1> QED
  BY <1>1, <1>2, <1>3, <1>4

\* A position is the start of its block and an offset.
LEMMA Position ==
    \A p \in Nat : /\ BlockOf(p) \in Nat
                   /\ Offset(p) \in 0..(BlkSize - 1)
                   /\ p = Start(BlockOf(p)) + Offset(p)
  BY BlkSizeAssumption DEF Start, Offset, BlockOf

\* Blocks start at natural positions.
LEMMA StartNat == \A b \in Nat : Start(b) \in Nat
  BY StartFacts

\* A position is in a block with a natural number.
LEMMA BlockNat == \A p \in Nat : BlockOf(p) \in Nat
  BY Position

\* Offsets are smaller than a block.
LEMMA OffsetNat == \A p \in Nat : Offset(p) \in Nat /\ Offset(p) < BlkSize
  BY Position, BlkSizeAssumption

\* A position below n whole blocks is in one of them.
LEMMA BlockBelow ==
    ASSUME NEW p \in Nat, NEW n \in Nat
    PROVE  p < Start(n) <=> BlockOf(p) < n
<1> DEFINE q == BlockOf(p)
<1>0. /\ BlkSize \in Nat \ {0} /\ q \in Nat /\ Offset(p) \in 0..(BlkSize - 1)
      /\ Start(q) \in Nat /\ p = Start(q) + Offset(p) /\ Start(n) \in Nat
  BY Position, StartFacts
<1> HIDE DEF q
<1>1. ASSUME n <= q PROVE Start(n) <= p
  BY <1>0, <1>1, StartFacts
<1>2. ASSUME q + 1 <= n PROVE p < Start(n)
  <2>1. Start(q + 1) <= Start(n) /\ Start(q + 1) = Start(q) + BlkSize
    BY <1>0, <1>2, StartFacts
  <2> QED
    BY <1>0, <2>1
<1>3. q < n => q + 1 <= n
  BY <1>0
<1>4. ~(q < n) => n <= q
  BY <1>0
<1> QED
  BY <1>0, <1>1, <1>2, <1>3, <1>4 DEF q

\* Later positions are not in earlier blocks.
LEMMA BlockMonotone ==
    ASSUME NEW p \in Nat, NEW r \in Nat, p <= r
    PROVE  BlockOf(p) <= BlockOf(r)
<1>1. BlockOf(p) \in Nat /\ BlockOf(r) \in Nat /\ BlockOf(r) + 1 \in Nat
  BY Position
<1>2. Start(BlockOf(r) + 1) \in Nat
  BY <1>1, StartFacts
<1>3. r < Start(BlockOf(r) + 1)
  BY <1>1, BlockBelow
<1>4. p < Start(BlockOf(r) + 1)
  BY <1>2, <1>3
<1>5. BlockOf(p) < BlockOf(r) + 1
  BY <1>1, <1>4, BlockBelow
<1> QED
  BY <1>1, <1>5

\* A function on 1..m is a sequence of length m.
LEMMA FunctionIsSeq ==
    ASSUME NEW S, NEW m \in Nat, NEW f \in [1..m -> S]
    PROVE  f \in Seq(S) /\ Len(f) = m
  OBVIOUS

\* The byte at a position in terms of its block and offset.
LEMMA ByteType ==
    ASSUME NEW bs \in Seq(Block), NEW p \in Nat, p < Start(Len(bs))
    PROVE  /\ BlockOf(p) + 1 \in 1..Len(bs) /\ Offset(p) + 1 \in 1..BlkSize
           /\ ByteAt(bs, p) = bs[BlockOf(p) + 1][Offset(p) + 1]
           /\ ByteAt(bs, p) \in Stray..255
<1>0. Len(bs) \in Nat /\ BlockOf(p) \in Nat /\ Offset(p) \in 0..(BlkSize - 1)
      /\ BlkSize \in Nat
  BY Position, StartFacts
<1>1. BlockOf(p) + 1 \in 1..Len(bs)
  <2>1. BlockOf(p) < Len(bs)
    BY <1>0, BlockBelow
  <2> QED
    BY <1>0, <2>1
<1>2. Offset(p) + 1 \in 1..BlkSize
  BY <1>0
<1>3. bs[BlockOf(p) + 1] \in Block
  BY <1>1, ElementOfSeq
<1>4. ByteAt(bs, p) = bs[BlockOf(p) + 1][Offset(p) + 1]
  BY DEF ByteAt, Offset
<1>5. bs[BlockOf(p) + 1][Offset(p) + 1] \in Stray..255
  BY <1>2, <1>3 DEF Block
<1> QED
  BY <1>1, <1>2, <1>4, <1>5
-----------------------------------------------------------------------------
(***************************************************************************)
(* tmpfs_write.                                                            *)
(***************************************************************************)

\* What comes as far as the first block.
Data == Buffers \ {<<>>}

\* It is a sequence of bytes, and not empty.
LEMMA BufferFacts ==
    ASSUME NEW data \in Data
    PROVE  /\ Len(data) \in Nat /\ 1 <= Len(data) /\ Len(data) <= MaxLen
           /\ data \in Seq(0..255)
           /\ \A k \in 1..Len(data) : data[k] \in Stray..255
<1>1. data \in Seq(0..255) /\ Len(data) \in 1..MaxLen
  <2>1. data \in Seq(0..255) /\ Len(data) <= MaxLen /\ data # <<>>
    BY BuffersAssumption DEF Data
  <2>2. Len(data) \in Nat /\ Len(data) # 0
    BY <2>1, EmptySeq
  <2> QED
    BY <2>1, <2>2, BoundsAssumption
<1>2. \A k \in 1..Len(data) : data[k] \in 0..255
  BY <1>1, ElementOfSeq
<1>3. \A x \in 0..255 : x \in Stray..255
  BY DEF Stray
<1>4. Len(data) \in Nat /\ 1 <= Len(data) /\ Len(data) <= MaxLen
  BY <1>1, BoundsAssumption
<1>5. \A k \in 1..Len(data) : data[k] \in Stray..255
  BY <1>2, <1>3
<1> QED
  BY <1>1, <1>4, <1>5

\* The length alone.
LEMMA BufferLength == \A data \in Data : Len(data) \in Nat /\ 1 <= Len(data)
  BY BufferFacts

\* Is the byte at offset o of block b copied to?
Copied(pos, n, b, o) ==
    \/ b = BlockOf(pos) /\ pos <= Start(b) + o /\ Start(b) + o < pos + n
    \/ BlockOf(pos) < b /\ b <= BlockOf(pos + n - 1) /\ o < Least(n, BlkSize)

\* WrittenByte, in terms of the position p of the byte.
LEMMA WrittenCases ==
    ASSUME NEW bs \in Seq(Block), NEW pos \in Nat, NEW data \in Data,
           NEW b \in Nat, NEW o \in 0..(BlkSize - 1)
    PROVE  LET w == WrittenByte(bs, pos, data, b, o)
               p == Start(b) + o
               n == Len(data)
           IN  /\ Copied(pos, n, b, o) /\ p < pos + n => pos <= p /\ w = data[p - pos + 1]
               /\ Copied(pos, n, b, o) /\ ~(p < pos + n) => w = Stray
               /\ ~Copied(pos, n, b, o) /\ b < Len(bs) => w = bs[b + 1][o + 1]
               /\ ~Copied(pos, n, b, o) /\ ~(b < Len(bs)) => w = Stray
<1> DEFINE w == WrittenByte(bs, pos, data, b, o)
           p == Start(b) + o
           n == Len(data)
           k == Start(b) + o - pos
           c == \/ b = BlockOf(pos) /\ 0 <= k /\ k < n
                \/ BlockOf(pos) < b /\ b <= BlockOf(pos + n - 1) /\ o < Least(n, BlkSize)
<1>1. w = IF c THEN IF k < n THEN data[k + 1] ELSE Stray
          ELSE IF b < Len(bs) THEN bs[b + 1][o + 1]
          ELSE Stray
  BY DEF WrittenByte, Start
<1>2. Start(b) \in Nat /\ n \in Nat /\ BlkSize \in Nat /\ o \in Nat
  <2>1. Start(b) \in Nat
    BY StartNat
  <2>2. n \in Nat
    BY BufferLength
  <2> QED
    BY <2>1, <2>2, BlkSizeAssumption
<1> HIDE DEF n
<1>3. (k < n <=> p < pos + n) /\ (0 <= k <=> pos <= p) /\ k + 1 = p - pos + 1 /\ p \in Nat
  BY <1>2
<1> HIDE DEF k, p, w, n
<1>4. c <=> Copied(pos, n, b, o)
  BY <1>3 DEF Copied, p
<1>5. Copied(pos, n, b, o) => pos <= p
  <2>1. CASE BlockOf(pos) < b
    <3>0. BlockOf(pos) \in Nat
      BY BlockNat
    <3>1. BlockOf(pos) \in Nat /\ BlockOf(pos) + 1 \in Nat /\ BlockOf(pos) + 1 <= b
      BY <2>1, <3>0
    <3>2. pos < Start(BlockOf(pos) + 1)
      BY <3>1, BlockBelow
    <3>3. Start(BlockOf(pos) + 1) <= Start(b) /\ Start(b) \in Nat /\ Start(BlockOf(pos) + 1) \in Nat
      BY <3>1, StartFacts
    <3> QED
      BY <1>2, <3>2, <3>3 DEF p
  <2>2. CASE ~(BlockOf(pos) < b)
    BY <2>2 DEF Copied, p
  <2> QED
    BY <2>1, <2>2
<1> HIDE DEF c
<1> QED
  BY <1>1, <1>3, <1>4, <1>5 DEF w, p, n

\* Every byte after a write is a byte or Stray.
LEMMA WrittenType ==
    ASSUME NEW bs \in Seq(Block), NEW pos \in Nat, NEW data \in Data,
           NEW b \in Nat, NEW o \in 0..(BlkSize - 1)
    PROVE  WrittenByte(bs, pos, data, b, o) \in Stray..255
<1> DEFINE w == WrittenByte(bs, pos, data, b, o)
           p == Start(b) + o
           n == Len(data)
<1>1. /\ Copied(pos, n, b, o) /\ p < pos + n => pos <= p /\ w = data[p - pos + 1]
      /\ Copied(pos, n, b, o) /\ ~(p < pos + n) => w = Stray
      /\ ~Copied(pos, n, b, o) /\ b < Len(bs) => w = bs[b + 1][o + 1]
      /\ ~Copied(pos, n, b, o) /\ ~(b < Len(bs)) => w = Stray
  BY WrittenCases
<1>2. p \in Nat /\ n \in Nat /\ BlkSize \in Nat /\ o \in Nat /\ Len(bs) \in Nat
  <2>1. Start(b) \in Nat
    BY StartNat
  <2>2. n \in Nat
    BY BufferLength
  <2> QED
    BY <2>1, <2>2, BlkSizeAssumption
<1>3. Stray \in Stray..255
  BY DEF Stray
<1> HIDE DEF w, p, n
<1>4. CASE Copied(pos, n, b, o) /\ p < pos + n
  <2>1. p - pos + 1 \in 1..n
    BY <1>1, <1>2, <1>4
  <2> QED
    BY <1>1, <1>4, <2>1, BufferFacts DEF w, n
<1>5. CASE ~Copied(pos, n, b, o) /\ b < Len(bs)
  <2>1. b + 1 \in 1..Len(bs) /\ o + 1 \in 1..BlkSize
    BY <1>2, <1>5
  <2>2. bs[b + 1] \in Block
    BY <2>1, ElementOfSeq
  <2>3. bs[b + 1][o + 1] \in Stray..255
    BY <2>1, <2>2 DEF Block
  <2> QED
    BY <1>1, <1>5, <2>3 DEF w
<1> QED
  BY <1>1, <1>3, <1>4, <1>5 DEF w

\* The blocks a write leaves.
Written(bs, pos, data) ==
    [b \in 1..Largest(Len(bs), BlockOf(pos + Len(data) - 1) + 1) |->
        [o \in 1..BlkSize |-> WrittenByte(bs, pos, data, b - 1, o - 1)]]

\* There are enough of them, and none too few bytes in any.
LEMMA WrittenBlocks ==
    ASSUME NEW bs \in Seq(Block), NEW pos \in Nat, NEW data \in Data
    PROVE  LET ws == Written(bs, pos, data)
           IN  /\ ws \in Seq(Block)
               /\ Len(bs) <= Len(ws)
               /\ pos + Len(data) <= Start(Len(ws))
               /\ \A p \in Nat : p < Start(Len(ws)) =>
                      ByteAt(ws, p) = WrittenByte(bs, pos, data, BlockOf(p), Offset(p))
<1> DEFINE ws == Written(bs, pos, data)
           end == pos + Len(data)
           need == BlockOf(end - 1) + 1
           m == Largest(Len(bs), need)
<1>0. Len(data) \in Nat /\ 1 <= Len(data)
  BY BufferLength
<1>1. Len(data) \in Nat /\ end \in Nat /\ end - 1 \in Nat /\ Len(bs) \in Nat /\ BlkSize \in Nat \ {0}
  BY <1>0, BlkSizeAssumption
<1>a. BlockOf(end - 1) \in Nat
  BY <1>1, BlockNat
<1>2. need \in Nat
  BY <1>a
<1>3. m \in Nat /\ Len(bs) <= m /\ need <= m
  BY <1>1, <1>2 DEF Largest
<1>4. ASSUME NEW b \in 1..m
      PROVE  [o \in 1..BlkSize |-> WrittenByte(bs, pos, data, b - 1, o - 1)] \in Block
  <2>1. b - 1 \in Nat
    BY <1>3
  <2>2. ASSUME NEW o \in 1..BlkSize PROVE WrittenByte(bs, pos, data, b - 1, o - 1) \in Stray..255
    <3>1. o - 1 \in 0..(BlkSize - 1)
      BY <1>1
    <3> QED
      BY <2>1, <3>1, WrittenType
  <2> QED
    BY <2>2 DEF Block
<1>5. ws = [b \in 1..m |-> [o \in 1..BlkSize |-> WrittenByte(bs, pos, data, b - 1, o - 1)]]
  BY DEF Written
<1> HIDE DEF m, ws
<1>6. ws \in [1..m -> Block]
  BY <1>4, <1>5
<1>7. ws \in Seq(Block) /\ Len(ws) = m
  BY <1>3, <1>6
<1>8. end <= Start(m)
  <2>1. BlockOf(end - 1) < m
    BY <1>3, <1>a
  <2>2. end - 1 < Start(m) /\ Start(m) \in Nat
    BY <1>1, <1>3, <2>1, BlockBelow, StartFacts
  <2> QED
    BY <1>1, <2>2
<1>9. ASSUME NEW p \in Nat, p < Start(m)
      PROVE  ByteAt(ws, p) = WrittenByte(bs, pos, data, BlockOf(p), Offset(p))
  <2>1. /\ BlockOf(p) + 1 \in 1..m /\ Offset(p) + 1 \in 1..BlkSize
        /\ ByteAt(ws, p) = ws[BlockOf(p) + 1][Offset(p) + 1]
    BY <1>7, <1>9, ByteType
  <2>2. BlockOf(p) \in Nat /\ Offset(p) \in Nat
    BY BlockNat, OffsetNat
  <2>a. ASSUME NEW b \in 1..m, NEW o \in 1..BlkSize
        PROVE  ws[b][o] = WrittenByte(bs, pos, data, b - 1, o - 1)
    BY <1>5
  <2>b. PICK b \in 1..m : b = BlockOf(p) + 1
    BY <2>1
  <2>c. PICK o \in 1..BlkSize : o = Offset(p) + 1
    BY <2>1
  <2>3. ws[b][o] = WrittenByte(bs, pos, data, b - 1, o - 1)
    BY <2>a
  <2>4. b - 1 = BlockOf(p) /\ o - 1 = Offset(p)
    BY <2>2, <2>b, <2>c
  <2> QED
    BY <2>1, <2>3, <2>4, <2>b, <2>c
<1> QED
  BY <1>3, <1>7, <1>8, <1>9 DEF ws

\* ZeroBlock is a block.
LEMMA ZeroBlockType == ZeroBlock \in Block
  BY BlkSizeAssumption DEF ZeroBlock, Block, Stray

\* The copies of a write keep FileInv, whether they start in the list as it is
\* or in one that a block was added to.
LEMMA CopyInKeeps ==
    ASSUME FileInv,
           NEW bs \in Seq(Block), Len(bs) >= 1, Len(blocks) <= Len(bs),
           NEW nextblk \in {"null", "wild"},
           NEW pos \in 0..MaxPos, NEW data \in Data,
           CopyIn(bs, nextblk, pos, data)
    PROVE  FileInv'
<1> DEFINE ws == Written(bs, pos, data)
           end == pos + Len(data)
<1>0. Len(data) \in Nat /\ 1 <= Len(data) /\ Len(data) <= MaxLen
  BY BufferFacts
<1>1. MaxPos \in Nat /\ MaxLen \in Nat /\ pos \in Nat /\ pos <= MaxPos
  BY BoundsAssumption
<1>2. /\ blocks' = ws /\ size' = NewSize(end)
      /\ tail' \in {"null", "wild"} /\ answer' = <<>> /\ overrun' = 0 /\ outcome' = "ok"
  BY DEF CopyIn, Written
<1>3. ws \in Seq(Block) /\ Len(bs) <= Len(ws) /\ end <= Start(Len(ws))
  BY <1>1, WrittenBlocks
<1>4. size \in 0..(MaxPos + MaxLen) /\ size <= Start(Len(blocks)) /\ blocks \in Seq(Block)
  BY DEF FileInv, BlocksHoldFile, TypeOK, Start
<1>5. Len(bs) \in Nat /\ Len(blocks) \in Nat /\ Len(ws) \in Nat
  BY <1>3, <1>4
<1>6. Len(blocks) <= Len(ws) /\ 1 <= Len(ws)
  BY <1>3, <1>5
<1>7. Start(Len(blocks)) <= Start(Len(ws))
  BY <1>5, <1>6, StartFacts
<1>8. Start(Len(blocks)) \in Nat /\ Start(Len(ws)) \in Nat
  BY <1>5, StartNat
<1> HIDE DEF ws
<1>9. size' \in 0..(MaxPos + MaxLen) /\ size' <= Start(Len(ws))
  BY <1>0, <1>1, <1>2, <1>3, <1>4, <1>7, <1>8 DEF NewSize, Largest
<1>10. \A b \in 1..Len(ws) : ws[b] \in [1..BlkSize -> Stray..255]
  BY <1>3, ElementOfSeq DEF Block
<1>11. answer' \in Seq(Stray..255) /\ overrun' \in 0..BlkSize
  BY <1>2, BlkSizeAssumption
<1>12. TypeOK'
  BY <1>2, <1>9, <1>10, <1>11 DEF TypeOK
<1>13. size' <= Len(blocks') * BlkSize
  BY <1>2, <1>9 DEF Start
<1>14. blocks' \in Seq(Block) /\ Len(blocks') >= 1
  BY <1>2, <1>3, <1>5, <1>6
<1> QED
  BY <1>12, <1>13, <1>14 DEF FileInv, BlocksHoldFile, Block

\* A call that goes wrong changes nothing but the outcome.
LEMMA FailsKeeps ==
    ASSUME FileInv, NEW how \in {"null", "wild"}, Fails(how)
    PROVE  FileInv'
  BY DEF FileInv, BlocksHoldFile, TypeOK, Block, Fails, fileVars, readVars

\* The two ways a write copies: both start in a list CopyInKeeps knows.
LEMMA WriteCopies ==
    ASSUME FileInv, NEW pos \in 0..MaxPos, NEW data \in Data,
           tmpfs_write(pos, data)
    PROVE  \/ /\ find_blk(blocks, pos) /\ CopyIn(blocks, tail, pos, data)
           \/ /\ ~find_blk(blocks, pos) /\ find_blk(blocks, pos - 1)
              /\ CopyIn(Append(blocks, ZeroBlock), "null", pos, data)
           \/ \E how \in {"null", "wild"} : Fails(how)
<1>1. data # <<>>
  BY DEF Data
<1> QED
  BY <1>1, Zenon DEF tmpfs_write, Writes, WriteExisting, WriteAppends, WriteBeyond, WriteWild,
        Copies, LoopRunsWild

\* The list with one more block.
LEMMA AppendedBlocks ==
    ASSUME FileInv
    PROVE  LET bs == Append(blocks, ZeroBlock)
           IN  /\ bs \in Seq(Block) /\ Len(bs) = Len(blocks) + 1
               /\ \A b \in 1..Len(blocks) : bs[b] = blocks[b]
<1>1. blocks \in Seq(Block)
  BY DEF FileInv
<1> QED
  BY <1>1, ZeroBlockType, AppendProperties

\* tmpfs_write keeps the invariant.
LEMMA WriteKeeps ==
    ASSUME FileInv, NEW pos \in 0..MaxPos, NEW data \in Data,
           tmpfs_write(pos, data)
    PROVE  FileInv'
<1>0. blocks \in Seq(Block) /\ Len(blocks) >= 1 /\ Len(blocks) \in Nat /\ tail \in {"null", "wild"}
  BY DEF FileInv, BlocksHoldFile, TypeOK
<1>1. CASE CopyIn(blocks, tail, pos, data)
  <2>1. Len(blocks) <= Len(blocks)
    BY <1>0
  <2> QED
    BY <1>0, <1>1, <2>1, CopyInKeeps
<1>2. CASE CopyIn(Append(blocks, ZeroBlock), "null", pos, data)
  <2> DEFINE bs == Append(blocks, ZeroBlock)
  <2>1. bs \in Seq(Block) /\ Len(bs) = Len(blocks) + 1
    BY AppendedBlocks
  <2>2. Len(bs) >= 1 /\ Len(blocks) <= Len(bs)
    BY <1>0, <2>1
  <2> HIDE DEF bs
  <2>3. CopyIn(bs, "null", pos, data)
    BY <1>2 DEF bs
  <2> QED
    BY <2>1, <2>2, <2>3, CopyInKeeps
<1>3. ASSUME NEW how \in {"null", "wild"}, Fails(how) PROVE FileInv'
  BY <1>3, FailsKeeps
<1> QED
  BY <1>1, <1>2, <1>3, WriteCopies
-----------------------------------------------------------------------------
(***************************************************************************)
(* tmpfs_read.                                                             *)
(***************************************************************************)

\* A read that is cut off at the end of the file stays within its blocks.
LEMMA ReadWithin ==
    ASSUME FileInv, NEW pos \in Nat, NEW n \in Nat
    PROVE  LET len == ReadLength(pos, n)
           IN  /\ len \in Nat /\ len <= n
               /\ pos < size => len = Least(pos + n, size) - pos
               /\ ~(pos < size) => len = 0
               /\ len > 0 => /\ pos < size /\ pos + len <= size
                             /\ find_blk(blocks, pos) /\ find_blk(blocks, pos + len - 1)
               /\ \A k \in 1..len : pos + k - 1 \in Nat /\ pos + k - 1 < Start(Len(blocks))
<1> DEFINE len == ReadLength(pos, n)
<1>0. size \in Nat /\ Len(blocks) \in Nat /\ size <= Start(Len(blocks))
  BY BoundsAssumption DEF FileInv, BlocksHoldFile, TypeOK, Start
<1>1. len \in Nat /\ len <= n
  BY <1>0 DEF ReadLength
<1>2. pos < size => len = Least(pos + n, size) - pos
  BY <1>0 DEF ReadLength, Least
<1>3. ~(pos < size) => len = 0
  BY <1>0 DEF ReadLength
<1>4. len > 0 => pos < size /\ pos + len <= size
  BY <1>0 DEF ReadLength
<1>a. Start(Len(blocks)) \in Nat
  BY <1>0, StartNat
<1> HIDE DEF len
<1>5. ASSUME len > 0 PROVE find_blk(blocks, pos) /\ find_blk(blocks, pos + len - 1)
  <2>1. pos + len - 1 \in Nat /\ pos + len - 1 < Start(Len(blocks)) /\ pos < Start(Len(blocks))
    BY <1>0, <1>1, <1>4, <1>5, <1>a
  <2> QED
    BY <1>0, <2>1, BlockBelow DEF find_blk
<1>6. \A k \in 1..len : pos + k - 1 \in Nat /\ pos + k - 1 < Start(Len(blocks))
  BY <1>0, <1>1, <1>4, <1>a
<1> QED
  BY <1>1, <1>2, <1>3, <1>4, <1>5, <1>6 DEF len

\* What the last copy of a read takes too much stays within the block that the
\* last byte asked for is in, and there is such a copy only in another block.
LEMMA OverrunSmall ==
    ASSUME NEW pos \in Nat, NEW len \in Nat, len > 0
    PROVE  LET final == pos + len - 1
               over  == CopiedOut(pos, len) - len
           IN  /\ over \in 0..(BlkSize - 1)
               /\ over > 0 => /\ BlockOf(pos) < BlockOf(final)
                              /\ over < BlkSize - Offset(final)
<1> DEFINE final == pos + len - 1
           last == BlockOf(final)
<1>0. BlkSize \in Nat \ {0}
  BY BlkSizeAssumption
<1>1. CASE last = BlockOf(pos)
  BY <1>0, <1>1 DEF CopiedOut
<1>2. CASE last # BlockOf(pos)
  <2>0. final \in Nat /\ pos <= final /\ final = pos + len - 1
    OBVIOUS
  <2>1. last \in Nat /\ BlockOf(pos) \in Nat
    BY <2>0, BlockNat
  <2>2. BlockOf(pos) <= last
    BY <2>0, BlockMonotone
  <2>3. BlockOf(pos) < last
    BY <1>2, <2>1, <2>2
  <2>4. pos < Start(last)
    BY <2>1, <2>3, BlockBelow
  <2>5. Start(last) \in Nat
    BY <2>1, StartFacts
  <2>6. Offset(final) \in 0..(BlkSize - 1) /\ final = Start(last) + Offset(final)
    BY <2>0, Position
  <2>7. CopiedOut(pos, len) = Start(last) - pos + Least(len, BlkSize)
    BY <1>2 DEF CopiedOut, Start
  <2> HIDE DEF last, final
  <2>8. CopiedOut(pos, len) - len = Least(len, BlkSize) - 1 - Offset(final)
    BY <1>0, <2>0, <2>5, <2>6, <2>7 DEF Least
  <2>9. Offset(final) < len
    BY <1>0, <2>0, <2>4, <2>5, <2>6
  <2>10. /\ CopiedOut(pos, len) - len \in 0..(BlkSize - 1)
         /\ CopiedOut(pos, len) - len < BlkSize - Offset(final)
    BY <1>0, <2>6, <2>8, <2>9 DEF Least
  <2> QED
    BY <2>3, <2>10 DEF last, final
<1> QED
  BY <1>1, <1>2

\* tmpfs_read keeps both invariants; it never goes wrong.
LEMMA ReadKeeps ==
    ASSUME FileInv, ReadOverrunBounded, NEW pos \in 0..MaxPos, NEW n \in 0..MaxLen,
           tmpfs_read(pos, n)
    PROVE  /\ FileInv' /\ ReadOverrunBounded'
           /\ UNCHANGED <<fileVars, outcome>>
           /\ request' = Request(pos, <<>>, n)
           /\ answer' = [k \in 1..ReadLength(pos, n) |-> ByteAt(blocks, pos + k - 1)]
<1> DEFINE len == ReadLength(pos, n)
<1>0. pos \in Nat /\ n \in Nat /\ BlkSize \in Nat \ {0}
  BY BoundsAssumption, BlkSizeAssumption
<1>1. /\ len \in Nat
      /\ len > 0 => find_blk(blocks, pos) /\ find_blk(blocks, pos + len - 1)
      /\ \A k \in 1..len : pos + k - 1 \in Nat /\ pos + k - 1 < Start(Len(blocks))
  BY <1>0, ReadWithin
<1>2. \A k \in 1..len : ByteAt(blocks, pos + k - 1) \in Stray..255
  <2>1. blocks \in Seq(Block)
    BY DEF FileInv
  <2> QED
    BY <1>1, <2>1, ByteType
<1>a. len # 0 => len > 0
  BY <1>1
<1> HIDE DEF len
<1>3. /\ UNCHANGED <<fileVars, outcome>> /\ request' = Request(pos, <<>>, n)
      /\ len = 0 => answer' = <<>> /\ overrun' = 0
      /\ len > 0 => /\ answer' = [k \in 1..len |-> ByteAt(blocks, pos + k - 1)]
                    /\ overrun' = CopiedOut(pos, len) - len
  BY <1>1, <1>a DEF tmpfs_read, len, fileVars
<1>4. answer' = [k \in 1..len |-> ByteAt(blocks, pos + k - 1)]
  <2>1. CASE len = 0
    <3>1. 1..len = {}
      BY <2>1
    <3>2. answer' = <<>>
      BY <1>3, <2>1
    <3> QED
      BY <3>1, <3>2
  <2> QED
    BY <1>3, <1>a, <2>1
<1>5. answer' \in Seq(Stray..255) /\ Len(answer') = len
  <2>1. answer' \in [1..len -> Stray..255]
    BY <1>2, <1>4
  <2> QED
    BY <1>1, <2>1, FunctionIsSeq
<1>6. /\ overrun' \in 0..(BlkSize - 1)
      /\ overrun' > 0 => /\ BlockOf(pos) < BlockOf(pos + len - 1)
                         /\ overrun' < BlkSize - Offset(pos + len - 1)
  <2>1. CASE len = 0
    BY <1>0, <1>3, <2>1
  <2>2. CASE len > 0
    BY <1>0, <1>1, <1>3, <2>2, OverrunSmall
  <2> QED
    BY <1>a, <2>1, <2>2
<1>7. overrun' \in 0..BlkSize
  BY <1>0, <1>6
<1>8. ReadOverrunBounded'
  <2>1. request'.pos = pos
    BY <1>3 DEF Request
  <2> QED
    BY <1>5, <1>6, <2>1 DEF ReadOverrunBounded, Offset
<1>9. FileInv'
  BY <1>3, <1>5, <1>7 DEF FileInv, BlocksHoldFile, TypeOK, Block, fileVars
<1> QED
  BY <1>3, <1>4, <1>8, <1>9 DEF len
-----------------------------------------------------------------------------
(***************************************************************************)
(* The safety theorems.                                                    *)
(***************************************************************************)

IInv == FileInv /\ ReadOverrunBounded

\* tmpfs_create leaves a file that fits its one block.
LEMMA InitEstablishes == Init => IInv
<1> SUFFICES ASSUME Init PROVE IInv
  OBVIOUS
<1>0. BlkSize \in Nat \ {0} /\ MaxPos \in Nat /\ MaxLen \in Nat
  BY BlkSizeAssumption, BoundsAssumption
<1>1. blocks = <<ZeroBlock>> /\ ZeroBlock \in Block
  BY ZeroBlockType DEF Init
<1>2. blocks \in Seq(Block) /\ Len(blocks) = 1
  BY <1>1
<1>3. \A b \in 1..Len(blocks) : blocks[b] \in [1..BlkSize -> Stray..255]
  BY <1>2, ElementOfSeq DEF Block
<1>4. TypeOK
  BY <1>0, <1>3 DEF Init, TypeOK
<1>5. size <= Len(blocks) * BlkSize
  BY <1>0, <1>2 DEF Init
<1>6. ReadOverrunBounded
  BY <1>0 DEF Init, ReadOverrunBounded
<1> QED
  BY <1>2, <1>4, <1>5, <1>6 DEF IInv, FileInv, BlocksHoldFile

\* A write does not touch what the last read returned unless it succeeds, and
\* then nothing was read.
LEMMA WriteReturnsNothing ==
    ASSUME IInv, NEW pos \in 0..MaxPos, NEW data \in Data,
           tmpfs_write(pos, data)
    PROVE  ReadOverrunBounded'
<1>1. \/ overrun' = 0
      \/ UNCHANGED <<answer, overrun, request>>
  BY WriteCopies DEF IInv, CopyIn, Fails, readVars
<1> QED
  BY <1>1 DEF IInv, ReadOverrunBounded

\* Every call keeps the invariant.
LEMMA StepKeeps == IInv /\ [Next]_vars => IInv'
<1> SUFFICES ASSUME IInv, [Next]_vars PROVE IInv'
  OBVIOUS
<1>1. ASSUME NEW pos \in 0..MaxPos, NEW data \in Buffers, tmpfs_write(pos, data)
      PROVE  IInv' \/ UNCHANGED vars
  <2>1. CASE data = <<>>
    BY <1>1, <2>1 DEF tmpfs_write
  <2>2. CASE data # <<>>
    <3>1. data \in Data
      BY <2>2 DEF Data
    <3> QED
      BY <1>1, <3>1, WriteKeeps, WriteReturnsNothing DEF IInv
  <2> QED
    BY <2>1, <2>2
<1>2. ASSUME NEW pos \in 0..MaxPos, NEW n \in 0..MaxLen, tmpfs_read(pos, n)
      PROVE  IInv'
  BY <1>2, ReadKeeps DEF IInv
<1>3. CASE UNCHANGED vars
  BY <1>3 DEF vars, fileVars, readVars, IInv, FileInv, BlocksHoldFile, TypeOK, Block,
              ReadOverrunBounded
<1> QED
  BY <1>1, <1>2, <1>3 DEF Next

\* FileInv and ReadOverrunBounded hold in every reachable state.
LEMMA FileInductive == Spec => []IInv
  BY InitEstablishes, StepKeeps, PTL DEF Spec

\* The blocks always hold the whole file, whatever the block size and the
\* buffers are: no read, and no write within the file, runs off the list.
THEOREM BlocksHoldFileHolds == Spec => []BlocksHoldFile
<1>1. IInv => BlocksHoldFile
  BY DEF IInv, FileInv
<1> QED
  BY <1>1, FileInductive, PTL

\* A read writes nothing behind its caller's buffer unless it crosses from one
\* block into another, and then no more than the rest of the last one.
THEOREM ReadOverrunBoundedHolds == Spec => []ReadOverrunBounded
<1>1. IInv => ReadOverrunBounded
  BY DEF IInv
<1> QED
  BY <1>1, FileInductive, PTL
-----------------------------------------------------------------------------
(***************************************************************************)
(* The refinement: a file is an array of bytes.                            *)
(***************************************************************************)

\* The bytes up to a size that the blocks hold form a sequence of that length.
LEMMA ContentOf ==
    ASSUME NEW bs \in Seq(Block), NEW sz \in Nat, sz <= Start(Len(bs))
    PROVE  LET c == [k \in 1..sz |-> ByteAt(bs, k - 1)]
           IN  /\ Start(Len(bs)) \in Nat
               /\ c \in Seq(Stray..255) /\ Len(c) = sz
               /\ \A k \in 1..sz : c[k] = ByteAt(bs, k - 1)
<1> DEFINE c == [k \in 1..sz |-> ByteAt(bs, k - 1)]
<1>2. Start(Len(bs)) \in Nat
  BY StartNat
<1>3. ASSUME NEW k \in 1..sz PROVE ByteAt(bs, k - 1) \in Stray..255
  <2>1. k - 1 \in Nat /\ k - 1 < Start(Len(bs))
    BY <1>2
  <2> QED
    BY <2>1, ByteType
<1>4. c \in [1..sz -> Stray..255]
  BY <1>3
<1>5. \A k \in 1..sz : c[k] = ByteAt(bs, k - 1)
  OBVIOUS
<1> HIDE DEF c
<1>6. c \in Seq(Stray..255) /\ Len(c) = sz
  BY <1>4, FunctionIsSeq
<1> QED
  BY <1>2, <1>5, <1>6 DEF c

\* Content is a sequence as long as the file.
LEMMA ContentSeq ==
    ASSUME FileInv
    PROVE  /\ size \in Nat /\ size <= Start(Len(blocks)) /\ Start(Len(blocks)) \in Nat
           /\ Content \in Seq(Stray..255) /\ Len(Content) = size
           /\ \A k \in 1..size : Content[k] = ByteAt(blocks, k - 1)
<1>1. size \in Nat /\ size <= Start(Len(blocks)) /\ blocks \in Seq(Block)
  BY BoundsAssumption DEF FileInv, BlocksHoldFile, TypeOK, Start
<1> QED
  BY <1>1, ContentOf DEF Content

\* Which bytes a write copies: all those that were asked for, ...
LEMMA AskedIsCopied ==
    ASSUME NEW pos \in Nat, NEW n \in Nat, NEW p \in Nat, pos <= p, p < pos + n
    PROVE  Copied(pos, n, BlockOf(p), Offset(p))
<1> DEFINE b == BlockOf(p)
           o == Offset(p)
           last == BlockOf(pos + n - 1)
<1>1. b \in Nat /\ o \in Nat /\ o < BlkSize /\ p = Start(b) + o /\ Start(b) \in Nat
  BY Position, BlockNat, OffsetNat, StartNat
<1>2. pos + n - 1 \in Nat /\ p <= pos + n - 1
  OBVIOUS
<1>3. BlockOf(pos) <= b /\ b <= last /\ BlockOf(pos) \in Nat /\ last \in Nat
  BY <1>2, BlockMonotone, BlockNat
<1>4. CASE b = BlockOf(pos)
  <2>1. pos <= Start(b) + o /\ Start(b) + o < pos + n
    BY <1>1
  <2> QED
    BY <1>4, <2>1 DEF Copied
<1>5. CASE BlockOf(pos) < b
  <2>1. pos < Start(b)
    BY <1>1, <1>5, BlockBelow
  <2> HIDE DEF b, o
  <2>2. o < n
    BY <1>1, <2>1
  <2>3. o < Least(n, BlkSize)
    BY <1>1, <2>2 DEF Least
  <2> QED
    BY <1>3, <1>5, <2>3 DEF Copied, b, o, last
<1> HIDE DEF b, last
<1>6. b = BlockOf(pos) \/ BlockOf(pos) < b
  BY <1>1, <1>3
<1> QED
  BY <1>4, <1>5, <1>6 DEF b

\* ... and behind them only bytes of the last block, if it is not the first.
LEMMA CopiedBehind ==
    ASSUME NEW pos \in Nat, NEW n \in Nat, n >= 1, NEW p \in Nat, pos + n <= p,
           Copied(pos, n, BlockOf(p), Offset(p))
    PROVE  BlockOf(p) = BlockOf(pos + n - 1) /\ BlockOf(pos) # BlockOf(pos + n - 1)
<1> DEFINE b == BlockOf(p)
           last == BlockOf(pos + n - 1)
<1>1. b \in Nat /\ Offset(p) \in Nat /\ p = Start(b) + Offset(p) /\ Start(b) \in Nat
  BY Position, BlockNat, OffsetNat, StartNat
<1>2. pos + n - 1 \in Nat /\ pos + n - 1 <= p
  OBVIOUS
<1>3. last <= b /\ BlockOf(pos) \in Nat /\ last \in Nat
  BY <1>2, BlockMonotone, BlockNat
<1>4. BlockOf(pos) < b /\ b <= last
  <2>1. ~(Start(b) + Offset(p) < pos + n)
    BY <1>1
  <2> QED
    BY <2>1 DEF Copied
<1> HIDE DEF b, last
<1>5. b = last /\ BlockOf(pos) # last
  BY <1>1, <1>3, <1>4
<1> QED
  BY <1>5 DEF b, last

\* A write that copies is a write to the array: what was asked for is there,
\* and only a gap, or the rest of the last of several blocks, is lost.
LEMMA CopyInRefines ==
    ASSUME FileInv, FileInv',
           NEW bs \in Seq(Block), Len(blocks) <= Len(bs),
           \A b \in 1..Len(blocks) : bs[b] = blocks[b],
           NEW nextblk, NEW pos \in 0..MaxPos, NEW data \in Data,
           CopyIn(bs, nextblk, pos, data)
    PROVE  Abstract!Write(pos, data)
<1> DEFINE ws == Written(bs, pos, data)
           n == Len(data)
           end == pos + n
<1>0. n \in Nat /\ 1 <= n
  BY BufferLength
<1>1. pos \in Nat /\ end \in Nat
  BY <1>0, BoundsAssumption
<1>2. /\ blocks' = ws /\ size' = Largest(size, end) /\ answer' = <<>>
      /\ request' = Request(pos, data, n)
  BY DEF CopyIn, Written, NewSize
<1>3. /\ size \in Nat /\ size <= Start(Len(blocks)) /\ Start(Len(blocks)) \in Nat
      /\ Len(Content) = size
      /\ \A k \in 1..size : Content[k] = ByteAt(blocks, k - 1)
  BY ContentSeq
<1>4. /\ size' \in Nat /\ size' <= Start(Len(ws)) /\ Start(Len(ws)) \in Nat
      /\ Len(Content') = size'
      /\ \A k \in 1..size' : Content'[k] = ByteAt(ws, k - 1)
  <2>1. size' \in Nat /\ size' <= Start(Len(blocks')) /\ blocks' \in Seq(Block)
    BY BoundsAssumption DEF FileInv, BlocksHoldFile, TypeOK, Start, Block
  <2>2. /\ Start(Len(blocks')) \in Nat
        /\ Len(Content') = size'
        /\ \A k \in 1..size' : Content'[k] = ByteAt(blocks', k - 1)
    BY <2>1, ContentOf DEF Content
  <2> QED
    BY <1>2, <2>1, <2>2
<1>5. \A p \in Nat : p < Start(Len(ws)) =>
          ByteAt(ws, p) = WrittenByte(bs, pos, data, BlockOf(p), Offset(p))
  BY <1>1, WrittenBlocks
<1> HIDE DEF ws, n
<1>6. Len(Content') = IF end < Len(Content) THEN Len(Content) ELSE end
  BY <1>1, <1>2, <1>3, <1>4 DEF Largest
<1>7. ASSUME NEW k \in 1..Len(Content')
      PROVE  \/ k \in (pos + 1)..end /\ Content'[k] = data[k - pos]
             \/ k \in (Len(Content) + 1)..pos
             \/ Abstract!Damaged(k, pos, end)
             \/ /\ k \in DOMAIN Content \ ((pos + 1)..end)
                /\ Content'[k] = Content[k]
  <2>1. k \in 1..size' /\ Content'[k] = ByteAt(ws, k - 1)
    BY <1>4
  <2>2. PICK p \in Nat : p = k - 1
    BY <2>1, <1>4
  <2>3. k = p + 1 /\ p < size' /\ p < Start(Len(ws))
    BY <1>4, <2>1, <2>2
  <2> DEFINE b == BlockOf(p)
             o == Offset(p)
             w == WrittenByte(bs, pos, data, b, o)
             c == Copied(pos, n, b, o)
  <2>4. Content'[k] = w
    BY <1>5, <2>1, <2>2, <2>3
  <2>5. b \in Nat /\ o \in 0..(BlkSize - 1) /\ p = Start(b) + o
    BY Position
  <2>6. /\ c /\ p < pos + n => pos <= p /\ w = data[p - pos + 1]
        /\ ~c /\ b < Len(bs) => w = bs[b + 1][o + 1]
    BY <1>1, <2>5, WrittenCases DEF n
  <2>7. CASE c /\ p < end
    <3>1. k \in (pos + 1)..end /\ p - pos + 1 = k - pos
      BY <1>0, <1>1, <2>3, <2>6, <2>7
    <3> QED
      BY <2>4, <2>6, <2>7, <3>1
  <2>8. CASE c /\ ~(p < end)
    <3>1. end <= p /\ end <= p
      BY <1>1, <2>8
    <3>2. b = BlockOf(end - 1) /\ BlockOf(pos) # BlockOf(end - 1)
      BY <1>0, <1>1, <2>8, <3>1, CopiedBehind
    <3>3. k > end /\ k - 1 = p /\ pos + 1 - 1 = pos
      BY <1>1, <2>3, <3>1
    <3> QED
      BY <3>2, <3>3 DEF Abstract!Damaged, Abstract!SameBlock, BlockOf
  <2>9. CASE ~c
    <3>1. ~(pos <= p /\ p < end)
      BY <1>0, <1>1, <2>9, AskedIsCopied
    <3>2. CASE p < size
      <4>1. p < Start(Len(blocks)) /\ blocks \in Seq(Block)
        BY <1>3, <3>2 DEF FileInv
      <4>2. b + 1 \in 1..Len(blocks) /\ ByteAt(blocks, p) = blocks[b + 1][o + 1]
        BY <4>1, ByteType
      <4>3. Len(blocks) \in Nat /\ Len(bs) \in Nat
        BY <4>1
      <4>4. b < Len(bs)
        BY <2>5, <4>2, <4>3
      <4>5. w = ByteAt(blocks, p)
        <5>1. bs[b + 1] = blocks[b + 1]
          BY <4>2
        <5> QED
          BY <2>6, <2>9, <4>2, <4>4, <5>1
      <4>6. k \in 1..size /\ k \notin (pos + 1)..end
        BY <1>1, <1>3, <2>3, <3>1, <3>2
      <4>7. Content[k] = ByteAt(blocks, p)
        BY <1>3, <2>2, <4>6
      <4>8. DOMAIN Content = 1..size
        BY DEF Content
      <4> QED
        BY <2>4, <4>5, <4>6, <4>7, <4>8
    <3>3. CASE ~(p < size)
      <4>1. k \in (size + 1)..pos
        BY <1>1, <1>2, <1>3, <2>3, <3>1, <3>3 DEF Largest
      <4> QED
        BY <1>3, <4>1
    <3> QED
      BY <3>2, <3>3
  <2> QED
    BY <2>7, <2>8, <2>9
<1> QED
  BY <1>2, <1>6, <1>7 DEF Abstract!Write, Abstract!Request, Request, n

\* A read returns the bytes of the array from its position on.
LEMMA ReadRefines ==
    ASSUME IInv, NEW pos \in 0..MaxPos, NEW n \in 0..MaxLen, tmpfs_read(pos, n)
    PROVE  Abstract!Read(pos, n)
<1> DEFINE len == ReadLength(pos, n)
           to == Least(pos + n, size)
           sub == SubSeq(Content, pos + 1, to)
<1>0. pos \in Nat /\ n \in Nat
  BY BoundsAssumption
<1>1. /\ UNCHANGED <<blocks, size>> /\ request' = Request(pos, <<>>, n)
      /\ answer' = [k \in 1..len |-> ByteAt(blocks, pos + k - 1)]
  BY ReadKeeps DEF IInv, fileVars
<1>2. /\ len \in Nat
      /\ pos < size => len = to - pos
      /\ ~(pos < size) => len = 0
  BY <1>0, ReadWithin DEF IInv
<1>3. /\ size \in Nat /\ Content \in Seq(Stray..255) /\ Len(Content) = size
      /\ \A k \in 1..size : Content[k] = ByteAt(blocks, k - 1)
  BY ContentSeq DEF IInv
<1>4. to \in Int /\ pos + 1 \in Int /\ to <= size /\ (~(pos < size) => to < pos + 1)
  BY <1>0, <1>3 DEF Least
<1> HIDE DEF len, to, sub
<1>5. answer' = sub
  <2>1. CASE len = 0
    <3>1. to < pos + 1
      BY <1>0, <1>2, <1>3, <1>4, <2>1
    <3>2. sub = <<>>
      BY <1>4, <3>1, SubSeqEmpty DEF sub
    <3>3. 1..len = {}
      BY <2>1
    <3> QED
      BY <1>1, <3>2, <3>3
  <2>2. CASE len # 0
    <3>1. pos < size /\ len = to - pos /\ pos + 1 <= to /\ to - (pos + 1) + 1 = len
      BY <1>0, <1>2, <1>3, <1>4, <2>2
    <3>2. \A i \in (pos + 1)..to : i \in 1..Len(Content)
      BY <1>0, <1>3, <1>4
    <3>3. \A i \in (pos + 1)..to : Content[i] \in Stray..255
      BY <1>3, <3>2, ElementOfSeq
    <3>4. /\ sub \in Seq(Stray..255) /\ Len(sub) = len
          /\ \A i \in 1..len : sub[i] = Content[pos + 1 + i - 1]
      <4>1. /\ sub \in Seq(Stray..255)
            /\ Len(sub) = IF pos + 1 <= to THEN to - (pos + 1) + 1 ELSE 0
            /\ \A i \in 1..(to - (pos + 1) + 1) : sub[i] = Content[pos + 1 + i - 1]
        BY <1>4, <3>3, SubSeqProperties DEF sub
      <4> QED
        BY <3>1, <4>1
    <3>5. ASSUME NEW i \in 1..len PROVE sub[i] = ByteAt(blocks, pos + i - 1)
      <4>1. pos + i \in 1..size /\ pos + 1 + i - 1 = pos + i
        BY <1>0, <1>2, <1>3, <1>4, <3>1
      <4> QED
        BY <1>3, <3>4, <4>1
    <3>6. sub = [i \in 1..len |-> sub[i]]
      BY <3>4
    <3> QED
      BY <1>1, <3>5, <3>6
  <2> QED
    BY <2>1, <2>2
<1>6. Content' = Content
  BY <1>1 DEF Content
<1> QED
  BY <1>1, <1>3, <1>5, <1>6
  DEF Abstract!Read, Abstract!Request, Request, Abstract!Least, Least, sub, to

\* A call that goes wrong is no step of the array.
LEMMA FailsRefines ==
    ASSUME NEW how, Fails(how)
    PROVE  UNCHANGED <<request, Content, answer>>
  BY DEF Fails, fileVars, readVars, Content

\* A file is an array of bytes for every caller: whatever the block size and
\* the buffers are, the loops of tmpfs_read and tmpfs_write lose, move and
\* repeat no byte but those that ByteFile gives up.
THEOREM ImplementsByteFileHolds == Spec => ImplementsByteFile
<1>1. Init => Abstract!Init
  <2> SUFFICES ASSUME Init PROVE Abstract!Init
    OBVIOUS
  <2>1. size = 0 /\ answer = <<>> /\ request = Request(0, <<>>, 0)
    BY DEF Init
  <2>2. Content = <<>>
    <3>1. 1..0 = {}
      OBVIOUS
    <3> QED
      BY <2>1, <3>1 DEF Content
  <2> QED
    BY <2>1, <2>2 DEF Abstract!Init, Abstract!Request, Request
<1>2. IInv /\ IInv' /\ [Next]_vars => [Abstract!Next]_<<request, Content, answer>>
  <2> SUFFICES ASSUME IInv, IInv', [Next]_vars
               PROVE  Abstract!Next \/ UNCHANGED <<request, Content, answer>>
    OBVIOUS
  <2>a. CASE UNCHANGED vars
    BY <2>a DEF vars, fileVars, readVars, Content
  <2>1. ASSUME NEW pos \in 0..MaxPos, NEW data \in Buffers, tmpfs_write(pos, data),
               data # <<>>
        PROVE  Abstract!Next \/ UNCHANGED <<request, Content, answer>>
    <3>0. blocks \in Seq(Block) /\ Len(blocks) \in Nat /\ data \in Data
      BY <2>1 DEF IInv, FileInv, Data
    <3>1. CASE CopyIn(blocks, tail, pos, data)
      <4>1. Len(blocks) <= Len(blocks)
        BY <3>0
      <4>2. Abstract!Write(pos, data)
        BY <3>0, <3>1, <4>1, CopyInRefines DEF IInv
      <4> QED
        BY <4>2 DEF Abstract!Next
    <3>2. CASE CopyIn(Append(blocks, ZeroBlock), "null", pos, data)
      <4> DEFINE bs == Append(blocks, ZeroBlock)
      <4>1. /\ bs \in Seq(Block) /\ Len(bs) = Len(blocks) + 1
            /\ \A b \in 1..Len(blocks) : bs[b] = blocks[b]
        BY AppendedBlocks DEF IInv
      <4>2. Len(blocks) <= Len(bs)
        BY <3>0, <4>1
      <4> HIDE DEF bs
      <4>3. CopyIn(bs, "null", pos, data)
        BY <3>2 DEF bs
      <4>4. Abstract!Write(pos, data)
        BY <3>0, <4>1, <4>2, <4>3, CopyInRefines DEF IInv
      <4> QED
        BY <4>4 DEF Abstract!Next
    <3>3. ASSUME NEW how \in {"null", "wild"}, Fails(how)
          PROVE  UNCHANGED <<request, Content, answer>>
      BY <3>3, FailsRefines
    <3>4. FileInv
      BY DEF IInv
    <3> QED
      BY <2>1, <3>0, <3>1, <3>2, <3>3, <3>4, WriteCopies
  <2>2. ASSUME NEW pos \in 0..MaxPos, NEW n \in 0..MaxLen, tmpfs_read(pos, n)
        PROVE  Abstract!Next
    BY <2>2, ReadRefines DEF Abstract!Next
  <2>3. ASSUME NEW pos \in 0..MaxPos, NEW data \in Buffers, tmpfs_write(pos, data),
               data = <<>>
        PROVE  UNCHANGED vars
    BY <2>3 DEF tmpfs_write
  <2> QED
    BY <2>1, <2>2, <2>3, <2>a DEF Next
<1> QED
  BY <1>1, <1>2, FileInductive, PTL DEF Spec, ImplementsByteFile, Abstract!Spec
=============================================================================
