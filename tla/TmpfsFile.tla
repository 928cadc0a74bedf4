----------------------------- MODULE TmpfsFile -----------------------------
(***************************************************************************)
(* Regular files of kernel/fs/tmpfs.c: tmpfs_read and tmpfs_write over a   *)
(* linked list of blocks.                                                  *)
(*                                                                         *)
(* The first block is part of the inode, the others come from malloc.  The *)
(* loops of both functions copy as many bytes per block as the caller      *)
(* asked for in total, or a whole block, instead of what is left: the last *)
(* copy of a write takes Stray bytes from behind the caller's buffer, and  *)
(* that of a read writes behind it.  A block that is allocated inside the  *)
(* loop is not initialised: its bytes are Stray, and its nextblk is null   *)
(* or a wild pointer.                                                      *)
(***************************************************************************)
EXTENDS Integers, Sequences

CONSTANTS
    BlkSize,    \* TMPFS_BLK_SIZE, 4096 in the code
    Buffers,    \* what callers write at once, sequences of bytes
    MaxPos,     \* bound: largest position of a read or a write
    MaxLen      \* bound: most bytes read or written at once

ASSUME BlkSizeAssumption == BlkSize \in Nat \ {0}
ASSUME BuffersAssumption ==
    \A data \in Buffers : data \in Seq(0..255) /\ Len(data) <= MaxLen
ASSUME BoundsAssumption == MaxPos \in Nat /\ MaxLen \in Nat

VARIABLES
    blocks,     \* the blocks of the file, each a sequence of BlkSize bytes
    tail,       \* nextblk of the last one: "null" or "wild"
    size,
    answer,     \* history: the bytes the last call returned
    overrun,    \* history: how far it wrote behind the caller's buffer
    request,    \* history: what the last call that did not go wrong asked for
    outcome     \* "ok", or how the last call went wrong: "null" or "wild"

fileVars == <<blocks, tail, size>>
readVars == <<answer, overrun>>
vars == <<fileVars, readVars, request, outcome>>

Stray == -1
Request(pos, data, n) == [pos |-> pos, data |-> data, n |-> n]
Least(a, b) == IF a < b THEN a ELSE b
Largest(a, b) == IF a < b THEN b ELSE a
ZeroBlock == [k \in 1..BlkSize |-> 0]

BlockOf(pos) == pos \div BlkSize
ByteAt(bs, pos) == bs[BlockOf(pos) + 1][(pos % BlkSize) + 1]

\* find_blk finds a block, or else runs into the end of the list.
find_blk(bs, pos) == BlockOf(pos) < Len(bs)
-----------------------------------------------------------------------------
(***************************************************************************)
(* tmpfs_write.                                                            *)
(***************************************************************************)

Fails(how) == outcome' = how /\ UNCHANGED <<fileVars, readVars, request>>

\* Mutant: the copy into a further block starts over with the buffer.
WrittenByteRestarts(bs, pos, data, b, o) ==
    LET k == IF b > BlockOf(pos) THEN o ELSE b * BlkSize + o - pos
        copied == /\ BlockOf(pos) <= b /\ b <= BlockOf(pos + Len(data) - 1)
                  /\ 0 <= k /\ k < Len(data)
    IN  IF copied THEN data[k + 1]
        ELSE IF b < Len(bs) THEN bs[b + 1][o + 1]
        ELSE Stray

\* The byte at offset o of block b after data was written at pos: the slice
\* in the first block, and Least(n, BlkSize) bytes of each further one.
WrittenByte(bs, pos, data, b, o) ==
    LET first == BlockOf(pos)
        last  == BlockOf(pos + Len(data) - 1)
        k     == b * BlkSize + o - pos
        copied == \/ b = first /\ 0 <= k /\ k < Len(data)
                  \/ first < b /\ b <= last /\ o < Least(Len(data), BlkSize)
    IN  IF copied THEN IF k < Len(data) THEN data[k + 1] ELSE Stray
        ELSE IF b < Len(bs) THEN bs[b + 1][o + 1]
        ELSE Stray

\* Mutant: the size is one too large.
NewSizeOffByOne(end) == Largest(size, end + 1)

NewSize(end) == Largest(size, end)

\* The copies, once the first block is there; nextblk is that of the last.
CopyIn(bs, nextblk, pos, data) ==
    LET end  == pos + Len(data)
        need == BlockOf(end - 1) + 1
    IN  /\ blocks' = [b \in 1..Largest(Len(bs), need) |->
                         [o \in 1..BlkSize |-> WrittenByte(bs, pos, data, b - 1, o - 1)]]
        /\ size' = NewSize(end)
        /\ tail' \in IF need > Len(bs) THEN {"null", "wild"} ELSE {nextblk}
        /\ request' = Request(pos, data, Len(data))
        /\ outcome' = "ok"
        /\ answer' = <<>> /\ overrun' = 0

\* The loop follows a wild nextblk: that of the last block, or that of the
\* first one it allocated itself.
LoopRunsWild(bs, nextblk, pos, data) ==
    LET need == BlockOf(pos + Len(data) - 1) + 1
    IN  /\ \/ need > Len(bs) /\ nextblk = "wild"
           \/ need > Len(bs) + 1
        /\ Fails("wild")

Copies(bs, nextblk, pos, data) ==
    \/ /\ ~(BlockOf(pos + Len(data) - 1) >= Len(bs) /\ nextblk = "wild")
       /\ CopyIn(bs, nextblk, pos, data)
    \/ LoopRunsWild(bs, nextblk, pos, data)

WriteExisting(pos, data) ==
    /\ find_blk(blocks, pos)
    /\ Copies(blocks, tail, pos, data)

\* The position is just behind the last block: a block is added.
WriteAppends(pos, data) ==
    /\ ~find_blk(blocks, pos)
    /\ tail = "null"
    /\ find_blk(blocks, pos - 1)
    /\ Copies(Append(blocks, ZeroBlock), "null", pos, data)

\* The position is further behind, and blk is null.
WriteBeyond(pos, data) ==
    /\ ~find_blk(blocks, pos)
    /\ tail = "null"
    /\ ~find_blk(blocks, pos - 1)
    /\ Fails("null")

\* find_blk itself follows a wild pointer.
WriteWild(pos, data) ==
    /\ ~find_blk(blocks, pos)
    /\ tail = "wild"
    /\ Fails("wild")

Writes(pos, data) ==
    \/ WriteExisting(pos, data)
    \/ WriteAppends(pos, data)
    \/ WriteBeyond(pos, data)
    \/ WriteWild(pos, data)

\* A write of no bytes returns before it looks for a block.
tmpfs_write(pos, data) ==
    /\ outcome = "ok"
    /\ IF data = <<>> THEN UNCHANGED vars ELSE Writes(pos, data)
-----------------------------------------------------------------------------
(***************************************************************************)
(* tmpfs_read.                                                             *)
(***************************************************************************)

\* n is cut off at the end of the file.
ReadLength(pos, n) == IF pos >= size THEN 0
                      ELSE IF pos + n >= size THEN size - pos ELSE n

\* Mutant: the loop runs while pos <= end.
CopiedOutOneMore(pos, n) ==
    LET last == BlockOf(pos + n)
    IN  IF last = BlockOf(pos) THEN n
        ELSE last * BlkSize - pos + Least(n, BlkSize)

\* How many bytes are copied to the caller's buffer.
CopiedOut(pos, n) ==
    LET last == BlockOf(pos + n - 1)
    IN  IF last = BlockOf(pos) THEN n
        ELSE last * BlkSize - pos + Least(n, BlkSize)

tmpfs_read(pos, n) ==
    LET len == ReadLength(pos, n)
    IN  /\ outcome = "ok"
        /\ IF len = 0 \/ (~find_blk(blocks, pos) /\ tail = "null")
           THEN /\ answer' = <<>> /\ overrun' = 0
                /\ request' = Request(pos, <<>>, n)
                /\ UNCHANGED outcome
           ELSE IF find_blk(blocks, pos + len - 1)
           THEN /\ answer' = [k \in 1..len |-> ByteAt(blocks, pos + k - 1)]
                /\ overrun' = CopiedOut(pos, len) - len
                /\ request' = Request(pos, <<>>, n)
                /\ UNCHANGED outcome
           ELSE Fails(tail)
        /\ UNCHANGED fileVars
-----------------------------------------------------------------------------
\* tmpfs_create leaves a file with one cleared block.
Init ==
    /\ blocks = <<ZeroBlock>> /\ tail = "null" /\ size = 0
    /\ answer = <<>> /\ overrun = 0 /\ request = Request(0, <<>>, 0) /\ outcome = "ok"

Next ==
    \/ \E pos \in 0..MaxPos, data \in Buffers : tmpfs_write(pos, data)
    \/ \E pos \in 0..MaxPos, n \in 0..MaxLen : tmpfs_read(pos, n)

Spec == Init /\ [][Next]_vars
-----------------------------------------------------------------------------
(***************************************************************************)
(* Properties.                                                             *)
(***************************************************************************)

\* Type invariant.
TypeOK ==
    /\ \A b \in 1..Len(blocks) : blocks[b] \in [1..BlkSize -> Stray..255]
    /\ tail \in {"null", "wild"}
    /\ size \in 0..(MaxPos + MaxLen)
    /\ answer \in Seq(Stray..255)
    /\ overrun \in 0..BlkSize
    /\ outcome \in {"ok", "null", "wild"}

Content == [k \in 1..size |-> ByteAt(blocks, k - 1)]

Abstract == INSTANCE ByteFile WITH content <- Content

\* A file is an array of bytes for every caller: no loop of tmpfs_read or
\* tmpfs_write loses, moves or repeats a byte, and what tmpfs_write copies
\* too much of stays within the bounds ByteFile gives.
ImplementsByteFile == Abstract!Spec

\* The blocks have their size and hold the whole file, so that no read runs off the list, and a
\* write does so only behind the last block.
BlocksHoldFile == TypeOK /\ size <= Len(blocks) * BlkSize

\* A read writes behind the caller's buffer only if it crosses from one block
\* into another, and then no more than the last of them holds behind the last
\* byte that was asked for, which is less than a block.
ReadOverrunBounded ==
    overrun > 0 =>
        LET last == request.pos + Len(answer) - 1
        IN  /\ BlockOf(request.pos) < BlockOf(last)
            /\ overrun < BlkSize - (last % BlkSize)
=============================================================================
