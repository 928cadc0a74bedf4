------------------------------ MODULE ByteFile ------------------------------
(***************************************************************************)
(* What a regular file promises its users: an array of bytes that a read   *)
(* returns as far as it goes, and that a write changes where it was asked  *)
(* to, extending it if necessary.                                          *)
(*                                                                         *)
(* A write changes nothing else if its caller leaves no gap behind the end *)
(* of the file, and either stays within one block or does not stop before  *)
(* the end of the file.  Otherwise the bytes in the gap, and those that    *)
(* follow the written ones in the last block, may become anything.         *)
(***************************************************************************)
EXTENDS Integers, Sequences

CONSTANTS
    BlkSize,    \* the size of a block
    Buffers,    \* what is written at once
    MaxPos,     \* bound: largest position of a read or a write
    MaxLen      \* bound: most bytes read at once

VARIABLES
    request,    \* the last read or write: its position, data and length
    content,    \* the bytes of the file
    answer      \* the bytes the last call returned

Request(pos, data, n) == [pos |-> pos, data |-> data, n |-> n]

Least(a, b) == IF a < b THEN a ELSE b

\* The indices in content of the block that byte k is in.
SameBlock(k, l) == (k - 1) \div BlkSize = (l - 1) \div BlkSize

Init == request = Request(0, <<>>, 0) /\ content = <<>> /\ answer = <<>>

\* May byte k, outside the bytes (pos + 1)..end that are written, change?
Damaged(k, pos, end) == k > end /\ SameBlock(k, end) /\ ~SameBlock(pos + 1, end)

Write(pos, data) ==
    LET end == pos + Len(data)
    IN  /\ request' = Request(pos, data, Len(data))
        /\ Len(content') = IF end < Len(content) THEN Len(content) ELSE end
        /\ \A k \in 1..Len(content') :
               \/ k \in (pos + 1)..end /\ content'[k] = data[k - pos]
               \/ k \in (Len(content) + 1)..pos
               \/ Damaged(k, pos, end)
               \/ /\ k \in DOMAIN content \ ((pos + 1)..end)
                  /\ content'[k] = content[k]
        /\ answer' = <<>>

Read(pos, n) ==
    /\ request' = Request(pos, <<>>, n)
    /\ answer' = SubSeq(content, pos + 1, Least(pos + n, Len(content)))
    /\ UNCHANGED content

Next ==
    \/ \E pos \in 0..MaxPos, data \in Buffers : Write(pos, data)
    \/ \E pos \in 0..MaxPos, n \in 0..MaxLen : Read(pos, n)

Spec == Init /\ [][Next]_<<request, content, answer>>
=============================================================================
