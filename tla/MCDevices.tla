------------------------------ MODULE MCDevices ------------------------------
(***************************************************************************)
(* Devices with addresses modulo 16 and a bus of four ports.  The disks    *)
(* are one of two whole blocks, one behind it of a block and a half, and   *)
(* one whose mapping failed; the positions are inside, at and behind the   *)
(* end of each, at block 8, whose address wraps to that of block 0, and at *)
(* 16, which as a block number is 0.                                       *)
(***************************************************************************)
EXTENDS Devices

MCDisks ==
    {[blksize |-> 2, bufs |-> 4, size |-> 4],
     [blksize |-> 2, bufs |-> 8, size |-> 3],
     [blksize |-> 2, bufs |-> NULL, size |-> 4]}
=============================================================================
