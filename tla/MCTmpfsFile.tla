---------------------------- MODULE MCTmpfsFile ----------------------------
(***************************************************************************)
(* TmpfsFile with blocks of two bytes: positions up to three and lengths   *)
(* up to four reach a fourth block, cross one or two block boundaries,     *)
(* leave a gap, start at the end of a file that fills its blocks, and      *)
(* start so far behind it that no block is found.                          *)
(***************************************************************************)
EXTENDS TmpfsFile

SomeBuffers == {<<>>, <<9>>, <<1, 2>>, <<1, 2, 3, 4>>}
=============================================================================
