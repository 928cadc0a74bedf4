---------------------------- MODULE MCTmpfsTree ----------------------------
(***************************************************************************)
(* An instance of TmpfsTree.  ".." is a name like any other for callers,   *)
(* and free in the root, which has no entry for its parent.                *)
(***************************************************************************)
EXTENDS TmpfsTree

SomeNames == {"a", "b", ".."}
=============================================================================
