------------------------------- MODULE MCHeap -------------------------------
(***************************************************************************)
(* Instances of Heap.  With pages of four units a request for no memory or *)
(* for one unit is split off, one for two units fills its page without     *)
(* being split, and one for four units needs two pages.                    *)
(***************************************************************************)
EXTENDS Heap

SizesAndNone == {0, 2, 4}
SomeSizes == {1, 2, 4}
=============================================================================
