--------------------------- MODULE MCPs2Keyboard ---------------------------
(***************************************************************************)
(* Ps2Keyboard with the keys whose sequences differ in shape: one byte,    *)
(* a modifier of plane 1, caps lock, the fake shift of PrtSc, Pause, and   *)
(* a key the tables do not know.                                           *)
(***************************************************************************)
EXTENDS Ps2Keyboard

Keys == {\h61, \hA7, CapsKey, KeyPrtSc, KeyPause, NoKey}
AllSets == {1, 2, 3}

\* Room for two keys of set 1 (a byte each) and set 3 (two bytes for a
\* release), and for the longest sequence of set 2.
WireBound == <<2, 6, 4>>
=============================================================================
