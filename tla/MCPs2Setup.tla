----------------------------- MODULE MCPs2Setup -----------------------------
(***************************************************************************)
(* Ps2Setup with key bytes that can be taken for answers: 2 for a scancode *)
(* set, 55 and AA for passed self tests, FA for an acknowledgement, and 1C *)
(* for none of them.                                                       *)
(***************************************************************************)
EXTENDS Ps2Setup

Bytes == {\h02, \h1C, \h55, \hAA, \hFA}
=============================================================================
