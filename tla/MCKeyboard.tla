----------------------------- MODULE MCKeyboard -----------------------------
(***************************************************************************)
(* Keyboard with a queue of three cells, reads of two characters, and the  *)
(* keys that tell the cases of the handler apart: a letter, a key without  *)
(* a character, a modifier and caps lock.                                  *)
(***************************************************************************)
EXTENDS Keyboard

KeyA == \h61
KeyF1 == \h01
KeyLShift == \h80

QueueKeys == {KeyA, KeyF1, KeyLShift, CapsKey}
OneKey == {KeyA}
=============================================================================
