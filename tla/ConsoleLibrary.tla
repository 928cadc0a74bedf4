--------------------------- MODULE ConsoleLibrary ---------------------------
(***************************************************************************)
(* Console together with the part of libc/string.c it is made of: the      *)
(* steps in which tty_scroll moves and clears lines stand for memmove and  *)
(* memset of module Strings.                                               *)
(***************************************************************************)
EXTENDS Console, Strings

\* Nothing was printed yet.
AtBoot == texts = MaxTexts /\ msgs = MaxMessages

\* The copies that scrolling is made of are exact, and names are compared and
\* copied in full: see CopiesExact and NamesCompare of module Strings.
\* Evaluated before anything is printed.
LibraryExact == AtBoot => CopiesExact /\ NamesCompare
=============================================================================
