------------------------------ MODULE MCConsole ------------------------------
(***************************************************************************)
(* Console with a screen of two lines of four columns, printing what       *)
(* vprintf of module Stdio writes: a message that wraps and ends in a      *)
(* newline, a string echoed with a tab and an escape, and a form feed.     *)
(***************************************************************************)
EXTENDS ConsoleLibrary, Stdio

Calls ==
    {[format |-> <<"a", "%", "d", "\n">>, args |-> <<12>>],
     [format |-> <<"%", "s">>, args |-> << <<"b", "\t", ESC, "c", "\n">> >>],
     [format |-> <<"%", "c", "%", "s">>, args |-> <<FF, <<"\t", "\r">> >>]}

MCTexts == {vprintf(call.format, call.args).writes : call \in Calls}

Warning == vprintf(<<"%", "0", "2", "X", "\n">>, <<10>>)

MCMessages == {Printed(Warning)}

MCChars == Control \cup {"a", "b", "c", "1", "2", "0", "A"}

\* Whatever number the kernel prints, the text means it, vprintf returns the
\* number of characters printed and %n stores it: see NumbersReadBack and
\* CountIsLength of module Stdio.  Evaluated before anything is printed.
PrintfExact == AtBoot => NumbersReadBack /\ CountIsLength
==============================================================================
