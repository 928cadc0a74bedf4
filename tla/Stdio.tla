-------------------------------- MODULE Stdio --------------------------------
(***************************************************************************)
(* libc/stdio.c: what printf writes to the console.  A call of vprintf is  *)
(* a sequence of writes, each one call of vconsole_write: putchar writes   *)
(* one character and puts a whole string.  Between two writes, and inside  *)
(* each of them, the keyboard interrupt may print too; module Console      *)
(* carries the writes out.                                                 *)
(***************************************************************************)
EXTENDS Integers, Sequences, SequencesExt

CONSTANTS
    UMod,       \* one more than the largest unsigned value, 2^32 in the code
    DigitBuf    \* length of the array digits, 11 in the code

ASSUME UModAssumption == UMod \in Nat \ {0, 1} /\ UMod % 2 = 0
ASSUME DigitBufAssumption == DigitBuf \in Nat \ {0}

LowerDigits ==
    <<"0", "1", "2", "3", "4", "5", "6", "7", "8", "9", "a", "b", "c", "d", "e", "f">>
UpperDigits ==
    <<"0", "1", "2", "3", "4", "5", "6", "7", "8", "9", "A", "B", "C", "D", "E", "F">>

DigitValue(ch) == (CHOOSE k \in 1..16 : ch \in {LowerDigits[k], UpperDigits[k]}) - 1

\* Mutant: the digits are printed in the order they are computed.
DigitsReversed(x, r, chars) ==
    LET upTo[y \in 0..(UMod - 1)] ==
            IF y < r THEN <<chars[y + 1]>>
                     ELSE <<chars[(y % r) + 1]>> \o upTo[y \div r]
    IN  upTo[x]

\* The array digits, read from its end, after the first loop of putiradix.
Digits(x, r, chars) ==
    LET upTo[y \in 0..(UMod - 1)] ==
            IF y < r THEN <<chars[y + 1]>>
                     ELSE Append(upTo[y \div r], chars[(y % r) + 1])
    IN  upTo[x]

Padding(len, filler) == [k \in (IF len > 0 THEN 1..len ELSE {}) |-> filler]

\* Mutant: the characters that pad the number are not counted.
putiradixUnpadded(x, r, chars, min, filler) ==
    LET digits == Digits(x, r, chars)
    IN  [text |-> Padding(min - Len(digits), filler) \o digits,
         ret  |-> Len(digits)]

putiradix(x, r, chars, min, filler) ==
    LET digits == Digits(x, r, chars)
    IN  [text |-> Padding(min - Len(digits), filler) \o digits,
         ret  |-> IF min > Len(digits) THEN min ELSE Len(digits)]

\* One write per character.
putchars(text) == [k \in 1..Len(text) |-> <<text[k]>>]

Emit(st, writes, count) ==
    [st EXCEPT !.writes = @ \o writes, !.n = @ + count, !.mode = "text"]

\* A number: what goes before it, and an argument that is converted to
\* unsigned.  Negating the least int yields it again, and its bits as an
\* unsigned value are its magnitude.
EmitNumber(st, prefix, x, r, chars) ==
    LET number == putiradix(x % UMod, r, chars, st.min, st.filler)
        arg    == [st EXCEPT !.args = Tail(@)]
    IN  Emit(arg, prefix \o putchars(number.text),
             (IF prefix = <<>> THEN 0 ELSE Len(prefix[1])) + number.ret)

\* The switch on the conversion specifier.
Convert(st, ch) ==
    LET arg  == Head(st.args)
        next == [st EXCEPT !.args = Tail(@)]
    IN  CASE ch = "%"          -> Emit(st, << <<"%">> >>, 1)
          [] ch = "s"          -> Emit(next, <<arg>>, Len(arg))
          [] ch = "c"          -> Emit(next, << <<arg>> >>, 1)
          [] ch \in {"d", "i"} -> IF arg < 0
                                  THEN EmitNumber(st, << <<"-">> >>, -arg, 10, LowerDigits)
                                  ELSE EmitNumber(st, <<>>, arg, 10, LowerDigits)
          [] ch = "u"          -> EmitNumber(st, <<>>, arg, 10, LowerDigits)
          [] ch = "p"          -> EmitNumber(st, << <<"0", "x">> >>, arg, 16, LowerDigits)
          [] ch = "x"          -> EmitNumber(st, <<>>, arg, 16, LowerDigits)
          [] ch = "X"          -> EmitNumber(st, <<>>, arg, 16, UpperDigits)
          [] ch = "o"          -> EmitNumber(st, <<>>, arg, 8, LowerDigits)
          [] ch = "n"          -> [next EXCEPT !.stored = Append(@, st.n), !.mode = "text"]
          [] OTHER             -> Emit(st, << <<ch>> >>, 0)

\* One character of the format.
Scan(st, ch) ==
    CASE st.mode = "text" /\ ch # "%"    -> Emit(st, << <<ch>> >>, 1)
      [] st.mode = "text" /\ ch = "%"    -> [st EXCEPT !.mode = "flag", !.min = 0, !.filler = " "]
      [] st.mode = "flag" /\ ch = "0"    -> [st EXCEPT !.mode = "width", !.filler = "0"]
      [] st.mode # "text" /\ ~(st.mode = "flag" /\ ch = "0")
         /\ ch \in Range(SubSeq(LowerDigits, 1, 10))
                                         -> [st EXCEPT !.mode = "width",
                                                       !.min = 10 * @ + DigitValue(ch)]
      [] OTHER                           -> Convert(st, ch)

\* A format that ends inside a specifier prints its percent sign.
vprintf(format, args) ==
    LET st == FoldLeft(Scan, [mode |-> "text", min |-> 0, filler |-> " ", args |-> args,
                              writes |-> <<>>, n |-> 0, stored |-> <<>>], format)
    IN  IF st.mode = "text" THEN st ELSE Emit(st, << <<"%">> >>, 1)
-----------------------------------------------------------------------------
(***************************************************************************)
(* Reference: what the text of a number means, and how long an output is.  *)
(***************************************************************************)
Printed(call) == FlattenSeq(call.writes)

Radix(spec) == IF spec \in {"x", "X", "p"} THEN 16 ELSE IF spec = "o" THEN 8 ELSE 10

\* The number a text stands for: its sign and its digits, without padding.
Meaning(text, r) ==
    LET digits == SelectSeq(text, LAMBDA ch : ch \in Range(LowerDigits) \cup Range(UpperDigits))
        value  == FoldLeft(LAMBDA v, ch : r * v + DigitValue(ch), 0, digits)
    IN  IF text[1] = "-" THEN -value ELSE value

NumberSpecs == {"d", "i", "u", "x", "X", "o", "p"}
NumberModifiers == {<<>>, <<"0", "2">>, <<"4">>, <<"0", "1", "0">>}
MinLength(modifier) ==
    FoldLeft(LAMBDA v, ch : 10 * v + DigitValue(ch), 0, modifier)

\* The values an argument can have: all bit patterns, signed or unsigned.
ArgValues(spec) ==
    IF spec \in {"d", "i"} THEN (-(UMod \div 2))..(UMod \div 2 - 1) ELSE 0..(UMod - 1)
-----------------------------------------------------------------------------
(***************************************************************************)
(* Properties.                                                             *)
(***************************************************************************)

\* A printed number means the argument it was printed for, the least int
\* included, is padded to the length asked for, and has no more digits than
\* the array in putiradix: in octal the largest value just fits.
NumbersReadBack ==
    \A spec \in NumberSpecs, modifier \in NumberModifiers :
        \A v \in ArgValues(spec) :
            LET text == Printed(vprintf(<<"%">> \o modifier \o <<spec>>, <<v>>))
            IN  /\ Meaning(text, Radix(spec)) = v
                /\ Len(text) >= MinLength(modifier)
                /\ Len(Digits(v % UMod, Radix(spec), LowerDigits)) <= DigitBuf

\* vprintf returns the number of characters it printed, and %n stores how
\* many there were before it, wherever in a format the number stands.
CountIsLength ==
    \A spec \in NumberSpecs, modifier \in NumberModifiers :
        \A v \in ArgValues(spec) :
            LET number == <<"%">> \o modifier \o <<spec>>
                call   == vprintf(<<"=">> \o number \o <<"%", "n", "%", "%", "%", "s">>,
                                  <<v, "&n", <<"o", "k">> >>)
            IN  /\ call.n = Len(Printed(call))
                /\ call.stored = <<call.n - 3>>
=============================================================================
