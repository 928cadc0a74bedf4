---------------------------- MODULE ConsoleProofs ----------------------------
(***************************************************************************)
(* Proofs about Console, for every screen, tab size, text and message, and *)
(* about the algorithms of Strings and Stdio, for every memory, name and   *)
(* number.                                                                 *)
(*                                                                         *)
(* PosOnScreen is not inductive: nothing in it says that only one line is  *)
(* scrolled at a time, that the handler leaves pos on the last line but    *)
(* never above the second, or that there is a character to print where     *)
(* tty_putchar takes one.  OnScreen and TextLeft say so.  BehindScreen and *)
(* CursorAtPos each need to know what the main loop was at when the        *)
(* handler that prints now interrupted it.  ScreenShowsLog compares the    *)
(* screen with a reference that is recursive in the log: Shown follows     *)
(* both through every character.  Loops over data are compared with their  *)
(* closed forms by the least number at which the two differ.               *)
(***************************************************************************)
EXTENDS ConsoleLibrary, Stdio, FiniteSetTheorems, SequenceTheorems, WellFoundedInduction, TLAPS

\* While the main loop scrolls it scrolls one line, whatever a handler prints
\* in between, and pos is behind the first line.
OnScreen ==
    /\ ~Scrolling => pos < Size
    /\ Scrolling => reg = 1 /\ pos >= Width
    /\ pc \in {"put", "advance"} => reg < Size

\* There is a write in progress, and within tty_putchar a character.
TextLeft ==
    /\ pc # "idle" => text # <<>>
    /\ InPutchar => Head(text) # <<>>

ScreenInv ==
    /\ TypeOK
    /\ msg \in Seq(Chars \ {FF})
    /\ OnScreen
    /\ TextLeft

\* A handler that prints while the main loop scrolls was noticed.
BehindInv ==
    /\ BehindScreen
    /\ Scrolling /\ msg # <<>> => "scroll" \in raced

\* How far tty_set_cursor has got, if no handler has interrupted it.
CursorInv ==
    "cursor" \notin raced =>
        /\ InCursor => msg = <<>> /\ reg = pos
        /\ pc = "lo_data" => index = "LO"
        /\ pc = "hi_data" => index = "HI"
        /\ pc \in {"hi_index", "hi_data"} => cursor.LO = reg % Byte
        /\ pc = "idle" => cursor.HI * Byte + cursor.LO = pos
-----------------------------------------------------------------------------
(***************************************************************************)
(* Arithmetic of lines and tab stops.                                      *)
(***************************************************************************)

\* Division by a width or a tab size leaves a remainder below it.
LEMMA Division ==
    ASSUME NEW p \in Nat, NEW w \in Nat \ {0}
    PROVE  /\ p \div w \in Nat
           /\ p % w \in 0..(w - 1)
           /\ p = (p \div w) * w + (p % w)
  OBVIOUS

\* More lines take at least as many cells.
LEMMA Monotone ==
    ASSUME NEW a \in Nat, NEW b \in Nat, NEW w \in Nat, a <= b
    PROVE  a * w <= b * w
<1>1. b * w = a * w + (b - a) * w
  OBVIOUS
<1>2. (b - a) * w \in Nat /\ a * w \in Nat /\ b * w \in Nat
  OBVIOUS
<1> QED
  BY <1>1, <1>2

\* The quotient of a number below h * w is below h.
LEMMA QuotientBelow ==
    ASSUME NEW p \in Nat, NEW w \in Nat \ {0}, NEW h \in Nat, p < h * w
    PROVE  p \div w < h
<1>1. SUFFICES ASSUME p \div w >= h PROVE FALSE
  BY Division
<1>2. (p \div w) * w >= h * w
  BY <1>1, Division, Monotone
<1>3. (p \div w) * w \in Nat /\ h * w \in Nat
  BY Division
<1> QED
  BY <1>2, <1>3, Division

\* The next multiple of w is at most w away.
LEMMA NextMultiple ==
    ASSUME NEW p \in Nat, NEW w \in Nat \ {0}
    PROVE  (p \div w + 1) * w \in (p + 1)..(p + w)
<1>1. (p \div w + 1) * w = (p \div w) * w + w
  BY Division
<1> QED
  BY <1>1, Division

\* From below a multiple of w, the next multiple is not beyond it.
LEMMA NextMultipleBelow ==
    ASSUME NEW p \in Nat, NEW w \in Nat \ {0}, NEW h \in Nat, p < h * w
    PROVE  (p \div w + 1) * w <= h * w
<1>1. p \div w + 1 \in Nat /\ p \div w + 1 <= h
  BY Division, QuotientBelow
<1> QED
  BY <1>1, Monotone

\* The screen has at least two lines and its size is a multiple of both the
\* width and the tab size.
LEMMA SizeFacts ==
    /\ Size \in Nat /\ Width \in Nat \ {0} /\ TabSize \in Nat \ {0}
    /\ Size >= 2 * Width
    /\ Size = Height * Width
    /\ TabSize <= Width
    /\ \E k \in Nat : Size = k * TabSize
<1> USE ScreenAssumption
<1>1. Size \in Nat /\ Size = Height * Width
  BY DEF Size
<1>2. Size >= 2 * Width
  BY <1>1, Monotone
<1>3. Width = (Width \div TabSize) * TabSize /\ Width \div TabSize \in Nat
  BY Division
<1>4. TabSize <= Width
  <2>1. Width \div TabSize # 0
    BY <1>3
  <2>2. 1 * TabSize <= (Width \div TabSize) * TabSize
    BY <1>3, <2>1, Monotone
  <2> QED
    BY <1>3, <2>2
<1>5. \E k \in Nat : Size = k * TabSize
  <2>1. PICK w \in Nat : Width = w * TabSize
    BY <1>3
  <2>2. Size = (Height * w) * TabSize /\ Height * w \in Nat
    BY <1>1, <2>1
  <2> QED
    BY <2>2
<1> QED
  BY <1>1, <1>2, <1>4, <1>5

\* From a cell of the screen tty_putchar gets no further than its end.
LEMMA NextPosOnScreen ==
    ASSUME NEW p \in 0..(Size - 1), NEW ch
    PROVE  NextPos(p, ch) \in 0..Size
<1>1. p \in Nat /\ Width \in Nat \ {0} /\ TabSize \in Nat \ {0} /\ Height \in Nat
  BY SizeFacts, ScreenAssumption
<1>2. p < Size /\ Size \in Nat
  BY SizeFacts
<1>3. (p \div Width + 1) * Width \in 0..Size
  <2>1. p < Height * Width
    BY <1>2, SizeFacts
  <2>2. (p \div Width + 1) * Width <= Height * Width
    BY <1>1, <2>1, NextMultipleBelow
  <2>3. (p \div Width + 1) * Width \in (p + 1)..(p + Width)
    BY <1>1, NextMultiple
  <2> QED
    BY <1>1, <1>2, <2>2, <2>3, SizeFacts
<1>4. (p \div TabSize + 1) * TabSize \in 0..Size
  <2>1. PICK k \in Nat : Size = k * TabSize
    BY SizeFacts
  <2>2. (p \div TabSize + 1) * TabSize <= k * TabSize
    BY <1>1, <1>2, <2>1, NextMultipleBelow
  <2>3. (p \div TabSize + 1) * TabSize \in (p + 1)..(p + TabSize)
    BY <1>1, NextMultiple
  <2> QED
    BY <1>1, <1>2, <2>1, <2>2, <2>3
<1> QED
  BY <1>1, <1>2, <1>3, <1>4 DEF NextPos

\* Without a form feed it does not get back either.
LEMMA NextPosForward ==
    ASSUME NEW p \in 0..Size, NEW ch, ch # FF
    PROVE  NextPos(p, ch) \in p..(Size + Width)
<1>1. /\ p \in Nat /\ Width \in Nat \ {0} /\ TabSize \in Nat \ {0}
      /\ Size \in Nat /\ p <= Size /\ TabSize <= Width
  BY SizeFacts
<1>2. (p \div Width + 1) * Width \in (p + 1)..(p + Width)
  BY <1>1, NextMultiple
<1>3. (p \div TabSize + 1) * TabSize \in (p + 1)..(p + TabSize)
  BY <1>1, NextMultiple
<1> QED
  BY <1>1, <1>2, <1>3 DEF NextPos

\* Scrolling brings a position behind the end of the screen to its last line,
\* and one at the end is worth one line.
LEMMA LinesScroll ==
    ASSUME NEW p \in Nat
    PROVE  /\ Lines(p) \in Nat
           /\ p < Size => Lines(p) = 0
           /\ p >= Size => /\ Lines(p) > 0
                           /\ p - Lines(p) * Width \in (Size - Width)..(Size - 1)
           /\ p = Size => Lines(p) = 1
<1>1. Size \in Nat /\ Width \in Nat \ {0}
  BY SizeFacts
<1>2. CASE p < Size
  BY <1>1, <1>2 DEF Lines
<1>3. CASE p >= Size
  <2>1. PICK d \in Nat : p = Size + d
    <3>1. p - Size \in Nat /\ p = Size + (p - Size)
      BY <1>1, <1>3
    <3> QED
      BY <3>1
  <2>2. p - Size = d
    BY <1>1, <2>1
  <2>3. /\ d \div Width \in Nat
        /\ d % Width \in 0..(Width - 1)
        /\ d = (d \div Width) * Width + (d % Width)
    BY <1>1, Division
  <2>4. Lines(p) = d \div Width + 1
    BY <1>3, <2>2 DEF Lines
  <2>5. PICK q \in Nat : q = d \div Width
    BY <2>3
  <2>6. (q + 1) * Width = q * Width + Width /\ q * Width \in Nat
    BY <1>1
  <2>7. p - Lines(p) * Width \in (Size - Width)..(Size - 1)
    BY <1>1, <2>1, <2>3, <2>4, <2>5, <2>6
  <2>8. p = Size => q = 0
    <3>1. SUFFICES ASSUME d = 0, q >= 1 PROVE FALSE
      BY <1>1, <2>1
    <3>2. 1 * Width <= q * Width
      BY <1>1, <3>1, Monotone
    <3> QED
      BY <1>1, <2>3, <2>5, <2>6, <3>1, <3>2
  <2> QED
    BY <1>1, <1>3, <2>4, <2>5, <2>7, <2>8
<1> QED
  BY <1>1, <1>2, <1>3
-----------------------------------------------------------------------------
(***************************************************************************)
(* The steps of the main loop and of the handler keep pos on the screen.   *)
(***************************************************************************)

\* What is left of a text after a character, or after a write.
LEMMA TextFacts ==
    ASSUME text \in Seq(Seq(Chars)), text # <<>>
    PROVE  /\ Tail(text) \in Seq(Seq(Chars))
           /\ Head(text) # <<>> =>
                 /\ Ch \in Chars
                 /\ <<Tail(Head(text))>> \o Tail(text) \in Seq(Seq(Chars)) \ {<<>>}
<1>1. Tail(text) \in Seq(Seq(Chars)) /\ Head(text) \in Seq(Chars)
  BY HeadTailProperties
<1>2. SUFFICES ASSUME Head(text) # <<>>
               PROVE  /\ Ch \in Chars
                      /\ <<Tail(Head(text))>> \o Tail(text) \in Seq(Seq(Chars)) \ {<<>>}
  BY <1>1
<1>3. Ch \in Chars /\ Tail(Head(text)) \in Seq(Chars)
  BY <1>1, <1>2 DEF Ch
<1>4. <<Tail(Head(text))>> \in Seq(Seq(Chars)) /\ Len(<<Tail(Head(text))>>) = 1
  BY <1>3
<1>5. Len(<<Tail(Head(text))>> \o Tail(text)) > 0
  BY <1>1, <1>4, ConcatProperties
<1>6. <<Tail(Head(text))>> \o Tail(text) \in Seq(Seq(Chars))
  BY <1>1, <1>4, ConcatProperties
<1> QED
  BY <1>3, <1>5, <1>6

\* The history of the characters stays one.
LEMMA LoggedType ==
    ASSUME TypeOK, NEW ch \in Chars
    PROVE  Logged(ch) \in Seq(Chars)
  BY DEF Logged, TypeOK

\* The end of tty_putchar goes on with a text that is typed and not empty.
LEMMA CharDoneText ==
    ASSUME ScreenInv, InPutchar, CharDone
    PROVE  /\ text' \in Seq(Seq(Chars)) \ {<<>>}
           /\ log' \in Seq(Chars)
           /\ pc' = "char"
<1>1. text \in Seq(Seq(Chars)) /\ text # <<>> /\ Head(text) # <<>>
  BY DEF ScreenInv, TypeOK, TextLeft, InPutchar, Scrolling
<1> QED
  BY <1>1, TextFacts, LoggedType DEF CharDone, ScreenInv

\* What the screen shows after a character, and after scrolling, are
\* characters in all cells.
LEMMA ScreenTyped ==
    ASSUME NEW vga \in [Cells -> Chars \cup {Blank, Old}]
    PROVE  /\ \A n \in Nat : /\ Moved(vga, n) \in [Cells -> Chars \cup {Blank, Old}]
                             /\ Blanked(vga, n) \in [Cells -> Chars \cup {Blank, Old}]
                             /\ Moved(vga, n)[Size] = vga[Size]
                             /\ Blanked(vga, n)[Size] = vga[Size]
           /\ Cleared(vga) \in [Cells -> Chars \cup {Blank, Old}]
           /\ Cleared(vga)[Size] = vga[Size]
           /\ \A p \in Cells, ch \in Chars :
                 /\ Drawn(vga, p, ch) \in [Cells -> Chars \cup {Blank, Old}]
                 /\ p # Size => Drawn(vga, p, ch)[Size] = vga[Size]
<1>1. Size \in Nat /\ Width \in Nat /\ Size \in Cells
  BY SizeFacts DEF Cells
<1>2. ASSUME NEW n \in Nat
      PROVE  /\ Moved(vga, n) \in [Cells -> Chars \cup {Blank, Old}]
             /\ Blanked(vga, n) \in [Cells -> Chars \cup {Blank, Old}]
             /\ Moved(vga, n)[Size] = vga[Size]
             /\ Blanked(vga, n)[Size] = vga[Size]
  <2>1. PICK m \in Nat : m = n * Width
    BY <1>1
  <2> QED
    BY <1>1, <2>1 DEF Moved, Blanked, Cells
<1>3. /\ Cleared(vga) \in [Cells -> Chars \cup {Blank, Old}]
      /\ Cleared(vga)[Size] = vga[Size]
  BY <1>1 DEF Cleared, Cells
<1>4. ASSUME NEW p \in Cells, NEW ch \in Chars
      PROVE  /\ Drawn(vga, p, ch) \in [Cells -> Chars \cup {Blank, Old}]
             /\ p # Size => Drawn(vga, p, ch)[Size] = vga[Size]
  BY <1>1, <1>3 DEF Drawn, Control
<1> QED
  BY <1>2, <1>3, <1>4

\* tty_putchar either ends on the screen or goes on to scroll one line.
LEMMA ScrollIfNeededOnScreen ==
    ASSUME ScreenInv, pc \in {"put", "advance"}, NEW p \in 0..Size,
           pos' = p, ScrollIfNeeded(p)
    PROVE  /\ pc' \in {"move", "char"}
           /\ text' \in Seq(Seq(Chars)) /\ log' \in Seq(Chars)
           /\ reg' \in 0..Size
           /\ OnScreen' /\ TextLeft'
<1> USE SizeFacts DEF OnScreen, TextLeft, InPutchar, Scrolling
<1>1. p \in Nat
  OBVIOUS
<1>2. CASE Lines(p) > 0 /\ pc' = "move" /\ reg' = Lines(p) /\ UNCHANGED <<text, log>>
  <2>1. p = Size /\ Lines(p) = 1
    BY <1>1, <1>2, LinesScroll
  <2> QED
    BY <1>2, <2>1 DEF ScreenInv, TypeOK
<1>3. CASE Lines(p) = 0 /\ CharDone /\ UNCHANGED reg
  <2>1. p < Size
    BY <1>1, <1>3, LinesScroll
  <2> QED
    BY <1>3, <2>1, CharDoneText DEF ScreenInv, TypeOK
<1> QED
  BY <1>2, <1>3 DEF ScrollIfNeeded

\* A character of tty_putchar, step by step.
LEMMA PutcharOnScreen ==
    ASSUME ScreenInv, tty_putchar
    PROVE  ScreenInv'
<1> USE SizeFacts
    DEF hardware, history, ScreenInv, TypeOK, Labels, OnScreen, TextLeft, InPutchar,
        Scrolling, At
<1>1. CASE LoadPos
  BY <1>1 DEF LoadPos
<1>2. CASE PutControl
  <2>1. pc = "put" /\ reg \in 0..(Size - 1)
    BY <1>2 DEF PutControl
  <2>2. NextPos(reg, Ch) \in 0..Size
    BY <2>1, NextPosOnScreen
  <2>3. CASE Ch = ESC
    <3>1. NextPos(reg, Ch) = reg
      BY <2>3 DEF NextPos, ESC, FF
    <3>2. Lines(reg) = 0
      BY <2>1, LinesScroll
    <3>3. CharDone /\ UNCHANGED reg /\ pos' = pos
      BY <1>2, <2>3, <3>1, <3>2 DEF PutControl, ScrollIfNeeded
    <3>4. /\ text' \in Seq(Seq(Chars)) \ {<<>>} /\ log' \in Seq(Chars)
          /\ pc' = "char"
      BY <2>1, <3>3, CharDoneText
    <3> QED
      BY <1>2, <2>1, <2>3, <3>3, <3>4 DEF PutControl
  <2>4. CASE Ch # ESC
    <3>1. pos' = NextPos(reg, Ch) /\ ScrollIfNeeded(NextPos(reg, Ch))
      BY <1>2, <2>4 DEF PutControl
    <3>2. /\ pc' \in {"move", "char"}
          /\ text' \in Seq(Seq(Chars)) /\ log' \in Seq(Chars)
          /\ reg' \in 0..Size
          /\ OnScreen' /\ TextLeft'
      BY <2>1, <2>2, <3>1, ScrollIfNeededOnScreen
    <3> QED
      BY <1>2, <2>2, <3>1, <3>2 DEF PutControl
  <2> QED
    BY <2>3, <2>4
<1>3. CASE PutVisible
  <2>1. Ch \in Chars /\ reg \in Cells
    BY <1>3, TextFacts DEF PutVisible, Cells
  <2>2. vga_buffer' \in [Cells -> Chars \cup {Blank, Old}]
    BY <1>3, <2>1, ScreenTyped DEF PutVisible
  <2> QED
    BY <1>3, <2>2 DEF PutVisible
<1>4. CASE Advance
  <2>1. /\ reg + 1 \in 0..Size /\ pos' = reg + 1
        /\ pc \in {"put", "advance"} /\ ScrollIfNeeded(reg + 1)
    BY <1>4 DEF Advance
  <2>2. /\ pc' \in {"move", "char"}
        /\ text' \in Seq(Seq(Chars)) /\ log' \in Seq(Chars)
        /\ reg' \in 0..Size
        /\ OnScreen' /\ TextLeft'
    BY <2>1, ScrollIfNeededOnScreen
  <2> QED
    BY <1>4, <2>1, <2>2 DEF Advance
<1>5. CASE ScrollMove
  <2>1. vga_buffer' \in [Cells -> Chars \cup {Blank, Old}]
    BY <1>5, ScreenTyped DEF ScrollMove
  <2> QED
    BY <1>5, <2>1 DEF ScrollMove
<1>6. CASE ScrollBlank
  <2>1. vga_buffer' \in [Cells -> Chars \cup {Blank, Old}]
    BY <1>6, ScreenTyped DEF ScrollBlank
  <2> QED
    BY <1>6, <2>1 DEF ScrollBlank
<1>7. CASE ScrollSubtract
  <2>1. /\ text' \in Seq(Seq(Chars)) \ {<<>>} /\ log' \in Seq(Chars)
        /\ pc' = "char"
    BY <1>7, CharDoneText DEF ScrollSubtract
  <2>2. pos' = pos - Width
    BY <1>7 DEF ScrollSubtract
  <2>3. pos' \in 0..(Size - 1)
    BY <1>7, <2>2 DEF ScrollSubtract
  <2> QED
    BY <1>7, <2>1, <2>3 DEF ScrollSubtract
<1>8. CASE FormFeed
  <2>1. vga_buffer' \in [Cells -> Chars \cup {Blank, Old}]
    BY <1>8, ScreenTyped DEF FormFeed
  <2> QED
    BY <1>8, <2>1 DEF FormFeed
<1>9. CASE FormFeedHome
  <2>1. /\ text' \in Seq(Seq(Chars)) \ {<<>>} /\ log' \in Seq(Chars)
        /\ pc' = "char"
    BY <1>9, CharDoneText DEF FormFeedHome
  <2> QED
    BY <1>9, <2>1 DEF FormFeedHome
<1> QED
  BY <1>1, <1>2, <1>3, <1>4, <1>5, <1>6, <1>7, <1>8, <1>9 DEF tty_putchar

\* Both bytes of a position fit in a cursor register.
LEMMA CursorBytes ==
    ASSUME NEW p \in 0..Size
    PROVE  /\ p % Byte \in 0..(Byte - 1)
           /\ HiByte(p) \in 0..(Byte - 1)
           /\ HiByte(p) * Byte + (p % Byte) = p
<1>1. p \in Nat /\ Byte \in Nat \ {0} /\ p < Byte * Byte
  BY SizeFacts, ScreenAssumption
<1>2. p \div Byte < Byte
  BY <1>1, QuotientBelow
<1>3. PICK q \in Nat : q = p \div Byte
  BY <1>1, Division
<1>4. p % Byte \in 0..(Byte - 1) /\ p = q * Byte + (p % Byte)
  BY <1>1, <1>3, Division
<1> QED
  BY <1>1, <1>2, <1>3, <1>4 DEF HiByte

\* A new text, and the port writes of tty_set_cursor.
LEMMA CursorOnScreen ==
    ASSUME ScreenInv, PrintText \/ tty_set_cursor
    PROVE  ScreenInv'
<1> USE SizeFacts
    DEF hardware, history, ScreenInv, TypeOK, Labels, OnScreen, TextLeft, InPutchar,
        Scrolling, At
<1>1. CASE PrintText
  BY <1>1, TextsAssumption DEF PrintText
<1>2. CASE CursorLoad
  BY <1>2 DEF CursorLoad
<1>3. CASE CursorLoIndex
  BY <1>3 DEF CursorLoIndex, SelectRegister
<1>4. CASE CursorLoData
  BY <1>4, CursorBytes DEF CursorLoData
<1>5. CASE CursorHiIndex
  BY <1>5 DEF CursorHiIndex, SelectRegister
<1>6. CASE CursorHiData
  <2>1. Tail(text) \in Seq(Seq(Chars))
    BY <1>6, TextFacts DEF CursorHiData
  <2>2. cursor' \in [{"LO", "HI"} -> 0..(Byte - 1)]
    BY <1>6, CursorBytes DEF CursorHiData
  <2> QED
    BY <1>6, <2>1, <2>2 DEF CursorHiData
<1> QED
  BY <1>1, <1>2, <1>3, <1>4, <1>5, <1>6 DEF tty_set_cursor

\* Where a character of the handler leaves pos: on the screen, and behind the
\* first line if it was there.
LEMMA HandlerPos ==
    ASSUME NEW p \in 0..Size, NEW ch, ch # FF
    PROVE  /\ Lines(NextPos(p, ch)) \in Nat
           /\ NextPos(p, ch) - Lines(NextPos(p, ch)) * Width \in 0..(Size - 1)
           /\ p >= Width => NextPos(p, ch) - Lines(NextPos(p, ch)) * Width >= Width
<1>1. Size \in Nat /\ Width \in Nat /\ Size >= 2 * Width /\ p \in Nat
  BY SizeFacts
<1>2. PICK q \in Nat : q = NextPos(p, ch) /\ q >= p
  BY <1>1, NextPosForward
<1>3. CASE q < Size
  <2>1. Lines(q) = 0 /\ 0 * Width = 0
    BY <1>1, <1>3, LinesScroll
  <2> QED
    BY <1>1, <1>2, <1>3, <2>1
<1>4. CASE q >= Size
  <2>1. Lines(q) \in Nat /\ q - Lines(q) * Width \in (Size - Width)..(Size - 1)
    BY <1>4, LinesScroll
  <2> QED
    BY <1>1, <1>2, <2>1
<1> QED
  BY <1>1, <1>2, <1>3, <1>4

\* The keyboard handler prints at any point of all that.
LEMMA HandlerOnScreen ==
    ASSUME ScreenInv, ps2_key_pressed
    PROVE  ScreenInv'
<1> USE SizeFacts
    DEF hardware, history, ScreenInv, OnScreen, TextLeft, InPutchar, Scrolling
<1>1. CASE Interrupt
  <2>1. msg' \in Seq(Chars \ {FF}) /\ msg' \in Seq(Chars)
    BY <1>1, MessagesAssumption DEF Interrupt
  <2>2. raced' \subseteq {"char", "scroll", "cursor"} /\ log' \in Seq(Chars)
    BY <1>1 DEF Interrupt, TypeOK
  <2>3. UNCHANGED <<vga_buffer, pos, processing_sequence, pc, reg, text, index, cursor, texts>>
    BY <1>1 DEF Interrupt
  <2>4. msgs' \in 0..MaxMessages
    BY <1>1, TextsAssumption DEF Interrupt, TypeOK
  <2>5. TypeOK'
    BY <2>1, <2>2, <2>3, <2>4 DEF TypeOK
  <2> QED
    BY <2>1, <2>3, <2>5
<1>2. CASE HandlerPutchar
  <2> DEFINE ch == Head(msg)
             p  == NextPos(pos, ch)
  <2>1. /\ ch \in Chars /\ ch # FF
        /\ msg' \in Seq(Chars \ {FF}) /\ msg' \in Seq(Chars)
    BY <1>2, HeadTailProperties DEF HandlerPutchar
  <2>2. pos \in 0..Size /\ pos \in Cells
    BY DEF TypeOK, Cells
  <2>3. /\ Lines(p) \in Nat
        /\ pos' \in 0..(Size - 1)
        /\ pos >= Width => pos' >= Width
    BY <1>2, <2>1, <2>2, HandlerPos DEF HandlerPutchar
  <2>4. vga_buffer' \in [Cells -> Chars \cup {Blank, Old}]
    <3>1. Drawn(vga_buffer, pos, ch) \in [Cells -> Chars \cup {Blank, Old}]
      BY <2>1, <2>2, ScreenTyped DEF TypeOK
    <3>2. Moved(Drawn(vga_buffer, pos, ch), Lines(p)) \in [Cells -> Chars \cup {Blank, Old}]
      BY <2>3, <3>1, ScreenTyped
    <3>3. Blanked(Moved(Drawn(vga_buffer, pos, ch), Lines(p)), Lines(p))
              \in [Cells -> Chars \cup {Blank, Old}]
      BY <2>3, <3>2, ScreenTyped
    <3> QED
      BY <1>2, <3>3 DEF HandlerPutchar
  <2>5. cursor' \in [{"LO", "HI"} -> 0..(Byte - 1)]
    <3>1. pos' % Byte \in 0..(Byte - 1) /\ HiByte(pos') \in 0..(Byte - 1)
      BY <2>3, CursorBytes
    <3> QED
      BY <1>2, <3>1 DEF HandlerPutchar
  <2>6. log' \in Seq(Chars)
    BY <1>2, <2>1, LoggedType DEF HandlerPutchar
  <2>7. processing_sequence' \in BOOLEAN
    BY <1>2 DEF HandlerPutchar
  <2>8. /\ raced' \subseteq {"char", "scroll", "cursor"} /\ index' \in {"LO", "HI"}
        /\ UNCHANGED <<pc, reg, text, texts, msgs>>
    BY <1>2 DEF HandlerPutchar, TypeOK
  <2>9. TypeOK'
    <3>1. pos' \in 0..Size
      BY <2>3
    <3> QED
      BY <2>1, <2>4, <2>5, <2>6, <2>7, <2>8, <3>1 DEF TypeOK
  <2> QED
    BY <2>1, <2>3, <2>8, <2>9
<1> QED
  BY <1>1, <1>2 DEF ps2_key_pressed

\* The bounds hold at boot and every step keeps them.
LEMMA ScreenInductive ==
    /\ Init => ScreenInv
    /\ ScreenInv /\ [Next]_vars => ScreenInv'
<1>1. Init => ScreenInv
  <2> SUFFICES ASSUME Init PROVE ScreenInv
    OBVIOUS
  <2>1. cursor \in [{"LO", "HI"} -> 0..(Byte - 1)]
    BY ScreenAssumption DEF Init
  <2> QED
    BY <2>1, SizeFacts, TextsAssumption
    DEF Init, ScreenInv, TypeOK, Labels, OnScreen, TextLeft, InPutchar, Scrolling, Cells
<1>2. ScreenInv /\ UNCHANGED vars => ScreenInv'
  BY DEF vars, hardware, history, ScreenInv, TypeOK, OnScreen, TextLeft, InPutchar, Scrolling
<1> QED
  BY <1>1, <1>2, PutcharOnScreen, CursorOnScreen, HandlerOnScreen DEF Next, vconsole_write

\* Whatever the main loop and the handler print, and wherever the handler
\* interrupts tty_putchar and tty_scroll, pos stays in its range.
THEOREM PosOnScreenHolds == Spec => []PosOnScreen
<1>1. ScreenInv => PosOnScreen
  BY SizeFacts DEF ScreenInv, PosOnScreen, OnScreen, TypeOK
<1> QED
  BY <1>1, ScreenInductive, PTL DEF Spec
-----------------------------------------------------------------------------
(***************************************************************************)
(* What a handler that interrupts can break.                               *)
(***************************************************************************)

\* The cell behind the screen is written by a handler only, and only when it
\* interrupted the main loop between the check of pos and the subtraction.
LEMMA BehindInductive ==
    /\ Init => BehindInv
    /\ ScreenInv /\ BehindInv /\ [Next]_vars => BehindInv'
<1> USE DEF BehindInv, BehindScreen, Scrolling
<1>1. Init => BehindInv
  <2> SUFFICES ASSUME Init PROVE BehindInv
    OBVIOUS
  <2>1. vga_buffer[Size] = Old
    BY SizeFacts DEF Init, Cells
  <2> QED
    BY <2>1 DEF Init
<1> SUFFICES ASSUME ScreenInv, BehindInv, [Next]_vars PROVE BehindInv'
  BY <1>1
<1>2. vga_buffer \in [Cells -> Chars \cup {Blank, Old}]
  BY DEF ScreenInv, TypeOK
<1> USE DEF hardware, history, At
<1>3. CASE tty_putchar
  <2>1. UNCHANGED msg /\ raced \ {"char"} \subseteq raced' /\ msg = <<>>
    BY <1>3
    DEF tty_putchar, LoadPos, PutControl, PutVisible, Advance, ScrollMove, ScrollBlank,
        ScrollSubtract, FormFeed, FormFeedHome
  <2>2. reg \in Nat
    BY SizeFacts DEF ScreenInv, TypeOK
  <2>3. vga_buffer'[Size] = vga_buffer[Size]
    <3>1. CASE PutVisible
      <4>1. Ch \in Chars /\ reg \in Cells /\ reg # Size
        BY <3>1, SizeFacts, TextFacts
        DEF PutVisible, ScreenInv, TypeOK, OnScreen, TextLeft, InPutchar, Cells
      <4> QED
        BY <1>2, <3>1, <4>1, ScreenTyped DEF PutVisible
    <3>2. CASE ScrollMove
      BY <1>2, <2>2, <3>2, ScreenTyped DEF ScrollMove
    <3>3. CASE ScrollBlank
      BY <1>2, <2>2, <3>3, ScreenTyped DEF ScrollBlank
    <3>4. CASE FormFeed
      BY <1>2, <3>4, ScreenTyped DEF FormFeed
    <3> QED
      BY <1>3, <3>1, <3>2, <3>3, <3>4
      DEF tty_putchar, LoadPos, PutControl, Advance, ScrollSubtract, FormFeedHome
  <2> QED
    BY <2>1, <2>3
<1>4. CASE PrintText \/ tty_set_cursor
  <2>1. /\ UNCHANGED <<vga_buffer, msg>> /\ raced \ {"cursor"} \subseteq raced'
        /\ msg = <<>>
    BY <1>4
    DEF PrintText, tty_set_cursor, CursorLoad, CursorLoIndex, CursorLoData, CursorHiIndex,
        CursorHiData, SelectRegister
  <2> QED
    BY <2>1
<1>5. CASE Interrupt
  <2>1. UNCHANGED <<vga_buffer, pc>> /\ raced \subseteq raced'
    BY <1>5 DEF Interrupt
  <2>2. Scrolling => "scroll" \in raced'
    BY <1>5 DEF Interrupt
  <2> QED
    BY <2>1, <2>2
<1>6. CASE HandlerPutchar
  <2>1. UNCHANGED pc /\ raced \ {"cursor"} \subseteq raced' /\ msg # <<>>
    BY <1>6 DEF HandlerPutchar
  <2>2. Scrolling => "scroll" \in raced'
    BY <2>1
  <2>3. CASE ~Scrolling
    <3> DEFINE ch == Head(msg)
               ls == Lines(NextPos(pos, ch))
               v1 == Drawn(vga_buffer, pos, ch)
    <3>1. ch \in Chars /\ ch # FF /\ pos \in 0..Size /\ pos \in Cells /\ pos # Size
      BY <2>1, <2>3, SizeFacts, HeadTailProperties DEF ScreenInv, TypeOK, OnScreen, Cells
    <3>2. ls \in Nat
      BY <3>1, HandlerPos
    <3>3. v1 \in [Cells -> Chars \cup {Blank, Old}] /\ v1[Size] = vga_buffer[Size]
      BY <1>2, <3>1, ScreenTyped
    <3>4. vga_buffer' = Blanked(Moved(v1, ls), ls)
      BY <1>6 DEF HandlerPutchar
    <3> HIDE DEF ch, ls, v1
    <3>5. /\ Moved(v1, ls) \in [Cells -> Chars \cup {Blank, Old}]
          /\ Moved(v1, ls)[Size] = v1[Size]
      BY <3>2, <3>3, ScreenTyped
    <3>6. Blanked(Moved(v1, ls), ls)[Size] = Moved(v1, ls)[Size]
      BY <3>2, <3>5, ScreenTyped
    <3> QED
      BY <2>1, <2>3, <3>3, <3>4, <3>5, <3>6
  <2> QED
    BY <2>1, <2>2, <2>3
<1>7. CASE UNCHANGED vars
  BY <1>7 DEF vars
<1> QED
  BY <1>3, <1>4, <1>5, <1>6, <1>7 DEF Next, vconsole_write, ps2_key_pressed

\* A character is lost behind the screen only if a handler prints while the
\* main loop is in tty_scroll.
THEOREM BehindScreenHolds == Spec => []BehindScreen
<1>1. BehindInv => BehindScreen
  BY DEF BehindInv
<1> QED
  BY <1>1, ScreenInductive, BehindInductive, PTL DEF Spec

\* An uninterrupted tty_set_cursor, and every character of a handler, leaves
\* both cursor registers at pos.
LEMMA CursorInductive ==
    /\ Init => CursorInv
    /\ ScreenInv /\ CursorInv /\ [Next]_vars => CursorInv'
<1> USE DEF CursorInv, InCursor
<1>1. Init => CursorInv
  BY DEF Init
<1> SUFFICES ASSUME ScreenInv, CursorInv, [Next]_vars PROVE CursorInv'
  BY <1>1
<1>2. /\ pos \in 0..Size /\ reg \in 0..Size /\ cursor \in [{"LO", "HI"} -> 0..(Byte - 1)]
  BY DEF ScreenInv, TypeOK
<1> USE DEF hardware, history, At
<1>3. CASE tty_putchar
  <2>1. pc' \in {"char", "put", "advance", "move", "blank", "subtract", "home"}
    BY <1>3
    DEF tty_putchar, LoadPos, PutControl, PutVisible, Advance, ScrollMove, ScrollBlank,
        ScrollSubtract, FormFeed, FormFeedHome, ScrollIfNeeded, CharDone
  <2> QED
    BY <2>1
<1>4. CASE PrintText
  BY <1>4 DEF PrintText
<1>5. CASE CursorLoad
  BY <1>5 DEF CursorLoad
<1>6. CASE CursorLoIndex \/ CursorHiIndex
  BY <1>6 DEF CursorLoIndex, CursorHiIndex, SelectRegister
<1>7. CASE CursorLoData
  BY <1>2, <1>7 DEF CursorLoData
<1>8. CASE CursorHiData
  <2>1. SUFFICES ASSUME "cursor" \notin raced'
                 PROVE  cursor'.HI * Byte + cursor'.LO = pos'
    BY <1>8 DEF CursorHiData
  <2>2. index = "HI" /\ cursor.LO = reg % Byte /\ reg = pos
    BY <1>8, <2>1 DEF CursorHiData
  <2>3. cursor'.HI = HiByte(pos) /\ cursor'.LO = pos % Byte /\ pos' = pos
    BY <1>2, <1>8, <2>2 DEF CursorHiData
  <2> QED
    BY <1>2, <2>3, CursorBytes
<1>9. CASE Interrupt
  <2>1. /\ UNCHANGED <<pos, pc, reg, index, cursor>>
        /\ raced \subseteq raced' /\ (InCursor => "cursor" \in raced')
    BY <1>9 DEF Interrupt
  <2> QED
    BY <2>1
<1>10. CASE HandlerPutchar
  <2>1. UNCHANGED <<pc, reg>> /\ (InCursor => raced' = raced) /\ msg # <<>>
    BY <1>10 DEF HandlerPutchar
  <2>2. CASE InCursor
    BY <2>1, <2>2
  <2>3. CASE ~InCursor
    <3>1. pos' \in 0..Size
      BY <1>10, HandlerOnScreen DEF ps2_key_pressed, ScreenInv, TypeOK
    <3>2. cursor'.HI = HiByte(pos') /\ cursor'.LO = pos' % Byte
      BY <1>10 DEF HandlerPutchar
    <3>3. cursor'.HI * Byte + cursor'.LO = pos'
      BY <3>1, <3>2, CursorBytes
    <3> QED
      BY <2>1, <2>3, <3>3
  <2> QED
    BY <2>2, <2>3
<1>11. CASE UNCHANGED vars
  BY <1>11 DEF vars
<1> QED
  BY <1>3, <1>4, <1>5, <1>6, <1>7, <1>8, <1>9, <1>10, <1>11
  DEF Next, vconsole_write, tty_set_cursor, ps2_key_pressed

\* Between two writes the hardware cursor is at pos unless a handler hit the
\* port writes of the last one.
THEOREM CursorAtPosHolds == Spec => []CursorAtPos
<1>1. CursorInv => CursorAtPos
  BY DEF CursorInv, CursorAtPos
<1> QED
  BY <1>1, ScreenInductive, CursorInductive, PTL DEF Spec
-----------------------------------------------------------------------------
(***************************************************************************)
(* What the screen shows.  The reference is recursive in the length of the *)
(* log, so its equations are part of the invariant: a log that grows by a  *)
(* character keeps them, and Roll says besides that nothing was printed at *)
(* or behind the end of the paper.                                         *)
(***************************************************************************)

\* One character further on the paper.
PaperStep(p, ch) ==
    CASE ch \in {"\n", "\r"} -> NextStop(p, Width)
      [] ch = "\t"           -> NextStop(p, TabSize)
      [] ch = ESC            -> p
      [] OTHER               -> p + 1

\* f satisfies the recursive definition of PaperPos for the log l.
IsPos(f, l) ==
    f = [k \in 0..Len(l) |->
            IF k = 0 \/ l[k] = FF THEN 0 ELSE PaperStep(f[k - 1], l[k])]

\* f is the only such function, and ends behind every character printed.
Roll(f, l) ==
    /\ IsPos(f, l)
    /\ \A g : IsPos(g, l) => g = f
    /\ f \in [0..Len(l) -> Nat]
    /\ \A k \in 1..Len(l) : l[k] \notin Control => f[k - 1] < f[Len(l)]

\* The paper written by the log l with the positions f.
PaperOf(f, l, cell) ==
    LET at == {k \in 1..Len(l) : l[k] \notin Control /\ f[k - 1] = cell}
    IN  IF at # {} THEN l[CHOOSE k \in at : TRUE]
        ELSE IF cell < Size /\ (l = <<>> \/ l[1] # FF) THEN Old ELSE Blank

\* The first line on the screen when the paper ends at e.
TopOf(e) ==
    LET row == e \div Width
    IN  IF row < Height THEN 0 ELSE row - Height + 1

\* Where on the screen the log ends, and what the screen shows of it.
EndOf(f, l) == f[Len(l)] - TopOf(f[Len(l)]) * Width

SeenOf(f, l, c) == PaperOf(f, l, TopOf(f[Len(l)]) * Width + c)

\* The same once a character is drawn, and before the screen is scrolled.
PageOf(f, l, ch, c) ==
    IF ch \notin Control /\ c = EndOf(f, l) THEN ch ELSE SeenOf(f, l, c)

\* Which character tty_putchar is at.
CharInProgress ==
    /\ InPutchar /\ pc # "home" => Ch # FF
    /\ pc = "home" => Ch = FF
    /\ pc = "advance" => Ch \notin Control
    /\ InPutchar /\ msg # <<>> => "char" \in raced

\* How far tty_putchar has got with pos and with the cells of the screen, if
\* no handler has interrupted it.
ShownPos(f) ==
    /\ ~InPutchar \/ pc \in {"put", "advance"} => pos = EndOf(f, log)
    /\ pc \in {"put", "advance"} => reg = pos
    /\ Scrolling => pos = Size /\ NextPos(EndOf(f, log), Ch) = Size

ShownCell(f, c) ==
    /\ ~InPutchar \/ pc = "put" => vga_buffer[c] = SeenOf(f, log, c)
    /\ pc \in {"advance", "move"} => vga_buffer[c] = PageOf(f, log, Ch, c)
    /\ pc \in {"blank", "subtract"} /\ c < Size - Width =>
           vga_buffer[c] = PageOf(f, log, Ch, c + Width)
    /\ pc = "subtract" /\ c >= Size - Width => vga_buffer[c] = Blank
    /\ pc = "home" => vga_buffer[c] = Blank

Shown(f) == ShownPos(f) /\ \A c \in 0..(Size - 1) : ShownCell(f, c)

ShownInv ==
    /\ CharInProgress
    /\ \E f : Roll(f, log) /\ ("char" \notin raced => Shown(f))
-----------------------------------------------------------------------------
\* A quotient is determined by its remainder.
LEMMA QuotientUnique ==
    ASSUME NEW q \in Nat, NEW w \in Nat \ {0}, NEW r \in 0..(w - 1),
           NEW n, n = q * w + r
    PROVE  n \div w = q /\ n % w = r
<1>1. n \in Nat /\ q * w \in Nat /\ r \in Nat
  OBVIOUS
<1>2. PICK d \in Nat, s \in 0..(w - 1) : d = n \div w /\ s = n % w /\ n = d * w + s
  BY <1>1, Division
<1>3. d * w \in Nat
  OBVIOUS
<1>4. ~(d + 1 <= q)
  <2>1. SUFFICES ASSUME d + 1 <= q PROVE FALSE
    OBVIOUS
  <2>2. (d + 1) * w <= q * w /\ (d + 1) * w = d * w + w
    BY <2>1, Monotone
  <2> QED
    BY <1>1, <1>2, <1>3, <2>2
<1>5. ~(q + 1 <= d)
  <2>1. SUFFICES ASSUME q + 1 <= d PROVE FALSE
    OBVIOUS
  <2>2. (q + 1) * w <= d * w /\ (q + 1) * w = q * w + w
    BY <2>1, Monotone
  <2> QED
    BY <1>1, <1>2, <1>3, <2>2
<1>6. d = q
  BY <1>4, <1>5
<1> QED
  BY <1>1, <1>2, <1>6

\* The stop the paper is moved to is the next multiple.
LEMMA NextStopIs ==
    ASSUME NEW p \in Nat, NEW w \in Nat \ {0}
    PROVE  NextStop(p, w) = (p \div w + 1) * w
<1>1. PICK a \in Nat, r \in 0..(w - 1) : a = p \div w /\ p = a * w + r
  BY Division
<1>2. PICK s \in Nat : s = (a + 1) * w /\ s = a * w + w
  <2>1. (a + 1) * w = a * w + w /\ a * w + w \in Nat
    OBVIOUS
  <2> QED
    BY <2>1
<1>3. s \in (p + 1)..(p + w) /\ s % w = 0
  <2>1. s % w = 0
    <3>1. a + 1 \in Nat /\ 0 \in 0..(w - 1) /\ s = (a + 1) * w + 0
      BY <1>2
    <3> QED
      BY <3>1, QuotientUnique
  <2>2. a * w \in Nat
    OBVIOUS
  <2> QED
    BY <1>1, <1>2, <2>1, <2>2
<1>4. ASSUME NEW q \in (p + 1)..(p + w), q % w = 0 PROVE q = s
  <2>1. PICK b \in Nat : q = b * w
    <3>1. q \in Nat
      OBVIOUS
    <3>2. q \div w \in Nat /\ q = (q \div w) * w + (q % w) /\ (q \div w) * w \in Nat
      BY <3>1, Division
    <3>3. q = (q \div w) * w
      BY <1>4, <3>2
    <3> QED
      BY <3>2, <3>3
  <2>2. a * w \in Nat /\ b * w \in Nat
    OBVIOUS
  <2>3. ~(b <= a)
    <3>1. b <= a => b * w <= a * w
      BY Monotone
    <3> QED
      BY <1>1, <2>1, <2>2, <3>1
  <2>4. ~(a + 2 <= b)
    <3>1. (a + 2) * w = a * w + w + w
      OBVIOUS
    <3>2. a + 2 <= b => (a + 2) * w <= b * w
      BY Monotone
    <3> QED
      BY <1>1, <2>1, <2>2, <3>1, <3>2
  <2>5. b = a + 1
    BY <2>3, <2>4
  <2> QED
    BY <1>2, <2>1, <2>5
<1>5. NextStop(p, w) = s
  BY <1>3, <1>4 DEF NextStop
<1> QED
  BY <1>1, <1>2, <1>5

\* The lines above the screen do not move the stops on it.
LEMMA ShiftStop ==
    ASSUME NEW j \in Nat, NEW p \in Nat, NEW w \in Nat \ {0}
    PROVE  /\ (j * w + p) \div w = j + (p \div w)
           /\ NextStop(j * w + p, w) = j * w + (p \div w + 1) * w
<1>1. PICK a \in Nat, r \in 0..(w - 1) : a = p \div w /\ p = a * w + r
  BY Division
<1>2. j * w + p = (j + a) * w + r /\ j * w + p \in Nat
  BY <1>1
<1>3. (j * w + p) \div w = j + a
  <2>1. j + a \in Nat
    OBVIOUS
  <2> QED
    BY <1>2, <2>1, QuotientUnique
<1>4. NextStop(j * w + p, w) = (j + a + 1) * w
  BY <1>2, <1>3, NextStopIs
<1>5. (j + a + 1) * w = j * w + (a + 1) * w
  OBVIOUS
<1> QED
  BY <1>1, <1>3, <1>4, <1>5

\* A character moves as far on the paper as tty_putchar does on the screen.
LEMMA PaperStepScreen ==
    ASSUME NEW top \in Nat, NEW p \in Nat, NEW ch, ch # FF
    PROVE  PaperStep(top * Width + p, ch) = top * Width + NextPos(p, ch)
<1>1. Width \in Nat \ {0} /\ TabSize \in Nat \ {0} /\ Width % TabSize = 0
  BY ScreenAssumption
<1>2. PICK v \in Nat : Width = v * TabSize
  <2>1. Width \div TabSize \in Nat /\ Width = (Width \div TabSize) * TabSize + (Width % TabSize)
    BY <1>1, Division
  <2>2. (Width \div TabSize) * TabSize \in Nat
    BY <1>1, <2>1
  <2>3. Width = (Width \div TabSize) * TabSize
    BY <1>1, <2>1, <2>2
  <2> QED
    BY <2>1, <2>3
<1>3. top * Width = (top * v) * TabSize /\ top * v \in Nat
  BY <1>1, <1>2
<1>4. NextStop(top * Width + p, Width) = top * Width + (p \div Width + 1) * Width
  BY <1>1, ShiftStop
<1>5. NextStop(top * Width + p, TabSize) = top * Width + (p \div TabSize + 1) * TabSize
  <2>1. NextStop((top * v) * TabSize + p, TabSize) =
            (top * v) * TabSize + (p \div TabSize + 1) * TabSize
    BY <1>1, <1>3, ShiftStop
  <2> QED
    BY <1>3, <2>1
<1>6. PICK t \in Nat : t = top * Width
  BY <1>1
<1>7. CASE ch \in {"\n", "\r"}
  BY <1>4, <1>7 DEF PaperStep, NextPos
<1>8. CASE ch = "\t"
  BY <1>5, <1>8 DEF PaperStep, NextPos
<1>9. CASE ch \notin {"\n", "\r", "\t"}
  BY <1>6, <1>9 DEF PaperStep, NextPos, FF, ESC
<1> QED
  BY <1>7, <1>8, <1>9

\* No character goes back on the paper, and a visible one goes forward.
LEMMA PaperStepForward ==
    ASSUME NEW p \in Nat, NEW ch
    PROVE  /\ PaperStep(p, ch) \in Nat /\ PaperStep(p, ch) >= p
           /\ ch \notin Control => PaperStep(p, ch) > p
<1>1. Width \in Nat \ {0} /\ TabSize \in Nat \ {0}
  BY ScreenAssumption
<1>2. /\ NextStop(p, Width) \in Nat /\ NextStop(p, Width) > p
      /\ NextStop(p, TabSize) \in Nat /\ NextStop(p, TabSize) > p
  <2>1. ASSUME NEW w \in Nat \ {0} PROVE NextStop(p, w) \in (p + 1)..(p + w)
    BY NextStopIs, NextMultiple
  <2>2. ASSUME NEW w \in Nat \ {0} PROVE NextStop(p, w) \in Nat /\ NextStop(p, w) > p
    BY <2>1
  <2> QED
    BY <1>1, <2>2
<1>3. CASE ch \in {"\n", "\r"}
  BY <1>2, <1>3 DEF PaperStep, Control
<1>4. CASE ch = "\t"
  BY <1>2, <1>4 DEF PaperStep, Control
<1>5. CASE ch \notin {"\n", "\r", "\t"}
  BY <1>5 DEF PaperStep, Control, ESC
<1> QED
  BY <1>3, <1>4, <1>5

\* PaperPos is the function its definition describes, if there is only one.
LEMMA PaperPosIs ==
    ASSUME NEW f
    PROVE  Roll(f, log) => PaperPos = f
<1>1. PaperPos = CHOOSE g : IsPos(g, log)
  BY Zenon DEF PaperPos, IsPos, PaperStep
<1>2. Roll(f, log) => (CHOOSE g : IsPos(g, log)) = f
  BY Zenon DEF Roll
<1> QED
  BY <1>1, <1>2, Zenon

\* The cells of such a function.
LEMMA IsPosCells ==
    ASSUME NEW f, NEW l
    PROVE  IsPos(f, l) <=>
               /\ f = [k \in 0..Len(l) |-> f[k]]
               /\ \A k \in 0..Len(l) :
                      f[k] = IF k = 0 \/ l[k] = FF THEN 0 ELSE PaperStep(f[k - 1], l[k])
<1>1. IsPos(f, l) => /\ f = [k \in 0..Len(l) |-> f[k]]
                     /\ \A k \in 0..Len(l) :
                            f[k] = IF k = 0 \/ l[k] = FF THEN 0
                                   ELSE PaperStep(f[k - 1], l[k])
  BY DEF IsPos
<1>2. ASSUME /\ f = [k \in 0..Len(l) |-> f[k]]
             /\ \A k \in 0..Len(l) :
                    f[k] = IF k = 0 \/ l[k] = FF THEN 0 ELSE PaperStep(f[k - 1], l[k])
      PROVE  IsPos(f, l)
  BY <1>2 DEF IsPos
<1> QED
  BY <1>1, <1>2

\* A function of the positions that starts a log.
LEMMA RollStarts ==
    /\ Roll([k \in 0..0 |-> 0], <<>>)
    /\ Roll([k \in 0..1 |-> 0], <<FF>>)
<1>1. ASSUME NEW l, l \in {<<>>, <<FF>>} PROVE Roll([k \in 0..Len(l) |-> 0], l)
  <2>1. PICK f : f = [k \in 0..Len(l) |-> 0]
    OBVIOUS
  <2>2. \A k \in 0..Len(l) : k = 0 \/ l[k] = FF
    BY <1>1
  <2>3. \A g : IsPos(g, l) => g = f
    BY <2>1, <2>2 DEF IsPos
  <2>4. IsPos(f, l)
    BY <2>1, <2>2 DEF IsPos
  <2>5. f \in [0..Len(l) -> Nat]
    BY <2>1
  <2>6. \A k \in 1..Len(l) : l[k] \in Control
    BY <1>1 DEF Control
  <2> QED
    BY <2>1, <2>3, <2>4, <2>5, <2>6 DEF Roll
<1>2. Len(<<>>) = 0 /\ Len(<<FF>>) = 1
  OBVIOUS
<1> QED
  BY <1>1, <1>2

\* The positions of a log with one more character.
Longer(f, l, ch) ==
    [k \in 0..(Len(l) + 1) |->
        IF k = Len(l) + 1 THEN PaperStep(f[Len(l)], ch) ELSE f[k]]

\* They are again the only ones, and end behind every character printed.
LEMMA RollAppend ==
    ASSUME NEW l \in Seq(Chars), NEW ch \in Chars, ch # FF, NEW f, Roll(f, l)
    PROVE  Roll(Longer(f, l, ch), Append(l, ch))
<1>1. PICK g, m, n : g = Longer(f, l, ch) /\ m = Append(l, ch) /\ n = Len(l)
  OBVIOUS
<1>2. /\ m \in Seq(Chars) /\ n \in Nat /\ Len(m) = n + 1
      /\ m[n + 1] = ch /\ \A k \in 1..n : m[k] = l[k]
  BY <1>1, LenProperties, AppendProperties
<1>3. /\ f \in [0..n -> Nat]
      /\ \A k \in 0..n : f[k] = IF k = 0 \/ l[k] = FF THEN 0 ELSE PaperStep(f[k - 1], l[k])
  BY <1>1, IsPosCells DEF Roll
<1>4. /\ g = [k \in 0..(n + 1) |-> g[k]]
      /\ \A k \in 0..n : g[k] = f[k]
      /\ g[n + 1] = PaperStep(f[n], ch)
  BY <1>1, <1>2 DEF Longer
<1>5. f[n] \in Nat /\ PaperStep(f[n], ch) \in Nat /\ PaperStep(f[n], ch) >= f[n]
      /\ (ch \notin Control => PaperStep(f[n], ch) > f[n])
  BY <1>2, <1>3, PaperStepForward
<1>6. g \in [0..(n + 1) -> Nat]
  <2>1. ASSUME NEW k \in 0..(n + 1) PROVE g[k] \in Nat
    <3>1. k \in 0..n \/ k = n + 1
      BY <1>2
    <3> QED
      BY <1>3, <1>4, <1>5, <3>1
  <2> QED
    BY <1>4, <2>1
<1>7. IsPos(g, m)
  <2>1. ASSUME NEW k \in 0..(n + 1)
        PROVE  g[k] = IF k = 0 \/ m[k] = FF THEN 0 ELSE PaperStep(g[k - 1], m[k])
    <3>1. CASE k = 0
      <4>1. 0 \in 0..n
        BY <1>2
      <4>2. f[0] = 0
        BY <1>3, <4>1
      <4> QED
        BY <1>4, <3>1, <4>1, <4>2
    <3>2. CASE k \in 1..n
      <4>1. k - 1 \in 0..n /\ k \in 0..n
        BY <1>2, <3>2
      <4> QED
        BY <1>2, <1>3, <1>4, <3>2, <4>1
    <3>3. CASE k = n + 1
      <4>1. k - 1 = n /\ n \in 0..n /\ k # 0
        BY <1>2, <3>3
      <4> QED
        BY <1>2, <1>4, <3>3, <4>1
    <3> QED
      BY <1>2, <3>1, <3>2, <3>3
  <2> QED
    BY <1>2, <1>4, <2>1, IsPosCells
<1>8. ASSUME NEW h, IsPos(h, m) PROVE h = g
  <2>1. /\ h = [k \in 0..(n + 1) |-> h[k]]
        /\ \A k \in 0..(n + 1) :
               h[k] = IF k = 0 \/ m[k] = FF THEN 0 ELSE PaperStep(h[k - 1], m[k])
    BY <1>2, <1>8, IsPosCells
  <2>2. PICK e : e = [k \in 0..n |-> h[k]]
    OBVIOUS
  <2>3. IsPos(e, l)
    <3>1. \A k \in 0..n : e[k] = h[k] /\ k \in 0..(n + 1)
      BY <1>2, <2>2
    <3>2. ASSUME NEW k \in 0..n
          PROVE  e[k] = IF k = 0 \/ l[k] = FF THEN 0 ELSE PaperStep(e[k - 1], l[k])
      <4>1. k # 0 => k - 1 \in 0..n /\ k \in 1..n
        BY <1>2
      <4> QED
        BY <1>2, <2>1, <3>1, <4>1
    <3>3. e = [k \in 0..n |-> e[k]]
      BY <2>2
    <3> QED
      BY <1>1, <3>2, <3>3, IsPosCells
  <2>4. e = f
    BY <2>3 DEF Roll
  <2>5. \A k \in 0..n : h[k] = f[k]
    BY <2>2, <2>4
  <2>6. h[n + 1] = PaperStep(f[n], ch)
    <3>1. PICK j \in 0..(n + 1) : j = n + 1 /\ j # 0 /\ j - 1 = n /\ n \in 0..n
      BY <1>2
    <3>2. h[j] = IF j = 0 \/ m[j] = FF THEN 0 ELSE PaperStep(h[j - 1], m[j])
      BY <2>1
    <3>3. h[n] = f[n]
      BY <2>5, <3>1
    <3> QED
      BY <1>2, <3>1, <3>2, <3>3
  <2>7. \A k \in 0..(n + 1) : h[k] = g[k]
    <3>1. \A k \in 0..(n + 1) : k \in 0..n \/ k = n + 1
      BY <1>2
    <3> QED
      BY <1>4, <2>5, <2>6, <3>1
  <2> QED
    BY <1>4, <2>1, <2>7
<1>9. ASSUME NEW k \in 1..(n + 1), m[k] \notin Control PROVE g[k - 1] < g[n + 1]
  <2>1. CASE k \in 1..n
    <3>1. k - 1 \in 0..n /\ f[k - 1] < f[n] /\ f[k - 1] \in Nat
      BY <1>1, <1>2, <1>3, <1>9, <2>1 DEF Roll
    <3>2. g[k - 1] = f[k - 1] /\ g[n + 1] >= f[n]
      BY <1>4, <1>5, <3>1
    <3>3. g[n + 1] \in Nat
      BY <1>4, <1>5
    <3> QED
      BY <1>5, <3>1, <3>2, <3>3
  <2>2. CASE k = n + 1
    <3>1. k - 1 = n /\ n \in 0..n
      BY <1>2, <2>2
    <3>2. g[k - 1] = f[n] /\ g[n + 1] > f[n]
      BY <1>2, <1>4, <1>5, <1>9, <2>2, <3>1
    <3> QED
      BY <3>2
  <2> QED
    BY <1>2, <2>1, <2>2
<1> QED
  BY <1>1, <1>2, <1>6, <1>7, <1>8, <1>9 DEF Roll

\* A visible character is written at the end of the paper, where nothing was;
\* the rest of the paper stays as it is.
LEMMA PaperAppend ==
    ASSUME NEW l \in Seq(Chars), NEW ch \in Chars, ch # FF, NEW f, Roll(f, l),
           NEW cell
    PROVE  PaperOf(Longer(f, l, ch), Append(l, ch), cell) =
               IF ch \notin Control /\ cell = f[Len(l)] THEN ch ELSE PaperOf(f, l, cell)
<1>1. PICK g, m, n : g = Longer(f, l, ch) /\ m = Append(l, ch) /\ n = Len(l)
  OBVIOUS
<1>2. /\ m \in Seq(Chars) /\ n \in Nat /\ Len(m) = n + 1
      /\ m[n + 1] = ch /\ \A k \in 1..n : m[k] = l[k]
  BY <1>1, LenProperties, AppendProperties
<1>3. \A k \in 0..n : g[k] = f[k]
  BY <1>1, <1>2 DEF Longer
<1>4. PICK at, at2 :
         /\ at = {k \in 1..n : l[k] \notin Control /\ f[k - 1] = cell}
         /\ at2 = {k \in 1..(n + 1) : m[k] \notin Control /\ g[k - 1] = cell}
  OBVIOUS
<1>5. (l = <<>> \/ l[1] # FF) <=> (m = <<>> \/ m[1] # FF)
  <2>1. m # <<>>
    BY <1>2
  <2>2. CASE l = <<>>
    <3>1. n = 0
      BY <1>1, <2>2
    <3> QED
      BY <1>2, <2>1, <2>2, <3>1
  <2>3. CASE l # <<>>
    <3>1. n # 0
      BY <1>1, <2>3, EmptySeq
    <3>2. 1 \in 1..n
      BY <1>2, <3>1
    <3> QED
      BY <1>2, <2>1, <2>3, <3>2
  <2> QED
    BY <2>2, <2>3
<1>6. /\ PaperOf(f, l, cell) =
             IF at # {} THEN l[CHOOSE k \in at : TRUE]
             ELSE IF cell < Size /\ (l = <<>> \/ l[1] # FF) THEN Old ELSE Blank
      /\ PaperOf(g, m, cell) =
             IF at2 # {} THEN m[CHOOSE k \in at2 : TRUE]
             ELSE IF cell < Size /\ (m = <<>> \/ m[1] # FF) THEN Old ELSE Blank
  <2>1. Len(m) = n + 1 /\ Len(l) = n
    BY <1>1, <1>2
  <2> QED
    BY <1>4, <2>1 DEF PaperOf
<1>7. CASE ch \notin Control /\ cell = f[n]
  <2>1. at2 = {n + 1}
    <3>1. \A k \in 1..n : k - 1 \in 0..n /\ (l[k] \notin Control => f[k - 1] # cell)
      <4>1. f \in [0..n -> Nat] /\ \A k \in 1..n : l[k] \notin Control => f[k - 1] < f[n]
        BY <1>1 DEF Roll
      <4> QED
        BY <1>2, <1>7, <4>1
    <3>2. n + 1 - 1 = n /\ n \in 0..n
      BY <1>2
    <3> QED
      BY <1>2, <1>3, <1>4, <1>7, <3>1, <3>2
  <2>2. (CHOOSE k \in at2 : TRUE) = n + 1
    BY <2>1
  <2>3. PaperOf(g, m, cell) = m[n + 1]
    BY <1>6, <2>1, <2>2
  <2> QED
    BY <1>1, <1>2, <1>7, <2>3
<1>8. CASE ~(ch \notin Control /\ cell = f[n])
  <2>1. at2 = at
    <3>1. \A k \in 1..n : k - 1 \in 0..n /\ k \in 1..(n + 1)
      BY <1>2
    <3>2. n + 1 - 1 = n /\ n \in 0..n
      BY <1>2
    <3>3. \A k \in 1..(n + 1) : k \in 1..n \/ k = n + 1
      BY <1>2
    <3> QED
      BY <1>2, <1>3, <1>4, <1>8, <3>1, <3>2, <3>3
  <2>2. at # {} => (CHOOSE k \in at : TRUE) \in 1..n
    <3>1. at # {} => (CHOOSE k \in at : TRUE) \in at
      OBVIOUS
    <3> QED
      BY <1>4, <3>1
  <2>3. PaperOf(g, m, cell) = PaperOf(f, l, cell)
    BY <1>2, <1>5, <1>6, <2>1, <2>2
  <2> QED
    BY <1>1, <1>8, <2>3
<1> QED
  BY <1>7, <1>8

\* The end of the paper is on the screen, and on its last line once a line
\* has left it.
LEMMA TopFacts ==
    ASSUME NEW e \in Nat
    PROVE  /\ TopOf(e) \in Nat
           /\ e - TopOf(e) * Width \in 0..(Size - 1)
           /\ TopOf(e) # 0 => e - TopOf(e) * Width >= Size - Width
<1>1. /\ Width \in Nat \ {0} /\ Height \in Nat \ {0, 1}
      /\ Size = Height * Width /\ Size \in Nat
  BY SizeFacts, ScreenAssumption
<1>2. PICK a \in Nat, r \in 0..(Width - 1) : a = e \div Width /\ e = a * Width + r
  BY <1>1, Division
<1>3. CASE a < Height
  <2>1. TopOf(e) = 0
    BY <1>2, <1>3 DEF TopOf
  <2>2. (a + 1) * Width <= Height * Width /\ (a + 1) * Width = a * Width + Width
    BY <1>1, <1>3, Monotone
  <2>3. a * Width \in Nat /\ 0 * Width = 0
    BY <1>1
  <2> QED
    BY <1>1, <1>2, <2>1, <2>2, <2>3
<1>4. CASE a >= Height
  <2>1. PICK t \in Nat : t = a - Height + 1
    BY <1>1, <1>4
  <2>2. TopOf(e) = t /\ a = t + Height - 1
    BY <1>1, <1>2, <1>4, <2>1 DEF TopOf
  <2>3. a * Width = t * Width + Size - Width /\ t * Width \in Nat
    BY <1>1, <2>1, <2>2
  <2>4. e - t * Width = Size - Width + r /\ Size - Width >= 0
    BY <1>1, <1>2, <2>3, SizeFacts
  <2> QED
    BY <1>1, <2>2, <2>4
<1> QED
  BY <1>1, <1>3, <1>4

\* And that determines the first line on the screen.
LEMMA TopUnique ==
    ASSUME NEW t \in Nat, NEW x \in 0..(Size - 1), t # 0 => x >= Size - Width,
           NEW e, e = t * Width + x
    PROVE  TopOf(e) = t
<1>1. /\ Width \in Nat \ {0} /\ Height \in Nat \ {0, 1} /\ x \in Nat
      /\ Size = Height * Width /\ Size \in Nat /\ x < Height * Width
  BY SizeFacts, ScreenAssumption
<1>2. PICK b \in Nat : b = x \div Width /\ b < Height
  BY <1>1, Division, QuotientBelow
<1>3. e \div Width = t + b
  BY <1>1, <1>2, ShiftStop
<1>4. CASE t = 0
  BY <1>1, <1>2, <1>3, <1>4 DEF TopOf
<1>5. CASE t # 0
  <2>1. b = Height - 1
    <3>1. SUFFICES ASSUME b + 2 <= Height PROVE FALSE
      BY <1>1, <1>2
    <3>2. (b + 2) * Width <= Height * Width /\ (b + 2) * Width = b * Width + Width + Width
      BY <1>1, <3>1, Monotone
    <3>3. /\ x % Width \in 0..(Width - 1) /\ x = b * Width + (x % Width)
          /\ b * Width \in Nat
      BY <1>1, <1>2, Division
    <3> QED
      BY <1>1, <1>5, <3>2, <3>3
  <2> QED
    BY <1>1, <1>3, <1>5, <2>1 DEF TopOf
<1> QED
  BY <1>4, <1>5

\* A character that ends at the end of the screen brings one line more.
LEMMA TopStep ==
    ASSUME NEW e \in Nat, NEW q \in Nat, NEW top, top = TopOf(e),
           q >= e - top * Width, q <= Size
    PROVE  /\ TopOf(top * Width + q) = top + Lines(q)
           /\ Lines(q) = IF q < Size THEN 0 ELSE 1
<1>1. Width \in Nat \ {0} /\ Size \in Nat /\ Size >= 2 * Width
  BY SizeFacts
<1>2. PICK p \in 0..(Size - 1) : /\ p = e - top * Width /\ top \in Nat
                                 /\ top # 0 => p >= Size - Width
  BY TopFacts
<1>3. CASE q < Size
  <2>1. q \in 0..(Size - 1) /\ (top # 0 => q >= Size - Width)
    BY <1>1, <1>2, <1>3
  <2>2. TopOf(top * Width + q) = top
    BY <1>2, <2>1, TopUnique
  <2>3. Lines(q) = 0
    BY <1>3, LinesScroll
  <2> QED
    BY <1>2, <1>3, <2>2, <2>3
<1>4. CASE q = Size
  <2>1. /\ top + 1 \in Nat /\ Size - Width \in 0..(Size - 1)
        /\ top * Width + q = (top + 1) * Width + (Size - Width)
    <3>1. (top + 1) * Width = top * Width + Width /\ top * Width \in Nat
      BY <1>1, <1>2
    <3>2. Size - Width \in 0..(Size - 1)
      BY <1>1
    <3>3. top \in Nat
      BY <1>2
    <3>4. top + 1 \in Nat
      BY <3>3
    <3> QED
      BY <1>1, <1>4, <3>1, <3>2, <3>4
  <2>2. TopOf(top * Width + q) = top + 1
    BY <2>1, TopUnique
  <2>3. Lines(q) = 1
    BY <1>4, LinesScroll
  <2> QED
    BY <1>1, <1>4, <2>2, <2>3
<1> QED
  BY <1>1, <1>3, <1>4

\* Behind its end the paper is blank.
LEMMA PaperBlank ==
    ASSUME NEW l, NEW f, Roll(f, l), Len(l) \in Nat,
           NEW cell \in Nat, cell >= f[Len(l)], cell >= Size
    PROVE  PaperOf(f, l, cell) = Blank
<1>1. /\ f \in [0..Len(l) -> Nat]
      /\ \A k \in 1..Len(l) : l[k] \notin Control => f[k - 1] < f[Len(l)]
  BY DEF Roll
<1>2. \A k \in 1..Len(l) : k - 1 \in 0..Len(l) /\ Len(l) \in 0..Len(l)
  OBVIOUS
<1>3. \A k \in 1..Len(l) : ~(l[k] \notin Control /\ f[k - 1] = cell)
  BY <1>1, <1>2
<1>4. {k \in 1..Len(l) : l[k] \notin Control /\ f[k - 1] = cell} = {}
  BY <1>3
<1>5. ~(cell < Size)
  BY SizeFacts
<1> QED
  BY <1>4, <1>5 DEF PaperOf

\* The screen v with the position x shows the log l.
Shows(f, l, x, v) ==
    /\ x = EndOf(f, l)
    /\ \A c \in 0..(Size - 1) : v[c] = SeenOf(f, l, c)

\* Drawing a character, and scrolling by the line it takes, is what makes the
\* screen show the longer log.
LEMMA PrintShows ==
    ASSUME NEW l \in Seq(Chars), NEW ch \in Chars, ch # FF, NEW f, Roll(f, l),
           NEW q, q = NextPos(EndOf(f, l), ch),
           NEW x, x = q - Lines(q) * Width, NEW v,
           \A c \in 0..(Size - 1) :
               v[c] = IF q < Size THEN PageOf(f, l, ch, c)
                      ELSE IF c < Size - Width THEN PageOf(f, l, ch, c + Width)
                      ELSE Blank
    PROVE  Shows(Longer(f, l, ch), Append(l, ch), x, v)
<1>1. PICK g, m, n, e, top, p :
         /\ g = Longer(f, l, ch) /\ m = Append(l, ch) /\ n = Len(l) /\ e = f[n]
         /\ top = TopOf(e) /\ p = e - top * Width
  OBVIOUS
<1>2. Width \in Nat \ {0} /\ Size \in Nat /\ Size >= 2 * Width
  BY SizeFacts
<1>3. /\ n \in Nat /\ Len(m) = n + 1 /\ e \in Nat /\ p = EndOf(f, l)
  <2>1. n \in Nat /\ Len(m) = n + 1
    BY <1>1, LenProperties, AppendProperties
  <2>2. e \in Nat
    BY <1>1, <2>1 DEF Roll
  <2> QED
    BY <1>1, <2>1, <2>2 DEF EndOf
<1>4. top \in Nat /\ p \in 0..(Size - 1) /\ p \in Nat /\ e = top * Width + p
  <2>1. top \in Nat /\ p \in 0..(Size - 1)
    BY <1>1, <1>3, TopFacts
  <2>2. PICK w \in Nat : w = top * Width
    BY <1>2, <2>1
  <2>3. p = e - w
    BY <1>1, <2>2
  <2>4. e = w + p /\ p \in Nat
    BY <1>2, <1>3, <2>1, <2>3
  <2> QED
    BY <2>1, <2>2, <2>4
<1>5. q \in 0..Size /\ q >= p /\ q \in Nat
  <2>1. q \in 0..Size
    BY <1>3, <1>4, NextPosOnScreen
  <2>2. q >= p
    <3>1. p \in 0..Size
      BY <1>2, <1>4
    <3> QED
      BY <1>3, <3>1, NextPosForward
  <2> QED
    BY <2>1, <2>2
<1>6. g[n + 1] = top * Width + q
  <2>1. g[n + 1] = PaperStep(e, ch)
    BY <1>1, <1>3 DEF Longer
  <2> QED
    BY <1>3, <1>4, <2>1, PaperStepScreen
<1>7. PICK t : /\ t = TopOf(g[n + 1]) /\ t = top + Lines(q)
               /\ Lines(q) = IF q < Size THEN 0 ELSE 1
  BY <1>1, <1>3, <1>5, <1>6, TopStep
<1>8. EndOf(g, m) = x
  <2>1. EndOf(g, m) = g[n + 1] - t * Width
    BY <1>3, <1>7 DEF EndOf
  <2> QED
    <3>1. PICK w \in Nat : w = top * Width
      BY <1>2, <1>4
    <3>2. PICK d \in Nat : d = Lines(q) * Width /\ t * Width = w + d
      <4>1. CASE q < Size
        BY <1>2, <1>7, <3>1, <4>1, <1>4
      <4>2. CASE ~(q < Size)
        BY <1>2, <1>7, <3>1, <4>2, <1>4
      <4> QED
        BY <4>1, <4>2
    <3>3. g[n + 1] = w + q
      BY <1>6, <3>1
    <3>4. EndOf(g, m) = (w + q) - (w + d) /\ x = q - d
      BY <2>1, <3>2, <3>3
    <3> QED
      BY <1>5, <3>4
<1>9. ASSUME NEW c \in 0..(Size - 1) PROVE v[c] = SeenOf(g, m, c)
  <2>1. SeenOf(g, m, c) = PaperOf(g, m, t * Width + c)
    BY <1>3, <1>7 DEF SeenOf
  <2>2. ASSUME NEW b \in Nat PROVE PaperOf(g, m, top * Width + b) = PageOf(f, l, ch, b)
    <3>1. PaperOf(g, m, top * Width + b) =
              IF ch \notin Control /\ top * Width + b = e THEN ch
              ELSE PaperOf(f, l, top * Width + b)
      BY <1>1, PaperAppend
    <3>2. top * Width + b = e <=> b = p
      <4>1. top * Width \in Nat
        BY <1>2, <1>4
      <4> QED
        BY <1>4, <4>1
    <3>3. SeenOf(f, l, b) = PaperOf(f, l, top * Width + b)
      BY <1>1 DEF SeenOf
    <3> QED
      BY <1>3, <3>1, <3>2, <3>3 DEF PageOf
  <2>3. CASE q < Size
    BY <1>7, <1>4, <2>1, <2>2, <2>3
  <2>4. CASE ~(q < Size) /\ c < Size - Width
    <3>1. t * Width + c = top * Width + (c + Width) /\ c + Width \in Nat
      BY <1>2, <1>4, <1>7, <2>4
    <3> QED
      BY <2>1, <2>2, <2>4, <3>1
  <2>5. CASE ~(q < Size) /\ ~(c < Size - Width)
    <3>1. q = Size /\ t = top + 1 /\ top * Width \in Nat
      BY <1>2, <1>4, <1>5, <1>7, <2>5
    <3>2. t * Width + c = top * Width + Width + c
      BY <1>2, <1>4, <3>1
    <3>3. t * Width + c \in Nat /\ t * Width + c >= g[n + 1] /\ t * Width + c >= Size
      BY <1>2, <1>6, <2>5, <3>1, <3>2
    <3>4. Roll(g, m)
      BY <1>1, RollAppend
    <3>5. Len(m) \in Nat /\ t * Width + c >= g[Len(m)]
      BY <1>3, <3>3
    <3>6. PaperOf(g, m, t * Width + c) = Blank
      BY <3>3, <3>4, <3>5, PaperBlank
    <3> QED
      BY <2>1, <2>5, <3>6
  <2> QED
    BY <2>3, <2>4, <2>5
<1> QED
  BY <1>1, <1>8, <1>9 DEF Shows

\* What drawing and scrolling by at most one line do to a cell.
LEMMA CellsAfter ==
    ASSUME NEW v \in [Cells -> Chars \cup {Blank, Old}], NEW c \in 0..(Size - 1)
    PROVE  /\ c < Size - Width => Moved(v, 1)[c] = v[c + Width]
           /\ Blanked(v, 1)[c] = IF c < Size - Width THEN v[c] ELSE Blank
           /\ Moved(v, 0)[c] = v[c] /\ Blanked(v, 0)[c] = v[c]
           /\ Cleared(v)[c] = Blank
           /\ \A p \in 0..(Size - 1) : \A ch : ch # FF =>
                  Drawn(v, p, ch)[c] = IF ch \notin Control /\ c = p THEN ch ELSE v[c]
<1>1. /\ Size \in Nat /\ Width \in Nat \ {0} /\ c \in Cells /\ c < Size
      /\ 1 * Width = Width /\ 0 * Width = 0
  BY SizeFacts DEF Cells
<1>2. \A p \in 0..(Size - 1) : \A ch : ch # FF =>
          Drawn(v, p, ch)[c] = IF ch \notin Control /\ c = p THEN ch ELSE v[c]
  <2> SUFFICES ASSUME NEW p \in 0..(Size - 1), NEW ch, ch # FF
               PROVE  Drawn(v, p, ch)[c] = IF ch \notin Control /\ c = p THEN ch ELSE v[c]
    OBVIOUS
  <2>1. p \in Cells
    BY <1>1 DEF Cells
  <2>2. CASE ch \in Control
    BY <2>2 DEF Drawn
  <2>3. CASE ch \notin Control
    <3>1. Drawn(v, p, ch) = [v EXCEPT ![p] = ch]
      BY <2>3 DEF Drawn
    <3> QED
      BY <1>1, <2>1, <2>3, <3>1
  <2> QED
    BY <2>2, <2>3
<1> QED
  BY <1>1, <1>2 DEF Moved, Blanked, Cleared

\* The screen and pos after a character of the log f was printed in full.
Prints(f, ch) ==
    /\ pos' = NextPos(EndOf(f, log), ch) - Lines(NextPos(EndOf(f, log), ch)) * Width
    /\ \A c \in 0..(Size - 1) :
           vga_buffer'[c] =
               IF NextPos(EndOf(f, log), ch) < Size THEN PageOf(f, log, ch, c)
               ELSE IF c < Size - Width THEN PageOf(f, log, ch, c + Width)
               ELSE Blank

\* The log ends on the screen.
LEMMA EndOnScreen ==
    ASSUME NEW l \in Seq(Chars), NEW f, Roll(f, l)
    PROVE  EndOf(f, l) \in 0..(Size - 1)
<1>1. Len(l) \in Nat /\ Len(l) \in 0..Len(l)
  BY LenProperties
<1>2. f[Len(l)] \in Nat
  BY <1>1 DEF Roll
<1> QED
  BY <1>2, TopFacts DEF EndOf

\* A character that was printed in full is shown, whoever printed it.
LEMMA PrintedIsShown ==
    ASSUME log \in Seq(Chars), NEW f, Roll(f, log), NEW ch \in Chars, ch # FF,
           log' = Logged(ch), ("char" \in raced') <=> ("char" \in raced),
           ~InPutchar', "char" \notin raced => Prints(f, ch)
    PROVE  (\E g : Roll(g, log) /\ ("char" \notin raced => Shown(g)))'
<1>1. CASE "char" \in raced
  <2>1. log' = <<>>
    BY <1>1 DEF Logged
  <2> QED
    BY <1>1, <2>1, RollStarts
<1>2. CASE "char" \notin raced
  <2>1. PICK g : g = Longer(f, log, ch)
    OBVIOUS
  <2>2. log' = Append(log, ch) /\ Roll(g, log')
    BY <1>2, <2>1, RollAppend DEF Logged
  <2>3. Shows(g, log', pos', vga_buffer')
    <3>1. PICK q : q = NextPos(EndOf(f, log), ch)
      OBVIOUS
    <3>2. /\ pos' = q - Lines(q) * Width
          /\ \A c \in 0..(Size - 1) :
                 vga_buffer'[c] = IF q < Size THEN PageOf(f, log, ch, c)
                                  ELSE IF c < Size - Width THEN PageOf(f, log, ch, c + Width)
                                  ELSE Blank
      BY <1>2, <3>1 DEF Prints
    <3> QED
      BY <2>1, <2>2, <3>1, <3>2, PrintShows
  <2>4. ~InPutchar' /\ ~Scrolling'
        /\ pc' \notin {"put", "advance", "move", "blank", "subtract", "home"}
    BY DEF InPutchar, Scrolling
  <2>5. Shown(g)'
    <3>1. ShownPos(g)'
      BY <2>3, <2>4 DEF Shows, ShownPos
    <3>2. ASSUME NEW c \in 0..(Size - 1) PROVE ShownCell(g, c)'
      BY <2>3, <2>4 DEF Shows, ShownCell
    <3> QED
      BY <3>1, <3>2 DEF Shown
  <2> QED
    BY <2>2, <2>5
<1> QED
  BY <1>1, <1>2

\* The end of tty_putchar when the character is drawn and pos is past it: it
\* is shown, or a line is left to scroll.
LEMMA ScrollOrShown ==
    ASSUME ScreenInv, NEW f, Roll(f, log), pc \in {"put", "advance"}, Ch # FF,
           msg = <<>>, NEW p \in 0..Size, ScrollIfNeeded(p),
           UNCHANGED <<vga_buffer, msg, raced>>,
           "char" \notin raced =>
               /\ pos' = p /\ p = NextPos(EndOf(f, log), Ch)
               /\ \A c \in 0..(Size - 1) : vga_buffer[c] = PageOf(f, log, Ch, c)
    PROVE  ShownInv'
<1>1. Size \in Nat /\ Width \in Nat \ {0} /\ p \in Nat
  BY SizeFacts
<1>2. /\ log \in Seq(Chars) /\ text \in Seq(Seq(Chars)) /\ text # <<>>
      /\ Head(text) # <<>> /\ InPutchar
  BY DEF ScreenInv, TypeOK, TextLeft, InPutchar, Scrolling
<1>3. Ch \in Chars
  BY <1>2, TextFacts
<1>4. CASE Lines(p) > 0 /\ pc' = "move" /\ reg' = Lines(p) /\ UNCHANGED <<text, log>>
  <2>1. p = Size
    BY <1>1, <1>4, LinesScroll
  <2>2. Ch' = Ch
    BY <1>4 DEF Ch
  <2>3. InPutchar' /\ Scrolling'
    BY <1>4 DEF InPutchar, Scrolling
  <2>4. CharInProgress'
    BY <1>4, <2>2 DEF CharInProgress
  <2>5. ASSUME "char" \notin raced PROVE Shown(f)'
    <3>1. ShownPos(f)'
      BY <1>4, <2>1, <2>2, <2>3, <2>5 DEF ShownPos
    <3>2. ASSUME NEW c \in 0..(Size - 1) PROVE ShownCell(f, c)'
      BY <1>4, <2>2, <2>3, <2>5 DEF ShownCell
    <3> QED
      BY <3>1, <3>2 DEF Shown
  <2>6. Roll(f, log')
    BY <1>4
  <2> QED
    BY <2>4, <2>5, <2>6 DEF ShownInv
<1>5. CASE Lines(p) = 0 /\ CharDone /\ UNCHANGED reg
  <2>1. p < Size
    BY <1>1, <1>5, LinesScroll
  <2>2. log' = Logged(Ch) /\ pc' = "char"
    BY <1>5 DEF CharDone
  <2>3. ~InPutchar' /\ CharInProgress'
    BY <2>2 DEF InPutchar, Scrolling, CharInProgress
  <2>4. "char" \notin raced => Prints(f, Ch)
    <3>1. p - Lines(p) * Width = p
      BY <1>1, <1>5
    <3> QED
      BY <2>1, <3>1 DEF Prints
  <2>5. (\E g : Roll(g, log) /\ ("char" \notin raced => Shown(g)))'
    BY <1>2, <1>3, <2>2, <2>3, <2>4, PrintedIsShown
  <2> QED
    BY <2>3, <2>5 DEF ShownInv
<1> QED
  BY <1>4, <1>5 DEF ScrollIfNeeded

\* What tty_putchar has done so far, step by step, is what the log asks for.
LEMMA PutcharShown ==
    ASSUME ScreenInv, ShownInv, tty_putchar
    PROVE  ShownInv'
<1>1. PICK f : Roll(f, log) /\ ("char" \notin raced => Shown(f))
  BY DEF ShownInv
<1>2. /\ Size \in Nat /\ Width \in Nat \ {0} /\ Size >= 2 * Width
      /\ log \in Seq(Chars) /\ vga_buffer \in [Cells -> Chars \cup {Blank, Old}]
      /\ reg \in 0..Size /\ pos \in 0..Size
  BY SizeFacts DEF ScreenInv, TypeOK
<1>3. CharInProgress
  BY DEF ShownInv
<1>4. EndOf(f, log) \in 0..(Size - 1)
  BY <1>1, <1>2, EndOnScreen
<1>5. CASE LoadPos
  <2>1. /\ pc = "char" /\ pc' = "put" /\ reg' = pos /\ Ch # FF /\ msg = <<>>
        /\ UNCHANGED <<vga_buffer, pos, text, msg, log, raced>>
    BY <1>5 DEF LoadPos, At, history
  <2>2. Ch' = Ch
    BY <2>1 DEF Ch
  <2>3. CharInProgress'
    BY <2>1, <2>2 DEF CharInProgress
  <2>4. ~InPutchar /\ ~Scrolling'
    BY <2>1 DEF InPutchar, Scrolling
  <2>5. ASSUME "char" \notin raced PROVE Shown(f)'
    <3>1. ShownPos(f)'
      BY <1>1, <2>1, <2>4, <2>5 DEF Shown, ShownPos
    <3>2. ASSUME NEW c \in 0..(Size - 1) PROVE ShownCell(f, c)'
      <4>1. vga_buffer[c] = SeenOf(f, log, c)
        BY <1>1, <2>4, <2>5 DEF Shown, ShownCell
      <4> QED
        BY <2>1, <4>1 DEF ShownCell
    <3> QED
      BY <3>1, <3>2 DEF Shown
  <2>6. Roll(f, log')
    BY <1>1, <2>1
  <2> QED
    BY <2>1, <2>3, <2>5, <2>6 DEF ShownInv
<1>6. CASE PutControl
  <2>1. /\ pc = "put" /\ msg = <<>> /\ Ch \in Control
        /\ pos' = (IF Ch = ESC THEN pos ELSE NextPos(reg, Ch))
        /\ ScrollIfNeeded(NextPos(reg, Ch))
        /\ UNCHANGED <<vga_buffer, msg, raced>>
    BY <1>6 DEF PutControl, At
  <2>2. Ch # FF
    BY <1>3, <2>1 DEF CharInProgress, InPutchar
  <2>3. reg \in 0..(Size - 1)
    BY <1>2, <2>1 DEF ScreenInv, OnScreen
  <2>4. NextPos(reg, Ch) \in 0..Size
    BY <2>3, NextPosOnScreen
  <2>5. ASSUME "char" \notin raced
        PROVE  /\ pos' = NextPos(reg, Ch) /\ reg = EndOf(f, log)
               /\ \A c \in 0..(Size - 1) : vga_buffer[c] = PageOf(f, log, Ch, c)
    <3>1. pos = EndOf(f, log) /\ reg = pos
      BY <1>1, <2>1, <2>5 DEF Shown, ShownPos
    <3>2. Ch = ESC => NextPos(reg, Ch) = reg
      BY DEF NextPos, ESC, FF
    <3>3. \A c \in 0..(Size - 1) : vga_buffer[c] = SeenOf(f, log, c)
      BY <1>1, <2>1, <2>5 DEF Shown, ShownCell
    <3> QED
      BY <2>1, <3>1, <3>2, <3>3 DEF PageOf
  <2> QED
    BY <1>1, <2>1, <2>2, <2>4, <2>5, ScrollOrShown
<1>7. CASE PutVisible
  <2>1. /\ pc = "put" /\ pc' = "advance" /\ Ch \notin Control /\ msg = <<>>
        /\ vga_buffer' = Drawn(vga_buffer, reg, Ch)
        /\ UNCHANGED <<pos, reg, text, msg, log, raced>>
    BY <1>7 DEF PutVisible, At, history
  <2>2. Ch' = Ch /\ Ch # FF
    BY <2>1 DEF Ch, Control
  <2>3. CharInProgress'
    BY <2>1, <2>2 DEF CharInProgress
  <2>4. InPutchar' /\ ~Scrolling'
    BY <2>1 DEF InPutchar, Scrolling
  <2>5. ASSUME "char" \notin raced PROVE Shown(f)'
    <3>1. pos = EndOf(f, log) /\ reg = pos
      BY <1>1, <2>1, <2>5 DEF Shown, ShownPos
    <3>2. ShownPos(f)'
      BY <2>1, <2>4, <3>1 DEF ShownPos
    <3>3. ASSUME NEW c \in 0..(Size - 1) PROVE ShownCell(f, c)'
      <4>1. vga_buffer[c] = SeenOf(f, log, c)
        BY <1>1, <2>1, <2>5 DEF Shown, ShownCell
      <4>2. vga_buffer'[c] = IF c = reg THEN Ch ELSE vga_buffer[c]
        BY <1>2, <1>4, <2>1, <2>2, <3>1, CellsAfter
      <4>3. vga_buffer'[c] = PageOf(f, log, Ch, c)
        BY <2>1, <3>1, <4>1, <4>2 DEF PageOf
      <4> QED
        BY <2>1, <2>2, <2>4, <4>3 DEF ShownCell
    <3> QED
      BY <3>2, <3>3 DEF Shown
  <2>6. Roll(f, log')
    BY <1>1, <2>1
  <2> QED
    BY <2>1, <2>3, <2>5, <2>6 DEF ShownInv
<1>8. CASE Advance
  <2>1. /\ pc = "advance" /\ msg = <<>> /\ pos' = reg + 1 /\ ScrollIfNeeded(reg + 1)
        /\ UNCHANGED <<vga_buffer, msg, raced>>
    BY <1>8 DEF Advance, At
  <2>2. Ch \notin Control /\ Ch # FF
    BY <1>3, <2>1 DEF CharInProgress, Control
  <2>3. reg \in 0..(Size - 1) /\ reg + 1 \in 0..Size
    BY <1>2, <2>1 DEF ScreenInv, OnScreen
  <2>4. NextPos(reg, Ch) = reg + 1
    BY <2>2 DEF NextPos, Control
  <2>5. ASSUME "char" \notin raced
        PROVE  /\ reg = EndOf(f, log)
               /\ \A c \in 0..(Size - 1) : vga_buffer[c] = PageOf(f, log, Ch, c)
    BY <1>1, <2>1, <2>5 DEF Shown, ShownPos, ShownCell
  <2>6. PICK p \in 0..Size : p = reg + 1
    BY <2>3
  <2> QED
    BY <1>1, <2>1, <2>2, <2>4, <2>5, <2>6, ScrollOrShown
<1>9. CASE ScrollMove \/ ScrollBlank
  <2>1. /\ pc \in {"move", "blank"} /\ msg = <<>> /\ reg = 1
        /\ pc = "move" => pc' = "blank" /\ vga_buffer' = Moved(vga_buffer, 1)
        /\ pc = "blank" => pc' = "subtract" /\ vga_buffer' = Blanked(vga_buffer, 1)
        /\ UNCHANGED <<pos, reg, text, msg, log, raced>>
    BY <1>9 DEF ScrollMove, ScrollBlank, At, history, ScreenInv, OnScreen, Scrolling
  <2>2. Ch' = Ch /\ InPutchar /\ Scrolling /\ InPutchar' /\ Scrolling'
    BY <2>1 DEF Ch, InPutchar, Scrolling
  <2>3. CharInProgress'
    BY <1>3, <2>1, <2>2 DEF CharInProgress
  <2>4. ASSUME "char" \notin raced PROVE Shown(f)'
    <3>1. ShownPos(f)'
      BY <1>1, <2>1, <2>2, <2>4 DEF Shown, ShownPos
    <3>2. ASSUME NEW c \in 0..(Size - 1) PROVE ShownCell(f, c)'
      <4>1. CASE pc = "move"
        <5>1. ASSUME c < Size - Width PROVE vga_buffer'[c] = PageOf(f, log, Ch, c + Width)
          <6>1. c + Width \in 0..(Size - 1)
            BY <1>2, <5>1
          <6>2. vga_buffer[c + Width] = PageOf(f, log, Ch, c + Width)
            BY <1>1, <2>4, <4>1, <6>1 DEF Shown, ShownCell
          <6> QED
            BY <1>2, <2>1, <4>1, <5>1, <6>2, CellsAfter
        <5> QED
          BY <2>1, <2>2, <4>1, <5>1 DEF ShownCell
      <4>2. CASE pc = "blank"
        <5>1. c < Size - Width => vga_buffer[c] = PageOf(f, log, Ch, c + Width)
          BY <1>1, <2>4, <4>2 DEF Shown, ShownCell
        <5>2. vga_buffer'[c] = IF c < Size - Width THEN vga_buffer[c] ELSE Blank
          BY <1>2, <2>1, <4>2, CellsAfter
        <5>3. c >= Size - Width => ~(c < Size - Width)
          BY <1>2
        <5> QED
          BY <2>1, <2>2, <4>2, <5>1, <5>2, <5>3 DEF ShownCell
      <4> QED
        BY <2>1, <4>1, <4>2
    <3> QED
      BY <3>1, <3>2 DEF Shown
  <2>5. Roll(f, log')
    BY <1>1, <2>1
  <2> QED
    BY <2>1, <2>3, <2>4, <2>5 DEF ShownInv
<1>10. CASE ScrollSubtract
  <2>1. /\ pc = "subtract" /\ reg = 1 /\ pos' = pos - reg * Width /\ CharDone
        /\ UNCHANGED <<vga_buffer, raced>>
    BY <1>10 DEF ScrollSubtract, At, ScreenInv, OnScreen, Scrolling
  <2>2. InPutchar /\ Scrolling /\ Ch # FF
    BY <1>3, <2>1 DEF InPutchar, Scrolling, CharInProgress
  <2>3. Ch \in Chars
    BY <2>2, TextFacts DEF ScreenInv, TypeOK, TextLeft, InPutchar, Scrolling
  <2>4. log' = Logged(Ch) /\ pc' = "char"
    BY <2>1 DEF CharDone
  <2>5. ~InPutchar' /\ CharInProgress'
    BY <2>4 DEF InPutchar, Scrolling, CharInProgress
  <2>6. ASSUME "char" \notin raced PROVE Prints(f, Ch)
    <3>1. pos = Size /\ NextPos(EndOf(f, log), Ch) = Size
      BY <1>1, <2>2, <2>6 DEF Shown, ShownPos
    <3>2. Lines(Size) = 1 /\ ~(Size < Size)
      BY <1>2, LinesScroll
    <3>3. ASSUME NEW c \in 0..(Size - 1)
          PROVE  vga_buffer[c] = IF c < Size - Width THEN PageOf(f, log, Ch, c + Width)
                                 ELSE Blank
      <4>1. ~(c < Size - Width) => c >= Size - Width
        BY <1>2
      <4> QED
        BY <1>1, <2>1, <2>6, <4>1 DEF Shown, ShownCell
    <3> QED
      BY <2>1, <3>1, <3>2, <3>3 DEF Prints
  <2>7. (\E g : Roll(g, log) /\ ("char" \notin raced => Shown(g)))'
    BY <1>1, <1>2, <2>1, <2>2, <2>3, <2>4, <2>5, <2>6, PrintedIsShown
  <2> QED
    BY <2>5, <2>7 DEF ShownInv
<1>11. CASE FormFeed
  <2>1. /\ pc' = "home" /\ msg = <<>> /\ Ch = FF /\ vga_buffer' = Cleared(vga_buffer)
        /\ UNCHANGED <<text, msg, log>>
    BY <1>11 DEF FormFeed, At
  <2>2. Ch' = Ch /\ InPutchar' /\ ~Scrolling'
    BY <2>1 DEF Ch, InPutchar, Scrolling
  <2>3. CharInProgress'
    BY <2>1, <2>2 DEF CharInProgress
  <2>4. ShownPos(f)'
    BY <2>1, <2>2 DEF ShownPos
  <2>5. ASSUME NEW c \in 0..(Size - 1) PROVE ShownCell(f, c)'
    <3>1. vga_buffer'[c] = Blank
      BY <1>2, <2>1, CellsAfter
    <3> QED
      BY <2>1, <2>2, <3>1 DEF ShownCell
  <2>6. Roll(f, log') /\ Shown(f)'
    BY <1>1, <2>1, <2>4, <2>5 DEF Shown
  <2> QED
    BY <2>3, <2>6 DEF ShownInv
<1>12. CASE FormFeedHome
  <2>1. /\ pc = "home" /\ pos' = 0 /\ CharDone /\ UNCHANGED <<vga_buffer, raced>>
    BY <1>12 DEF FormFeedHome, At
  <2>2. Ch = FF
    BY <1>3, <2>1 DEF CharInProgress
  <2>3. pc' = "char" /\ log' = IF "char" \in raced THEN <<>> ELSE <<FF>>
    BY <2>1, <2>2 DEF CharDone, Logged
  <2>4. ~InPutchar' /\ ~Scrolling' /\ CharInProgress'
    BY <2>3 DEF InPutchar, Scrolling, CharInProgress
  <2>5. CASE "char" \in raced
    BY <2>1, <2>3, <2>4, <2>5, RollStarts DEF ShownInv
  <2>6. CASE "char" \notin raced
    <3>1. PICK g : g = [k \in 0..1 |-> 0]
      OBVIOUS
    <3>2. log' = <<FF>> /\ Roll(g, log') /\ Len(log') = 1
      BY <2>3, <2>6, <3>1, RollStarts
    <3>3. g[1] = 0 /\ g[Len(log')] = 0
      BY <3>1, <3>2
    <3>4. TopOf(0) = 0 /\ 0 * Width = 0
      <4>1. 0 \in 0..(Size - 1) /\ 0 * Width + 0 = 0 /\ 0 * Width = 0
        BY <1>2
      <4> QED
        BY <4>1, TopUnique
    <3>5. EndOf(g, log') = 0
      BY <3>3, <3>4 DEF EndOf
    <3>6. ASSUME NEW c \in 0..(Size - 1) PROVE SeenOf(g, log', c) = Blank
      <4>1. SeenOf(g, log', c) = PaperOf(g, log', 0 + c)
        BY <3>3, <3>4 DEF SeenOf
      <4>2. {k \in 1..Len(log') : log'[k] \notin Control /\ g[k - 1] = 0 + c} = {}
        BY <3>2 DEF Control
      <4>3. ~(log' = <<>> \/ log'[1] # FF)
        BY <3>2
      <4> QED
        BY <4>1, <4>2, <4>3 DEF PaperOf
    <3>7. ShownPos(g)'
      BY <2>1, <2>3, <2>4, <3>5 DEF ShownPos
    <3>8. ASSUME NEW c \in 0..(Size - 1) PROVE ShownCell(g, c)'
      <4>1. vga_buffer[c] = Blank
        BY <1>1, <2>1, <2>6 DEF Shown, ShownCell
      <4> QED
        BY <2>1, <2>3, <2>4, <3>6, <4>1 DEF ShownCell
    <3>9. Shown(g)'
      BY <3>7, <3>8 DEF Shown
    <3> QED
      BY <2>4, <3>2, <3>9 DEF ShownInv
  <2> QED
    BY <2>5, <2>6
<1> QED
  BY <1>5, <1>6, <1>7, <1>8, <1>9, <1>10, <1>11, <1>12 DEF tty_putchar

\* A step outside of tty_putchar that touches neither the screen nor the log.
LEMMA QuietShown ==
    ASSUME ShownInv, UNCHANGED <<vga_buffer, pos, log>>, ~InPutchar, ~InPutchar',
           "char" \notin raced' => "char" \notin raced
    PROVE  ShownInv'
<1>1. PICK f : Roll(f, log) /\ ("char" \notin raced => Shown(f))
  BY DEF ShownInv
<1>2. /\ pc' \notin {"put", "advance", "move", "blank", "subtract", "home"}
      /\ ~Scrolling'
  BY DEF InPutchar, Scrolling
<1>3. CharInProgress'
  BY <1>2 DEF CharInProgress
<1>4. ASSUME "char" \notin raced' PROVE Shown(f)'
  <2>1. ShownPos(f)'
    BY <1>1, <1>2, <1>4 DEF Shown, ShownPos
  <2>2. ASSUME NEW c \in 0..(Size - 1) PROVE ShownCell(f, c)'
    <3>1. vga_buffer[c] = SeenOf(f, log, c)
      BY <1>1, <1>4 DEF Shown, ShownCell
    <3> QED
      BY <1>2, <3>1 DEF ShownCell
  <2> QED
    BY <2>1, <2>2 DEF Shown
<1>5. Roll(f, log')
  BY <1>1
<1> QED
  BY <1>3, <1>4, <1>5 DEF ShownInv

\* After a character of the main loop was interrupted nothing is claimed, and
\* the log is empty, until the screen is cleared.
LEMMA RacedShown ==
    ASSUME CharInProgress, "char" \in raced', log' = <<>>, UNCHANGED <<pc, text>>
    PROVE  ShownInv'
<1>1. CharInProgress'
  BY DEF CharInProgress, InPutchar, Scrolling, Ch
<1> QED
  BY <1>1, RollStarts DEF ShownInv

\* The keyboard handler prints what the log says too, unless it interrupts a
\* character.
LEMMA HandlerShown ==
    ASSUME ScreenInv, ShownInv, ps2_key_pressed
    PROVE  ShownInv'
<1>1. CharInProgress
  BY DEF ShownInv
<1>2. CASE Interrupt
  <2>1. /\ UNCHANGED <<vga_buffer, pos, pc, text>> /\ raced \subseteq raced'
        /\ InPutchar => "char" \in raced'
        /\ log' = IF InPutchar THEN <<>> ELSE log
    BY <1>2 DEF Interrupt
  <2>2. CASE InPutchar
    BY <1>1, <2>1, <2>2, RacedShown
  <2>3. CASE ~InPutchar
    <3>1. ~InPutchar'
      BY <2>1, <2>3 DEF InPutchar, Scrolling
    <3> QED
      BY <2>1, <2>3, <3>1, QuietShown
  <2> QED
    BY <2>2, <2>3
<1>3. CASE HandlerPutchar
  <2>1. PICK ch, q : ch = Head(msg) /\ q = NextPos(pos, ch)
    OBVIOUS
  <2>2. /\ msg # <<>> /\ UNCHANGED <<pc, text>>
        /\ ("char" \in raced') <=> ("char" \in raced)
        /\ vga_buffer' = Blanked(Moved(Drawn(vga_buffer, pos, ch), Lines(q)), Lines(q))
        /\ pos' = q - Lines(q) * Width
        /\ log' = Logged(ch)
    BY <1>3, <2>1 DEF HandlerPutchar
  <2>3. ch \in Chars /\ ch # FF
    BY <2>1, <2>2, HeadTailProperties DEF ScreenInv
  <2>4. CASE InPutchar
    <3>1. "char" \in raced
      BY <1>1, <2>2, <2>4 DEF CharInProgress
    <3>2. log' = <<>>
      BY <2>2, <3>1 DEF Logged
    <3> QED
      BY <1>1, <2>2, <3>1, <3>2, RacedShown
  <2>5. CASE ~InPutchar
    <3>1. PICK f : Roll(f, log) /\ ("char" \notin raced => Shown(f))
      BY DEF ShownInv
    <3>2. /\ ~InPutchar'
          /\ pc' \notin {"put", "advance", "move", "blank", "subtract", "home"}
      BY <2>2, <2>5 DEF InPutchar, Scrolling
    <3>3. CharInProgress'
      BY <3>2 DEF CharInProgress
    <3>4. /\ Size \in Nat /\ Width \in Nat \ {0} /\ Size >= 2 * Width
          /\ log \in Seq(Chars) /\ vga_buffer \in [Cells -> Chars \cup {Blank, Old}]
          /\ pos \in 0..(Size - 1) /\ pos \in Cells
      BY <2>5, SizeFacts DEF ScreenInv, TypeOK, OnScreen, InPutchar, Cells
    <3>5. q \in 0..Size /\ q \in Nat
      BY <2>1, <3>4, NextPosOnScreen
    <3>6. ASSUME "char" \notin raced PROVE Prints(f, ch)
      <4>1. pos = EndOf(f, log) /\ q = NextPos(EndOf(f, log), ch)
        BY <2>1, <2>5, <3>1, <3>6 DEF Shown, ShownPos
      <4>2. PICK v : v = Drawn(vga_buffer, pos, ch)
        OBVIOUS
      <4>3. v \in [Cells -> Chars \cup {Blank, Old}]
        BY <2>3, <3>4, <4>2, ScreenTyped
      <4>4. ASSUME NEW c \in 0..(Size - 1) PROVE v[c] = PageOf(f, log, ch, c)
        <5>1. vga_buffer[c] = SeenOf(f, log, c)
          BY <2>5, <3>1, <3>6 DEF Shown, ShownCell
        <5>2. v[c] = IF ch \notin Control /\ c = pos THEN ch ELSE vga_buffer[c]
          BY <2>3, <3>4, <4>2, CellsAfter
        <5> QED
          BY <4>1, <5>1, <5>2 DEF PageOf
      <4>5. ASSUME NEW c \in 0..(Size - 1)
            PROVE  vga_buffer'[c] = IF q < Size THEN PageOf(f, log, ch, c)
                                    ELSE IF c < Size - Width
                                         THEN PageOf(f, log, ch, c + Width)
                                    ELSE Blank
        <5>1. CASE q < Size
          <6>1. Lines(q) = 0
            BY <3>5, <5>1, LinesScroll
          <6>2. /\ vga_buffer' = Blanked(Moved(v, 0), 0)
                /\ Moved(v, 0) \in [Cells -> Chars \cup {Blank, Old}]
            BY <2>2, <4>2, <4>3, <6>1, ScreenTyped
          <6>3. vga_buffer'[c] = v[c]
            BY <4>3, <6>2, CellsAfter
          <6> QED
            BY <4>4, <5>1, <6>3
        <5>2. CASE ~(q < Size)
          <6>1. q = Size /\ Lines(q) = 1
            BY <3>4, <3>5, <5>2, LinesScroll
          <6>2. /\ vga_buffer' = Blanked(Moved(v, 1), 1)
                /\ Moved(v, 1) \in [Cells -> Chars \cup {Blank, Old}]
            BY <2>2, <4>2, <4>3, <6>1, ScreenTyped
          <6>3. vga_buffer'[c] = IF c < Size - Width THEN Moved(v, 1)[c] ELSE Blank
            BY <6>2, CellsAfter
          <6>4. ASSUME c < Size - Width PROVE Moved(v, 1)[c] = PageOf(f, log, ch, c + Width)
            <7>1. c + Width \in 0..(Size - 1)
              BY <3>4, <6>4
            <7> QED
              BY <4>3, <4>4, <6>4, <7>1, CellsAfter
          <6> QED
            BY <5>2, <6>3, <6>4
        <5> QED
          BY <5>1, <5>2
      <4> QED
        BY <2>2, <4>1, <4>5 DEF Prints
    <3>7. (\E g : Roll(g, log) /\ ("char" \notin raced => Shown(g)))'
      BY <2>2, <2>3, <3>1, <3>2, <3>4, <3>6, PrintedIsShown
    <3> QED
      BY <3>3, <3>7 DEF ShownInv
  <2> QED
    BY <2>4, <2>5
<1> QED
  BY <1>2, <1>3 DEF ps2_key_pressed

\* Before anything is printed the screen is as the firmware left it; every
\* step keeps the invariant.
LEMMA ShownInductive ==
    /\ Init => ShownInv
    /\ ScreenInv /\ ShownInv /\ [Next]_vars => ShownInv'
<1>1. Init => ShownInv
  <2> SUFFICES ASSUME Init PROVE ShownInv
    OBVIOUS
  <2>1. /\ pc = "idle" /\ msg = <<>> /\ pos = 0 /\ log = <<>> /\ Len(log) = 0
        /\ vga_buffer = [c \in Cells |-> Old] /\ Size \in Nat /\ Size > 0
    BY SizeFacts DEF Init
  <2>2. ~InPutchar /\ ~Scrolling /\ CharInProgress
    BY <2>1 DEF InPutchar, Scrolling, CharInProgress
  <2>3. PICK f : f = [k \in 0..0 |-> 0]
    OBVIOUS
  <2>4. Roll(f, log) /\ f[0] = 0 /\ f[Len(log)] = 0
    BY <2>1, <2>3, RollStarts
  <2>5. TopOf(0) = 0 /\ 0 * Width = 0
    <3>1. 0 \in 0..(Size - 1) /\ 0 * Width + 0 = 0 /\ 0 * Width = 0
      BY <2>1, SizeFacts
    <3> QED
      BY <3>1, TopUnique
  <2>6. ShownPos(f)
    BY <2>1, <2>2, <2>4, <2>5 DEF ShownPos, EndOf
  <2>7. ASSUME NEW c \in 0..(Size - 1) PROVE ShownCell(f, c)
    <3>1. c \in Cells /\ c < Size /\ vga_buffer[c] = Old /\ 0 + c = c
      BY <2>1 DEF Cells
    <3>2. SeenOf(f, log, c) = PaperOf(f, log, 0 + c)
      BY <2>4, <2>5 DEF SeenOf
    <3>3. {k \in 1..Len(log) : log[k] \notin Control /\ f[k - 1] = 0 + c} = {}
      BY <2>1
    <3>4. SeenOf(f, log, c) = Old
      BY <2>1, <3>1, <3>2, <3>3 DEF PaperOf
    <3> QED
      BY <2>1, <2>2, <3>1, <3>4 DEF ShownCell
  <2> QED
    BY <2>2, <2>4, <2>6, <2>7 DEF ShownInv, Shown
<1> SUFFICES ASSUME ScreenInv, ShownInv, [Next]_vars PROVE ShownInv'
  BY <1>1
<1>2. CASE PrintText \/ tty_set_cursor
  <2>1. /\ UNCHANGED <<vga_buffer, pos, log>> /\ ("char" \notin raced' => "char" \notin raced)
        /\ pc \in {"idle", "char", "lo_index", "lo_data", "hi_index", "hi_data"}
        /\ pc' \in {"idle", "char", "lo_index", "lo_data", "hi_index", "hi_data"}
    BY <1>2
    DEF PrintText, tty_set_cursor, CursorLoad, CursorLoIndex, CursorLoData, CursorHiIndex,
        CursorHiData, SelectRegister, At, history
  <2>2. ~InPutchar /\ ~InPutchar'
    BY <2>1 DEF InPutchar, Scrolling
  <2> QED
    BY <2>1, <2>2, QuietShown
<1>3. CASE UNCHANGED vars
  <2>1. UNCHANGED <<vga_buffer, pos, pc, reg, text, msg, log, raced>>
    BY <1>3 DEF vars, history
  <2>2. \A f : Shown(f)' <=> Shown(f)
    BY <2>1
    DEF Shown, ShownPos, ShownCell, InPutchar, Scrolling, Ch
  <2>3. CharInProgress'
    BY <2>1 DEF ShownInv, CharInProgress, InPutchar, Scrolling, Ch
  <2>4. PICK f : Roll(f, log) /\ ("char" \notin raced => Shown(f))
    BY DEF ShownInv
  <2> QED
    BY <2>1, <2>2, <2>3, <2>4 DEF ShownInv
<1> QED
  BY <1>2, <1>3, PutcharShown, HandlerShown DEF Next, vconsole_write

\* Unless a handler interrupts a character, the screen shows the last lines
\* of all that the main loop and the handler printed since it was cleared,
\* and pos is where the last character left it.
THEOREM ScreenAlwaysShowsLog == Spec => []ScreenShowsLog
<1>1. ShownInv => ScreenShowsLog
  <2> SUFFICES ASSUME ShownInv, "char" \notin raced, ~InPutchar
               PROVE  /\ pos = PaperPos[Len(log)] - Top * Width
                      /\ \A c \in 0..(Size - 1) : vga_buffer[c] = Paper(Top * Width + c)
    BY DEF ScreenShowsLog
  <2>1. PICK f : Roll(f, log) /\ Shown(f)
    BY DEF ShownInv
  <2>2. PaperPos = f
    BY <2>1, PaperPosIs
  <2>3. Top = TopOf(f[Len(log)])
    BY <2>2 DEF Top, TopOf
  <2>4. \A cell : Paper(cell) = PaperOf(f, log, cell)
    <3>1. \A cell : Paper(cell) = PaperOf(PaperPos, log, cell)
      BY Zenon DEF Paper, PaperOf
    <3> QED
      BY <2>2, <3>1, Zenon
  <2>5. pos = EndOf(f, log) /\ \A c \in 0..(Size - 1) : vga_buffer[c] = SeenOf(f, log, c)
    BY <2>1 DEF Shown, ShownPos, ShownCell
  <2> QED
    BY <2>2, <2>3, <2>4, <2>5 DEF EndOf, SeenOf
<1> QED
  BY <1>1, ScreenInductive, ShownInductive, PTL DEF Spec
-----------------------------------------------------------------------------
(***************************************************************************)
(* The copies.  A loop is a recursive function of the number of iterations *)
(* done; Induction, which speaks of a set and not of a predicate, is       *)
(* obtained from the least number principle, and shows that the function   *)
(* is the closed form that satisfies the same equations.                   *)
(***************************************************************************)

\* A set of numbers that is not empty has a least element.
LEMMA LeastElement ==
    ASSUME NEW T, T \subseteq Nat, T # {}
    PROVE  \E x \in T : \A y \in T : x <= y
<1>1. PICK R : R = OpToRel(<, Nat)
  OBVIOUS
<1>2. IsWellFoundedOn(R, Nat)
  BY <1>1, NatLessThanWellFounded
<1>3. PICK x \in T : \A y \in T : ~(<<y, x>> \in R)
  BY <1>2, WFMin
<1>4. \A a, b \in Nat : <<a, b>> \in R <=> a < b
  BY <1>1 DEF OpToRel
<1>5. \A y \in T : x <= y
  <2> SUFFICES ASSUME NEW y \in T PROVE x <= y
    OBVIOUS
  <2>1. x \in Nat /\ y \in Nat
    OBVIOUS
  <2>2. ~(y < x)
    BY <1>3, <1>4, <2>1
  <2> QED
    BY <2>1, <2>2
<1> QED
  BY <1>5

\* A set that holds 0, and with each number the next, holds them all.
LEMMA Induction ==
    ASSUME NEW S, 0 \in S, \A k \in Nat : k \in S => k + 1 \in S
    PROVE  Nat \subseteq S
<1> SUFFICES ASSUME NEW T, T = {k \in Nat : k \notin S}, T # {} PROVE FALSE
  OBVIOUS
<1>1. PICK x \in T : \A y \in T : x <= y
  BY LeastElement
<1>2. x # 0 /\ x \in Nat
  OBVIOUS
<1>3. x - 1 \in Nat /\ x - 1 \notin T
  BY <1>1, <1>2
<1>4. x - 1 + 1 \in S
  BY <1>3
<1> QED
  BY <1>2, <1>4

\* Two loops that start alike and go on alike end alike.
LEMMA SameLoop ==
    ASSUME NEW n \in Nat, NEW f, NEW g, f[0] = g[0],
           \A k \in 1..n : f[k - 1] = g[k - 1] => f[k] = g[k]
    PROVE  f[n] = g[n]
<1>1. PICK S : S = {k \in Nat : k <= n => f[k] = g[k]}
  OBVIOUS
<1>2. 0 \in S
  BY <1>1
<1>3. ASSUME NEW k \in Nat, k \in S PROVE k + 1 \in S
  <2>1. PICK j \in Nat : j = k + 1 /\ j - 1 = k
    OBVIOUS
  <2>2. j <= n => j \in 1..n /\ f[j - 1] = g[j - 1]
    BY <1>1, <1>3, <2>1
  <2>3. j <= n => f[j] = g[j]
    BY <2>2
  <2> QED
    BY <1>1, <2>1, <2>3
<1>4. n \in S
  BY <1>2, <1>3, Induction
<1> QED
  BY <1>1, <1>4

\* A memory, and n bytes of it from p on.
IsMemory(mem) == DOMAIN mem \subseteq Int /\ mem = [a \in DOMAIN mem |-> mem[a]]

Within(mem, p, n) == p \in Int /\ \A a \in Int : p <= a /\ a < p + n => a \in DOMAIN mem

\* What k iterations have done, copying upwards and downwards.
UpTo(mem, dest, src, n) == [k \in 0..n |-> Copied(mem, dest, src, k)]

DownTo(mem, dest, src, n) ==
    [k \in 0..n |-> Copied(mem, dest + n - k, src + n - k, k)]

\* Copying upwards is exact unless dest is inside what is still to be copied.
LEMMA CopyUpExact ==
    ASSUME NEW mem, IsMemory(mem), NEW n \in Nat, NEW dest, NEW src,
           Within(mem, dest, n), Within(mem, src, n),
           dest <= src \/ dest >= src + n
    PROVE  CopyUp(mem, dest, src, n) = Copied(mem, dest, src, n)
<1> DEFINE Is(f) == f = [k \in 0..n |->
               IF k = 0 THEN mem
               ELSE [f[k - 1] EXCEPT ![dest + k - 1] = f[k - 1][src + k - 1]]]
<1>1. PICK g, D : g = UpTo(mem, dest, src, n) /\ D = DOMAIN mem
  OBVIOUS
<1>2. /\ dest \in Int /\ src \in Int /\ D \subseteq Int /\ mem = [a \in D |-> mem[a]]
      /\ \A k \in 1..n : dest + k - 1 \in D /\ src + k - 1 \in D
  BY <1>1 DEF IsMemory, Within
<1>3. g[0] = mem
  <2>1. g[0] = [a \in D |-> IF a >= dest /\ a < dest + 0 THEN mem[src + a - dest] ELSE mem[a]]
    BY <1>1 DEF UpTo, Copied
  <2>2. \A a \in D : ~(a >= dest /\ a < dest + 0)
    BY <1>2
  <2> QED
    BY <1>2, <2>1, <2>2
<1>4. ASSUME NEW k \in 1..n
      PROVE  g[k] = [g[k - 1] EXCEPT ![dest + k - 1] = g[k - 1][src + k - 1]]
  <2>1. PICK x, y : x = dest + k - 1 /\ y = src + k - 1
    OBVIOUS
  <2>2. x \in D /\ y \in D /\ x \in Int /\ y \in Int
    BY <1>2, <2>1
  <2>3. /\ g[k] = [a \in D |-> IF a >= dest /\ a < dest + k THEN mem[src + a - dest] ELSE mem[a]]
        /\ g[k - 1] = [a \in D |-> IF a >= dest /\ a < dest + (k - 1)
                                   THEN mem[src + a - dest] ELSE mem[a]]
    BY <1>1 DEF UpTo, Copied
  <2>4. ~(y >= dest /\ y < dest + (k - 1))
    BY <1>2, <2>1, <2>2
  <2>5. g[k - 1][y] = mem[y]
    BY <2>2, <2>3, <2>4
  <2>6. /\ x >= dest /\ x < dest + k /\ src + x - dest = y
        /\ \A a \in D : a # x => (a < dest + k <=> a < dest + (k - 1))
    BY <1>2, <2>1
  <2>7. ASSUME NEW a \in D PROVE g[k][a] = IF a = x THEN mem[y] ELSE g[k - 1][a]
    BY <2>3, <2>6
  <2> QED
    BY <2>1, <2>2, <2>3, <2>5, <2>7
<1>5. Is(g)
  <2>1. g = [k \in 0..n |-> g[k]]
    BY <1>1 DEF UpTo
  <2>2. \A k \in 0..n : k # 0 => k \in 1..n
    OBVIOUS
  <2> QED
    BY <1>3, <1>4, <2>1, <2>2
<1>6. PICK f : f = CHOOSE h : Is(h)
  OBVIOUS
<1>7. Is(f)
  BY <1>5, <1>6, Zenon
<1>8. f[0] = mem /\ \A k \in 1..n :
          f[k] = [f[k - 1] EXCEPT ![dest + k - 1] = f[k - 1][src + k - 1]]
  <2>1. 0 \in 0..n /\ \A k \in 1..n : k \in 0..n /\ k # 0
    OBVIOUS
  <2> QED
    BY <1>7, <2>1
<1>9. f[n] = g[n]
  <2>1. \A k \in 1..n : f[k - 1] = g[k - 1] => f[k] = g[k]
    BY <1>4, <1>8
  <2> QED
    BY <1>3, <1>8, <2>1, SameLoop
<1>10. CopyUp(mem, dest, src, n) = f[n]
  BY <1>6, Zenon DEF CopyUp
<1>11. g[n] = Copied(mem, dest, src, n)
  BY <1>1 DEF UpTo
<1> QED
  BY <1>9, <1>10, <1>11

\* Copying downwards is exact unless dest is below src and inside it.
LEMMA CopyDownExact ==
    ASSUME NEW mem, IsMemory(mem), NEW n \in Nat, NEW dest, NEW src,
           Within(mem, dest, n), Within(mem, src, n), dest >= src
    PROVE  CopyDown(mem, dest, src, n) = Copied(mem, dest, src, n)
<1> DEFINE Is(f) == f = [k \in 0..n |->
               IF k = 0 THEN mem
               ELSE [f[k - 1] EXCEPT ![dest + n - k] = f[k - 1][src + n - k]]]
<1>1. PICK g, D : g = DownTo(mem, dest, src, n) /\ D = DOMAIN mem
  OBVIOUS
<1>2. /\ dest \in Int /\ src \in Int /\ D \subseteq Int /\ mem = [a \in D |-> mem[a]]
      /\ \A k \in 1..n : dest + n - k \in D /\ src + n - k \in D
  BY <1>1 DEF IsMemory, Within
<1>3. ASSUME NEW k \in 0..n
      PROVE  g[k] = [a \in D |-> IF a >= dest + n - k /\ a < dest + n
                                 THEN mem[src + a - dest] ELSE mem[a]]
  <2>1. PICK x, y : x = dest + n - k /\ y = src + n - k
    OBVIOUS
  <2>2. x \in Int /\ y \in Int /\ k \in Nat /\ x + k = dest + n
    BY <1>2, <2>1
  <2>3. g[k] = [a \in D |-> IF a >= x /\ a < x + k THEN mem[y + a - x] ELSE mem[a]]
    BY <1>1, <2>1 DEF DownTo, Copied
  <2>4. \A a \in D : y + a - x = src + a - dest
    BY <1>2, <2>1
  <2>5. \A a \in D : a < x + k <=> a < dest + n
    BY <2>2
  <2> QED
    BY <2>1, <2>3, <2>4, <2>5
<1>4. g[0] = mem
  <2>1. \A a \in D : ~(a >= dest + n - 0 /\ a < dest + n)
    BY <1>2
  <2>2. 0 \in 0..n
    OBVIOUS
  <2> QED
    BY <1>2, <1>3, <2>1, <2>2
<1>5. ASSUME NEW k \in 1..n
      PROVE  g[k] = [g[k - 1] EXCEPT ![dest + n - k] = g[k - 1][src + n - k]]
  <2>1. PICK x, y, j : x = dest + n - k /\ y = src + n - k /\ j = k - 1
    OBVIOUS
  <2>2. x \in D /\ y \in D /\ x \in Int /\ y \in Int /\ j \in 0..n /\ k \in 0..n
    BY <1>2, <2>1
  <2>3. /\ g[k] = [a \in D |-> IF a >= x /\ a < dest + n THEN mem[src + a - dest] ELSE mem[a]]
        /\ g[j] = [a \in D |-> IF a >= dest + n - j /\ a < dest + n
                               THEN mem[src + a - dest] ELSE mem[a]]
    BY <1>3, <2>1, <2>2
  <2>4. ~(y >= dest + n - j)
    BY <1>2, <2>1, <2>2
  <2>5. g[j][y] = mem[y]
    BY <2>2, <2>3, <2>4
  <2>6. /\ x >= x /\ x < dest + n /\ src + x - dest = y
        /\ \A a \in D : a # x => (a >= x <=> a >= dest + n - j)
    BY <1>2, <2>1
  <2>7. ASSUME NEW a \in D PROVE g[k][a] = IF a = x THEN mem[y] ELSE g[j][a]
    BY <2>3, <2>6
  <2> QED
    BY <2>1, <2>2, <2>3, <2>5, <2>7
<1>6. Is(g)
  <2>1. g = [k \in 0..n |-> g[k]]
    BY <1>1 DEF DownTo
  <2>2. \A k \in 0..n : k # 0 => k \in 1..n
    OBVIOUS
  <2> QED
    BY <1>4, <1>5, <2>1, <2>2
<1>7. PICK f : f = CHOOSE h : Is(h)
  OBVIOUS
<1>8. Is(f)
  BY <1>6, <1>7, Zenon
<1>9. f[0] = mem /\ \A k \in 1..n :
          f[k] = [f[k - 1] EXCEPT ![dest + n - k] = f[k - 1][src + n - k]]
  <2>1. 0 \in 0..n /\ \A k \in 1..n : k \in 0..n /\ k # 0
    OBVIOUS
  <2> QED
    BY <1>8, <2>1
<1>10. f[n] = g[n]
  <2>1. \A k \in 1..n : f[k - 1] = g[k - 1] => f[k] = g[k]
    BY <1>5, <1>9
  <2> QED
    BY <1>4, <1>9, <2>1, SameLoop
<1>11. CopyDown(mem, dest, src, n) = f[n]
  BY <1>7, Zenon DEF CopyDown
<1>12. g[n] = Copied(mem, dest, src, n)
  <2>1. dest + n - n = dest /\ src + n - n = src
    BY <1>2
  <2> QED
    BY <1>1, <2>1 DEF DownTo
<1> QED
  BY <1>10, <1>11, <1>12

\* memset stores its byte in n bytes and leaves the others.
LEMMA MemsetExact ==
    ASSUME NEW mem, IsMemory(mem), NEW n \in Nat, NEW dest, Within(mem, dest, n), NEW ch
    PROVE  memset(mem, dest, ch, n) =
               [a \in DOMAIN mem |-> IF a >= dest /\ a < dest + n THEN ch % 256 ELSE mem[a]]
<1>1. PICK b : b = ch % 256
  OBVIOUS
<1> DEFINE Is(f) == f = [k \in 0..n |->
               IF k = 0 THEN mem ELSE [f[k - 1] EXCEPT ![dest + k - 1] = ch % 256]]
<1>2. PICK D : D = DOMAIN mem
  OBVIOUS
<1>3. /\ dest \in Int /\ D \subseteq Int /\ mem = [a \in D |-> mem[a]]
      /\ \A k \in 1..n : dest + k - 1 \in D
  BY <1>2 DEF IsMemory, Within
<1>4. PICK g : g = [k \in 0..n |->
           [a \in D |-> IF a >= dest /\ a < dest + k THEN b ELSE mem[a]]]
  OBVIOUS
<1>5. g[0] = mem
  <2>1. g[0] = [a \in D |-> IF a >= dest /\ a < dest + 0 THEN b ELSE mem[a]]
    BY <1>4
  <2>2. \A a \in D : ~(a >= dest /\ a < dest + 0)
    BY <1>3
  <2> QED
    BY <1>3, <2>1, <2>2
<1>6. ASSUME NEW k \in 1..n PROVE g[k] = [g[k - 1] EXCEPT ![dest + k - 1] = b]
  <2>1. PICK x : x = dest + k - 1
    OBVIOUS
  <2>2. /\ g[k] = [a \in D |-> IF a >= dest /\ a < dest + k THEN b ELSE mem[a]]
        /\ g[k - 1] = [a \in D |-> IF a >= dest /\ a < dest + (k - 1) THEN b ELSE mem[a]]
    BY <1>4
  <2>3. /\ x \in D /\ x >= dest /\ x < dest + k
        /\ \A a \in D : a # x => (a < dest + k <=> a < dest + (k - 1))
    BY <1>3, <2>1
  <2>4. ASSUME NEW a \in D PROVE g[k][a] = IF a = x THEN b ELSE g[k - 1][a]
    BY <2>2, <2>3
  <2> QED
    BY <2>1, <2>2, <2>3, <2>4
<1>7. Is(g)
  <2>1. g = [k \in 0..n |-> g[k]]
    BY <1>4
  <2>2. \A k \in 0..n : k # 0 => k \in 1..n
    OBVIOUS
  <2> QED
    BY <1>1, <1>5, <1>6, <2>1, <2>2
<1>8. PICK f : f = CHOOSE h : Is(h)
  OBVIOUS
<1>9. Is(f)
  BY <1>7, <1>8, Zenon
<1>10. f[0] = mem /\ \A k \in 1..n : f[k] = [f[k - 1] EXCEPT ![dest + k - 1] = b]
  <2>1. 0 \in 0..n /\ \A k \in 1..n : k \in 0..n /\ k # 0
    OBVIOUS
  <2> QED
    BY <1>1, <1>9, <2>1
<1>11. f[n] = g[n]
  <2>1. \A k \in 1..n : f[k - 1] = g[k - 1] => f[k] = g[k]
    BY <1>6, <1>10
  <2> QED
    BY <1>5, <1>10, <2>1, SameLoop
<1>12. memset(mem, dest, ch, n) = f[n]
  BY <1>8, Zenon DEF memset
<1>13. g[n] = [a \in D |-> IF a >= dest /\ a < dest + n THEN b ELSE mem[a]]
  BY <1>4
<1> QED
  BY <1>1, <1>2, <1>11, <1>12, <1>13

\* Whatever memory it is called on and however its arguments overlap, memmove
\* leaves at dest what was at src, and everything else as it was.
THEOREM MemmoveExact ==
    ASSUME NEW mem, IsMemory(mem), NEW n \in Nat, NEW dest, NEW src,
           Within(mem, dest, n), Within(mem, src, n)
    PROVE  memmove(mem, dest, src, n) = Copied(mem, dest, src, n)
<1>1. dest \in Int /\ src \in Int
  BY DEF Within
<1>2. CASE dest < src
  BY <1>1, <1>2, CopyUpExact DEF memmove
<1>3. CASE dest > src
  <2>1. dest >= src /\ ~(dest < src)
    BY <1>1, <1>3
  <2> QED
    BY <1>3, <2>1, CopyDownExact DEF memmove
<1>4. CASE dest = src
  <2>1. \A a \in DOMAIN mem : src + a - dest = a
    BY <1>1, <1>4 DEF IsMemory
  <2>2. Copied(mem, dest, src, n) = [a \in DOMAIN mem |-> mem[a]]
    BY <2>1 DEF Copied
  <2>3. memmove(mem, dest, src, n) = mem
    BY <1>1, <1>4 DEF memmove
  <2> QED
    BY <2>2, <2>3 DEF IsMemory
<1> QED
  BY <1>1, <1>2, <1>3, <1>4

\* The copying functions are exact on a memory of any size.
THEOREM CopiesAlwaysExact == CopiesExact
<1> DEFINE mem == [a \in Spaces |-> a]
<1> SUFFICES ASSUME NEW n \in 0..MemSize, NEW dest \in 0..(MemSize - n),
                    NEW src \in 0..(MemSize - n)
             PROVE  /\ memmove(mem, dest, src, n) = Copied(mem, dest, src, n)
                    /\ dest <= src \/ dest >= src + n =>
                           memcpy(mem, dest, src, n) = Copied(mem, dest, src, n)
                    /\ memset(mem, dest, 77, n) =
                           [a \in Spaces |-> IF a >= dest /\ a < dest + n THEN 77 ELSE a]
  BY DEF CopiesExact
<1>1. MemSize \in Nat /\ n \in Nat /\ dest \in Int /\ src \in Int
  BY MemSizeAssumption
<1>2. /\ DOMAIN mem = Spaces /\ \A a \in Spaces : mem[a] = a
      /\ mem = [a \in Spaces |-> mem[a]]
  OBVIOUS
<1> HIDE DEF mem
<1>3. IsMemory(mem)
  BY <1>1, <1>2 DEF IsMemory, Spaces
<1>4. Within(mem, dest, n) /\ Within(mem, src, n)
  BY <1>1, <1>2 DEF Within, Spaces
<1>5. memmove(mem, dest, src, n) = Copied(mem, dest, src, n)
  BY <1>1, <1>3, <1>4, MemmoveExact
<1>6. dest <= src \/ dest >= src + n => memcpy(mem, dest, src, n) = Copied(mem, dest, src, n)
  BY <1>1, <1>3, <1>4, CopyUpExact DEF memcpy
<1>7. memset(mem, dest, 77, n) =
          [a \in Spaces |-> IF a >= dest /\ a < dest + n THEN 77 ELSE a]
  <2>1. memset(mem, dest, 77, n) =
            [a \in Spaces |-> IF a >= dest /\ a < dest + n THEN 77 % 256 ELSE mem[a]]
    BY <1>1, <1>2, <1>3, <1>4, MemsetExact
  <2>2. 77 % 256 = 77
    OBVIOUS
  <2> QED
    BY <1>2, <2>1, <2>2
<1> QED
  BY <1>5, <1>6, <1>7

\* The step in which Console moves the lines of the screen up is what the
\* loop of memmove does with the arguments of tty_scroll, which overlap.
THEOREM ScrollIsMemmove ==
    ASSUME NEW vga, vga = [c \in Cells |-> vga[c]], NEW lines \in 1..Height
    PROVE  Moved(vga, lines) = memmove(vga, 0, lines * Width, Size - lines * Width)
<1>1. PICK w \in Nat : w = lines * Width /\ w <= Size
  <2>1. lines \in Nat /\ Height \in Nat /\ Width \in Nat /\ Size = Height * Width
    BY SizeFacts, ScreenAssumption
  <2>2. lines * Width \in Nat /\ lines * Width <= Height * Width
    BY <2>1, Monotone
  <2> QED
    BY <2>1, <2>2
<1>2. Size \in Nat /\ Size - w \in Nat
  BY <1>1, SizeFacts
<1>3. DOMAIN vga = Cells /\ IsMemory(vga)
  BY <1>2 DEF IsMemory, Cells
<1>4. Within(vga, 0, Size - w) /\ Within(vga, w, Size - w)
  BY <1>1, <1>2, <1>3 DEF Within, Cells
<1>5. memmove(vga, 0, w, Size - w) = Copied(vga, 0, w, Size - w)
  BY <1>2, <1>3, <1>4, MemmoveExact
<1>6. Copied(vga, 0, w, Size - w) =
          [c \in Cells |-> IF c < Size - w THEN vga[c + w] ELSE vga[c]]
  <2>1. \A c \in Cells : /\ c >= 0 /\ w + c - 0 = c + w
                         /\ c < 0 + (Size - w) <=> c < Size - w
    BY <1>1, <1>2 DEF Cells
  <2> QED
    BY <1>3, <2>1 DEF Copied
<1> QED
  BY <1>1, <1>5, <1>6 DEF Moved

\* The first of some places.
LEMMA FirstIs ==
    ASSUME NEW places, NEW k \in places, places \subseteq Int, \A j \in places : k <= j
    PROVE  First(places) = k
<1>1. \A i \in places : (\A j \in places : i <= j) => i = k
  <2> SUFFICES ASSUME NEW i \in places, \A j \in places : i <= j PROVE i = k
    OBVIOUS
  <2>1. i <= k /\ k <= i /\ i \in Int /\ k \in Int
    OBVIOUS
  <2> QED
    BY <2>1
<1> QED
  BY <1>1 DEF First

\* A letter is a byte that does not end a name.
LEMMA LettersAreBytes == \A x \in Letters : x # 0 /\ x \in Int
BY LettersAssumption

\* Two names in memory: where their bytes and the zeros behind them are.
Held(mem, l, r, p, q) ==
    /\ p \in Nat /\ q \in Nat
    /\ mem = [a \in 0..(p + q + 2) |-> mem[a]]
    /\ \A a \in 0..(p - 1) : mem[a] = l[a + 1] /\ mem[a] # 0 /\ mem[a] \in Int
    /\ mem[p] = 0
    /\ \A a \in 0..(q - 1) :
           mem[p + 1 + a] = r[a + 1] /\ mem[p + 1 + a] # 0 /\ mem[p + 1 + a] \in Int
    /\ mem[p + 1 + q] = 0
    /\ mem[p + q + 2] = 77

\* Holding stores them so.
LEMMA HoldingCells ==
    ASSUME NEW l \in Seq(Letters), NEW r \in Seq(Letters), NEW mem, mem = Holding(l, r),
           NEW p, p = Len(l), NEW q, q = Len(r)
    PROVE  Held(mem, l, r, p, q)
<1>1. PICK b : b = l \o <<0>> \o r \o <<0, 77>>
  OBVIOUS
<1>2. p \in Nat /\ q \in Nat
  BY LenProperties
<1>3. l \in Seq(Int) /\ r \in Seq(Int) /\ <<0>> \in Seq(Int) /\ <<0, 77>> \in Seq(Int)
  <2>1. Letters \subseteq Int
    BY LettersAssumption
  <2>2. \A s \in Seq(Letters) : s \in Seq(Int)
    <3> SUFFICES ASSUME NEW s \in Seq(Letters) PROVE s \in Seq(Int)
      OBVIOUS
    <3>1. s \in [1..Len(s) -> Letters] /\ Len(s) \in Nat
      BY LenProperties
    <3>2. s \in [1..Len(s) -> Int]
      BY <2>1, <3>1
    <3> QED
      BY <3>1, <3>2, SeqDef
  <2>3. <<0>> \in Seq(Int)
    OBVIOUS
  <2>4. <<0, 77>> \in Seq(Int)
    OBVIOUS
  <2> QED
    BY <2>2, <2>3, <2>4
<1>4. PICK c : c = l \o <<0>> /\ c \in Seq(Int) /\ Len(c) = p + 1
               /\ \A k \in 1..(p + 1) : c[k] = IF k <= p THEN l[k] ELSE 0
  <2>1. PICK c : c = l \o <<0>>
    OBVIOUS
  <2>2. /\ c \in Seq(Int) /\ Len(c) = p + 1
        /\ \A k \in 1..(p + 1) : c[k] = IF k <= p THEN l[k] ELSE <<0>>[k - p]
    BY <1>2, <1>3, <2>1, ConcatProperties
  <2>3. \A k \in 1..(p + 1) : ~(k <= p) => <<0>>[k - p] = 0
    BY <1>2
  <2> QED
    BY <2>1, <2>2, <2>3
<1>5. PICK d : d = c \o r /\ d \in Seq(Int) /\ Len(d) = p + 1 + q
               /\ \A k \in 1..(p + 1 + q) : d[k] = IF k <= p + 1 THEN c[k] ELSE r[k - (p + 1)]
  <2>1. PICK d : d = c \o r
    OBVIOUS
  <2>2. /\ d \in Seq(Int) /\ Len(d) = Len(c) + Len(r)
        /\ \A k \in 1..(Len(c) + Len(r)) : d[k] = IF k <= Len(c) THEN c[k] ELSE r[k - Len(c)]
    BY <1>3, <1>4, <2>1, ConcatProperties
  <2>3. Len(c) = p + 1 /\ Len(r) = q /\ Len(c) + Len(r) = p + 1 + q
    BY <1>2, <1>4
  <2>4. /\ d \in Seq(Int) /\ Len(d) = p + 1 + q
        /\ \A k \in 1..(p + 1 + q) : d[k] = IF k <= p + 1 THEN c[k] ELSE r[k - (p + 1)]
    BY <2>2, <2>3
  <2> QED
    BY <2>1, <2>4
<1>6. /\ Len(b) = p + q + 3
      /\ \A k \in 1..(p + q + 3) :
             b[k] = IF k <= p + 1 + q THEN d[k] ELSE <<0, 77>>[k - (p + 1 + q)]
  <2>1. b = d \o <<0, 77>>
    BY <1>1, <1>4, <1>5
  <2>2. Len(<<0, 77>>) = 2
    OBVIOUS
  <2>3. PICK e : e = <<0, 77>> /\ e \in Seq(Int) /\ Len(e) = 2
    <3>1. PICK e : e = <<0, 77>>
      OBVIOUS
    <3>2. e \in Seq(Int) /\ Len(e) = 2
      BY <1>3, <2>2, <3>1
    <3> QED
      BY <3>1, <3>2
  <2>4. /\ Len(b) = Len(d) + Len(e)
        /\ \A k \in 1..(Len(d) + Len(e)) : b[k] = IF k <= Len(d) THEN d[k] ELSE e[k - Len(d)]
    BY <1>5, <2>1, <2>3, ConcatProperties
  <2>5. /\ Len(b) = Len(d) + 2
        /\ \A k \in 1..(Len(d) + 2) : b[k] = IF k <= Len(d) THEN d[k] ELSE <<0, 77>>[k - Len(d)]
    BY <2>3, <2>4
  <2>6. Len(d) + 2 = p + q + 3 /\ Len(d) = p + 1 + q
    BY <1>2, <1>5
  <2> QED
    BY <2>5, <2>6
<1>7. /\ mem = [a \in 0..(p + q + 2) |-> mem[a]]
      /\ \A a \in 0..(p + q + 2) : mem[a] = b[a + 1]
  <2>1. mem = [a \in 0..(Len(b) - 1) |-> b[a + 1]]
    BY <1>1 DEF Holding
  <2>2. Len(b) - 1 = p + q + 2
    BY <1>2, <1>6
  <2> QED
    BY <2>1, <2>2
<1>8. ASSUME NEW a \in 0..(p - 1) PROVE mem[a] = l[a + 1] /\ mem[a] # 0 /\ mem[a] \in Int
  <2>1. PICK k \in Nat : k = a + 1
    OBVIOUS
  <2>2. /\ a \in 0..(p + q + 2) /\ k \in 1..(p + q + 3) /\ k <= p + 1 + q
        /\ k \in 1..(p + 1 + q) /\ k <= p + 1 /\ k \in 1..(p + 1) /\ k <= p /\ k \in 1..p
    BY <1>2, <2>1
  <2>3. mem[a] = b[k] /\ b[k] = d[k] /\ d[k] = c[k] /\ c[k] = l[k]
    BY <1>4, <1>5, <1>6, <1>7, <2>1, <2>2
  <2>4. l[k] \in Letters
    BY <2>2, ElementOfSeq
  <2>5. l[k] # 0 /\ l[k] \in Int
    BY <2>4, LettersAreBytes
  <2> QED
    BY <2>1, <2>3, <2>5
<1>9. mem[p] = 0
  <2>1. PICK k \in Nat : k = p + 1
    BY <1>2
  <2>2. /\ p \in 0..(p + q + 2) /\ k \in 1..(p + q + 3) /\ k <= p + 1 + q
        /\ k \in 1..(p + 1 + q) /\ k <= p + 1 /\ k \in 1..(p + 1) /\ ~(k <= p)
    BY <1>2, <2>1
  <2>3. mem[p] = b[k] /\ b[k] = d[k]
    BY <1>6, <1>7, <2>1, <2>2
  <2>4. d[k] = c[k] /\ c[k] = 0
    BY <1>4, <1>5, <2>2
  <2> QED
    BY <2>3, <2>4
<1>10. ASSUME NEW a \in 0..(q - 1)
       PROVE  mem[p + 1 + a] = r[a + 1] /\ mem[p + 1 + a] # 0 /\ mem[p + 1 + a] \in Int
  <2>1. PICK k \in Nat, i \in Nat, j \in Nat : k = p + 2 + a /\ i = p + 1 + a /\ j = a + 1
    BY <1>2
  <2>2. /\ i \in 0..(p + q + 2) /\ k \in 1..(p + q + 3) /\ k <= p + 1 + q /\ k = i + 1
        /\ k \in 1..(p + 1 + q) /\ ~(k <= p + 1) /\ k - (p + 1) = j /\ j \in 1..q
    BY <1>2, <2>1
  <2>3. mem[i] = b[k] /\ b[k] = d[k] /\ d[k] = r[j]
    BY <1>5, <1>6, <1>7, <2>2
  <2>4. r[j] \in Letters
    BY <2>2, ElementOfSeq
  <2>5. r[j] # 0 /\ r[j] \in Int
    BY <2>4, LettersAreBytes
  <2> QED
    BY <2>1, <2>3, <2>5
<1>11. mem[p + 1 + q] = 0 /\ mem[p + q + 2] = 77
  <2>1. PICK k \in Nat, i \in Nat, j \in Nat : k = p + q + 2 /\ i = p + 1 + q /\ j = p + q + 3
    BY <1>2
  <2>2. /\ i \in 0..(p + q + 2) /\ k \in 1..(p + q + 3) /\ ~(k <= p + 1 + q) /\ k = i + 1
        /\ k \in 0..(p + q + 2) /\ j \in 1..(p + q + 3) /\ ~(j <= p + 1 + q) /\ j = k + 1
        /\ k - (p + 1 + q) = 1 /\ j - (p + 1 + q) = 2
    BY <1>2, <2>1
  <2>3. mem[i] = <<0, 77>>[1] /\ mem[k] = <<0, 77>>[2]
    BY <1>6, <1>7, <2>2
  <2> QED
    BY <2>1, <2>3
<1> QED
  BY <1>2, <1>7, <1>8, <1>9, <1>10, <1>11 DEF Held

\* There is a string of n bytes at s.
StringAt(mem, s, n) ==
    /\ DOMAIN mem \subseteq Int /\ s \in Int /\ n \in Nat
    /\ s + n \in DOMAIN mem /\ mem[s + n] = 0
    /\ \A i \in 0..(n - 1) : mem[s + i] # 0

\* strlen counts the bytes before the first zero.
LEMMA StrlenIs ==
    ASSUME NEW mem, NEW s, NEW n, StringAt(mem, s, n)
    PROVE  strlen(mem, s) = n
<1> USE DEF StringAt
<1>1. PICK T, k : T = {a \in DOMAIN mem : a >= s /\ mem[a] = 0} /\ k = s + n
  OBVIOUS
<1>2. k \in T /\ T \subseteq Int /\ k \in Int
  BY <1>1
<1>3. ASSUME NEW j \in T PROVE k <= j
  <2>1. j \in Int /\ j >= s /\ mem[j] = 0
    BY <1>1
  <2>2. ASSUME j < k PROVE FALSE
    <3>1. PICK i : i = j - s
      OBVIOUS
    <3>2. i \in 0..(n - 1) /\ s + i = j
      BY <1>1, <2>1, <2>2, <3>1
    <3> QED
      BY <2>1, <3>2
  <2> QED
    BY <1>2, <2>1, <2>2
<1>4. First(T) = k
  BY <1>2, <1>3, FirstIs
<1>5. strlen(mem, s) = First(T) - s
  BY <1>1 DEF strlen
<1> QED
  BY <1>1, <1>2, <1>4, <1>5

\* The loop of strcmp is over after k bytes.
Stops(mem, lhs, rhs, k) ==
    mem[lhs + k] = 0 \/ mem[rhs + k] = 0 \/ mem[lhs + k] # mem[rhs + k]

\* It passes as many bytes as do not end it.
LEMMA AlikeIs ==
    ASSUME NEW mem, NEW m \in Nat, DOMAIN mem = 0..m, NEW lhs \in Nat, NEW rhs \in Nat,
           NEW k \in Nat, lhs + k <= m, rhs + k <= m,
           Stops(mem, lhs, rhs, k), \A j \in 0..(k - 1) : ~Stops(mem, lhs, rhs, j)
    PROVE  Alike(mem, lhs, rhs) = k
<1>1. PICK T : T = {i \in 0..Cardinality(DOMAIN mem) :
                      {lhs + i, rhs + i} \subseteq DOMAIN mem /\ Stops(mem, lhs, rhs, i)}
  OBVIOUS
<1>2. Cardinality(DOMAIN mem) = m + 1
  <2>1. Cardinality(0..m) = IF 0 > m THEN 0 ELSE m - 0 + 1
    BY FS_Interval
  <2> QED
    BY <2>1
<1>3. k \in T /\ T \subseteq Int
  <2>1. k \in 0..(m + 1) /\ lhs + k \in 0..m /\ rhs + k \in 0..m
    OBVIOUS
  <2>2. T \subseteq Int
    BY <1>1, <1>2
  <2> QED
    BY <1>1, <1>2, <2>1, <2>2
<1>4. ASSUME NEW j \in T PROVE k <= j
  <2>1. j \in Int /\ j >= 0 /\ Stops(mem, lhs, rhs, j)
    BY <1>1, <1>2
  <2>2. j \notin 0..(k - 1)
    BY <2>1
  <2> QED
    BY <2>1, <2>2
<1>5. First(T) = k
  BY <1>3, <1>4, FirstIs
<1>6. Alike(mem, lhs, rhs) = First(T)
  BY <1>1 DEF Alike, Stops
<1> QED
  BY <1>5, <1>6

\* Two names in memory are equal exactly if strcmp is zero.
LEMMA StrcmpExact ==
    ASSUME NEW l \in Seq(Letters), NEW r \in Seq(Letters), NEW mem, mem = Holding(l, r),
           NEW p, p = Len(l), NEW q, q = Len(r), NEW s, s = p + 1
    PROVE  (strcmp(mem, 0, s) = 0) <=> (l = r)
<1>1. /\ p \in Nat /\ q \in Nat
      /\ mem = [a \in 0..(p + q + 2) |-> mem[a]]
      /\ \A a \in 0..(p - 1) : mem[a] = l[a + 1] /\ mem[a] # 0 /\ mem[a] \in Int
      /\ mem[p] = 0
      /\ \A a \in 0..(q - 1) :
             mem[p + 1 + a] = r[a + 1] /\ mem[p + 1 + a] # 0 /\ mem[p + 1 + a] \in Int
      /\ mem[p + 1 + q] = 0
      /\ mem[p + q + 2] = 77
  <2>1. Held(mem, l, r, p, q)
    BY HoldingCells
  <2> QED
    BY <2>1 DEF Held
<1>2. \A a \in 0..(q - 1) : mem[s + a] = r[a + 1] /\ mem[s + a] # 0 /\ mem[s + a] \in Int
  <2> SUFFICES ASSUME NEW a \in 0..(q - 1)
               PROVE  mem[s + a] = r[a + 1] /\ mem[s + a] # 0 /\ mem[s + a] \in Int
    OBVIOUS
  <2>1. s + a = p + 1 + a
    OBVIOUS
  <2> QED
    BY <1>1, <2>1
<1>3. mem[s + q] = 0 /\ s \in Nat
  BY <1>1
<1>4. PICK T : T = {k \in Nat : k <= p /\ k <= q /\ Stops(mem, 0, s, k)}
  OBVIOUS
<1>5. T # {}
  <2>1. p <= q => p \in T
    <3>1. 0 + p = p
      BY <1>1
    <3>2. Stops(mem, 0, s, p)
      BY <1>1, <3>1 DEF Stops
    <3> QED
      BY <1>1, <1>4, <3>2
  <2>2. q <= p => q \in T
    <3>1. Stops(mem, 0, s, q)
      BY <1>3 DEF Stops
    <3> QED
      BY <1>1, <1>4, <3>1
  <2> QED
    BY <1>1, <2>1, <2>2
<1>6. PICK k \in T : \A j \in T : k <= j
  BY <1>4, <1>5, LeastElement
<1>7. k \in Nat /\ k <= p /\ k <= q /\ Stops(mem, 0, s, k)
  BY <1>4
<1>8. ASSUME NEW j \in 0..(k - 1) PROVE ~Stops(mem, 0, s, j)
  <2>1. j \in Nat /\ j <= p /\ j <= q /\ ~(k <= j)
    BY <1>1, <1>7
  <2>2. j \notin T
    BY <1>6, <2>1
  <2> QED
    BY <1>4, <2>1, <2>2
<1>9. Alike(mem, 0, s) = k
  <2>1. PICK m \in Nat : m = p + q + 2 /\ 0 + k <= m /\ s + k <= m
    BY <1>1, <1>7
  <2>2. DOMAIN mem = 0..m
    BY <1>1, <2>1
  <2> QED
    BY <1>3, <1>7, <1>8, <2>1, <2>2, AlikeIs
<1>10. PICK x, y : x = mem[k] /\ y = mem[s + k]
  OBVIOUS
<1>11. strcmp(mem, 0, s) = y - x
  <2>1. 0 + k = k
    BY <1>7
  <2> QED
    BY <1>9, <1>10, <2>1 DEF strcmp
<1>12. /\ x \in Int /\ y \in Int
       /\ x = 0 <=> k = p
       /\ y = 0 <=> k = q
       /\ x = 0 \/ y = 0 \/ x # y
  <2>1. x \in Int /\ (x = 0 <=> k = p)
    <3>1. CASE k = p
      BY <1>1, <1>10, <3>1
    <3>2. CASE k # p
      <4>1. k \in 0..(p - 1)
        BY <1>1, <1>7, <3>2
      <4>2. x # 0 /\ x \in Int
        BY <1>1, <1>10, <4>1
      <4> QED
        BY <3>2, <4>2
    <3> QED
      BY <3>1, <3>2
  <2>2. y \in Int /\ (y = 0 <=> k = q)
    <3>1. CASE k = q
      BY <1>3, <1>10, <3>1
    <3>2. CASE k # q
      <4>1. k \in 0..(q - 1)
        BY <1>1, <1>7, <3>2
      <4>2. y # 0 /\ y \in Int
        BY <1>2, <1>10, <4>1
      <4> QED
        BY <3>2, <4>2
    <3> QED
      BY <3>1, <3>2
  <2>3. x = 0 \/ y = 0 \/ x # y
    <3>1. 0 + k = k
      BY <1>7
    <3> QED
      BY <1>7, <1>10, <3>1 DEF Stops
  <2> QED
    BY <2>1, <2>2, <2>3
<1>13. ASSUME l = r PROVE strcmp(mem, 0, s) = 0
  <2>1. p = q
    BY <1>13
  <2>2. ASSUME k # p PROVE FALSE
    <3>1. k \in 0..(p - 1) /\ k \in 0..(q - 1)
      BY <1>1, <1>7, <2>1, <2>2
    <3>2. x = l[k + 1] /\ y = r[k + 1]
      BY <1>1, <1>2, <1>10, <3>1
    <3> QED
      BY <1>12, <1>13, <2>1, <2>2, <3>2
  <2> QED
    BY <1>11, <1>12, <2>1, <2>2
<1>14. ASSUME strcmp(mem, 0, s) = 0 PROVE l = r
  <2>1. x = y
    BY <1>11, <1>12, <1>14
  <2>2. k = p /\ k = q
    BY <1>12, <2>1
  <2>3. ASSUME NEW i \in 1..p PROVE l[i] = r[i]
    <3>1. PICK j : j = i - 1
      OBVIOUS
    <3>2. j \in 0..(k - 1) /\ j \in 0..(p - 1) /\ j \in 0..(q - 1) /\ j + 1 = i /\ 0 + j = j
      BY <1>1, <2>2, <3>1
    <3>3. mem[j] = mem[s + j]
      BY <1>8, <3>2 DEF Stops
    <3>4. mem[j] = l[i] /\ mem[s + j] = r[i]
      BY <1>1, <1>2, <3>2
    <3> QED
      BY <3>3, <3>4
  <2>4. Len(l) = Len(r)
    BY <2>2
  <2> QED
    BY <2>3, <2>4, SeqEqual
<1> QED
  BY <1>13, <1>14

\* What a copy of a name has to find: the name and its zero at 0, room for
\* the copy behind it, and the byte behind the copy.
LEMMA StrcpyExact ==
    ASSUME NEW l \in Seq(Letters), NEW h, h = Holding(l, l), NEW p, p = Len(l),
           NEW s, s = p + 1, NEW e, e = s + p + 1,
           NEW mem, IsMemory(mem), DOMAIN mem = 0..e,
           \A a \in 0..p : mem[a] = h[a], mem[e] = h[e]
    PROVE  strcpy(mem, s, 0) = h
<1>1. Held(h, l, l, p, p)
  BY HoldingCells
<1>2. p \in Nat /\ s \in Nat /\ e \in Nat /\ e = p + p + 2
  BY <1>1 DEF Held
<1>3. h = [a \in 0..e |-> h[a]]
  BY <1>1, <1>2 DEF Held
<1>4. h[p] = 0 /\ h[s + p] = 0
  BY <1>1 DEF Held
<1>5. ASSUME NEW a \in 0..(p - 1) PROVE h[a] = l[a + 1] /\ h[a] # 0 /\ h[s + a] = l[a + 1]
  <2>1. s + a = p + 1 + a
    OBVIOUS
  <2>2. h[a] = l[a + 1] /\ h[a] # 0 /\ h[p + 1 + a] = l[a + 1]
    BY <1>1, Zenon DEF Held
  <2> QED
    BY <2>1, <2>2
<1>6. strlen(mem, 0) = p
  <2>1. 0 + p = p /\ p \in 0..p /\ p \in 0..e /\ 0..e \subseteq Int
    BY <1>2
  <2>2. mem[p] = 0
    BY <1>4, <2>1
  <2>3. ASSUME NEW i \in 0..(p - 1) PROVE mem[0 + i] # 0
    <3>1. 0 + i = i /\ i \in 0..p
      BY <1>2
    <3>2. h[i] # 0
      BY <1>5
    <3> QED
      BY <3>1, <3>2
  <2>4. StringAt(mem, 0, p)
    BY <1>2, <2>1, <2>2, <2>3 DEF StringAt
  <2> QED
    BY <2>4, StrlenIs
<1>7. CopyUp(mem, s, 0, p + 1) = Copied(mem, s, 0, p + 1)
  <2>1. PICK n \in Nat : n = p + 1
    BY <1>2
  <2>2. Within(mem, s, n) /\ Within(mem, 0, n)
    BY <1>2, <2>1 DEF Within
  <2>3. s >= 0 + n
    BY <1>2, <2>1
  <2>4. CopyUp(mem, s, 0, n) = Copied(mem, s, 0, n)
    BY <2>2, <2>3, CopyUpExact
  <2> QED
    BY <2>1, <2>4
<1>8. Copied(mem, s, 0, p + 1) = h
  <2>1. Copied(mem, s, 0, p + 1) =
            [a \in 0..e |-> IF a >= s /\ a < s + (p + 1) THEN mem[0 + a - s] ELSE mem[a]]
    BY DEF Copied
  <2>2. ASSUME NEW a \in 0..e
        PROVE  h[a] = IF a >= s /\ a < s + (p + 1) THEN mem[0 + a - s] ELSE mem[a]
    <3>1. CASE a < s
      <4>1. a \in 0..p /\ ~(a >= s)
        BY <1>2, <3>1
      <4>2. mem[a] = h[a]
        BY <4>1
      <4> QED
        BY <4>1, <4>2
    <3>2. CASE a >= s /\ a < s + p
      <4>1. PICK i : i = a - s
        OBVIOUS
      <4>2. /\ i \in 0..(p - 1) /\ s + i = a /\ i \in 0..p /\ 0 + a - s = i
            /\ a >= s /\ a < s + (p + 1)
        BY <1>2, <3>2, <4>1
      <4>3. h[i] = l[i + 1] /\ h[s + i] = l[i + 1]
        BY <1>5, <4>2
      <4>4. mem[i] = h[i]
        BY <4>2
      <4> QED
        BY <4>2, <4>3, <4>4
    <3>3. CASE a = s + p
      <4>1. 0 + a - s = p /\ a >= s /\ a < s + (p + 1) /\ p \in 0..p
        BY <1>2, <3>3
      <4>2. mem[p] = 0 /\ h[a] = 0
        BY <1>4, <3>3, <4>1
      <4> QED
        BY <4>1, <4>2
    <3>4. CASE a = e
      <4>1. ~(a < s + (p + 1))
        BY <1>2, <3>4
      <4> QED
        BY <3>4, <4>1
    <3>5. a < s \/ (a >= s /\ a < s + p) \/ a = s + p \/ a = e
      BY <1>2
    <3> QED
      BY <3>1, <3>2, <3>3, <3>4, <3>5
  <2> QED
    BY <1>3, <2>1, <2>2
<1> QED
  BY <1>6, <1>7, <1>8 DEF strcpy

\* strlen finds the lengths of two names in memory.
LEMMA StrlenExact ==
    ASSUME NEW l \in Seq(Letters), NEW r \in Seq(Letters), NEW mem, mem = Holding(l, r),
           NEW p, p = Len(l), NEW q, q = Len(r), NEW s, s = p + 1
    PROVE  strlen(mem, 0) = p /\ strlen(mem, s) = q
<1>1. Held(mem, l, r, p, q)
  BY HoldingCells
<1>2. p \in Nat /\ q \in Nat /\ s \in Nat
  BY <1>1 DEF Held
<1>3. DOMAIN mem = 0..(p + q + 2) /\ DOMAIN mem \subseteq Int
  BY <1>1 DEF Held
<1>4. mem[p] = 0 /\ mem[s + q] = 0
  BY <1>1 DEF Held
<1>5. strlen(mem, 0) = p
  <2>1. 0 + p = p /\ p \in DOMAIN mem
    BY <1>2, <1>3
  <2>2. ASSUME NEW i \in 0..(p - 1) PROVE mem[0 + i] # 0
    <3>1. 0 + i = i
      BY <1>2
    <3>2. mem[i] # 0
      BY <1>1, Zenon DEF Held
    <3> QED
      BY <3>1, <3>2
  <2>3. StringAt(mem, 0, p)
    BY <1>2, <1>3, <1>4, <2>1, <2>2 DEF StringAt
  <2> QED
    BY <2>3, StrlenIs
<1>6. strlen(mem, s) = q
  <2>1. s + q \in DOMAIN mem
    BY <1>2, <1>3
  <2>2. ASSUME NEW i \in 0..(q - 1) PROVE mem[s + i] # 0
    <3>1. s + i = p + 1 + i
      OBVIOUS
    <3>2. mem[p + 1 + i] # 0
      BY <1>1, Zenon DEF Held
    <3> QED
      BY <3>1, <3>2
  <2>3. StringAt(mem, s, q)
    BY <1>2, <1>3, <1>4, <2>1, <2>2 DEF StringAt
  <2> QED
    BY <2>3, StrlenIs
<1> QED
  BY <1>5, <1>6

\* The names a run enumerates are sequences of letters.
LEMMA NamesAreSequences == \A l \in Names : l \in Seq(Letters)
<1> SUFFICES ASSUME NEW l \in Names PROVE l \in Seq(Letters)
  OBVIOUS
<1>1. CASE l = <<>>
  BY <1>1
<1>2. CASE \E a \in Letters : l = <<a>>
  BY <1>2
<1>3. CASE l \in Letters \X Letters
  <2>1. PICK a \in Letters, b \in Letters : l = <<a, b>>
    BY <1>3
  <2> QED
    BY <2>1
<1> QED
  BY <1>1, <1>2, <1>3 DEF Names

\* For names of any length: strlen counts the bytes before the zero, strcmp
\* is zero exactly if the names are equal, so a prefix is never taken for the
\* name (the comparison dir_find of tmpfs relies on), and strcpy copies a
\* name with its zero, over whatever was there.
THEOREM NamesExact == \A l, r \in Seq(Letters) : NamesCompareWith(l, r)
<1> SUFFICES ASSUME NEW l \in Seq(Letters), NEW r \in Seq(Letters)
             PROVE  NamesCompareWith(l, r)
  OBVIOUS
<1>1. PICK mem, h, p, q, s, e, g : /\ mem = Holding(l, r) /\ h = Holding(l, l)
                                   /\ p = Len(l) /\ q = Len(r) /\ s = Len(l) + 1
                                   /\ e = s + p + 1 /\ g = [h EXCEPT ![s + p] = 99]
  OBVIOUS
<1>2. strlen(mem, 0) = p /\ strlen(mem, s) = q
  BY <1>1, StrlenExact
<1>3. (strcmp(mem, 0, s) = 0) <=> (l = r)
  BY <1>1, StrcmpExact
<1>4. strcmp(h, 0, s) = 0
  BY <1>1, StrcmpExact
<1>5. p \in Nat /\ s \in Nat /\ e \in Nat /\ IsMemory(h) /\ DOMAIN h = 0..e
  <2>1. Held(h, l, l, p, p)
    BY <1>1, HoldingCells
  <2>2. p \in Nat /\ s \in Nat /\ e \in Nat /\ p + p + 2 = e
    BY <1>1, <2>1 DEF Held
  <2>3. h = [a \in 0..e |-> h[a]]
    BY <2>1, <2>2 DEF Held
  <2>4. DOMAIN h = 0..e
    BY <2>3
  <2>5. IsMemory(h)
    BY <2>2, <2>3, <2>4 DEF IsMemory
  <2> QED
    BY <2>2, <2>4, <2>5
<1>6. strcpy(h, s, 0) = h
  <2>1. h = Holding(l, l) /\ p = Len(l) /\ s = p + 1 /\ e = s + p + 1
    BY <1>1
  <2>2. PICK k : k = h
    OBVIOUS
  <2>3. IsMemory(k) /\ DOMAIN k = 0..e /\ k[e] = h[e] /\ \A a \in 0..p : k[a] = h[a]
    BY <1>5, <2>2
  <2>4. strcpy(k, s, 0) = h
    BY <2>1, <2>3, StrcpyExact
  <2> QED
    BY <2>2, <2>4
<1>7. strcpy(g, s, 0) = h
  <2>1. DOMAIN g = 0..e /\ g = [a \in 0..e |-> g[a]] /\ \A a \in 0..e : a # s + p => g[a] = h[a]
    BY <1>1, <1>5
  <2>2. IsMemory(g)
    BY <1>5, <2>1 DEF IsMemory
  <2>3. e # s + p /\ e \in 0..e /\ \A a \in 0..p : a \in 0..e /\ a # s + p
    BY <1>1, <1>5
  <2>4. \A a \in 0..p : g[a] = h[a]
    BY <2>1, <2>3
  <2>5. g[e] = h[e] /\ DOMAIN g = 0..e
    BY <2>1, <2>3
  <2>6. h = Holding(l, l) /\ p = Len(l) /\ s = p + 1 /\ e = s + p + 1
    BY <1>1
  <2> QED
    BY <2>2, <2>4, <2>5, <2>6, StrcpyExact
<1> QED
  BY <1>1, <1>2, <1>3, <1>4, <1>6, <1>7 DEF NamesCompareWith

\* The names of the run are compared and copied in full.
LEMMA NamesAlwaysCompare == NamesCompare
BY NamesAreSequences, NamesExact DEF NamesCompare

\* The copies scrolling is made of are exact and names are compared and copied
\* in full, for every size of memory and every alphabet.
THEOREM LibraryAlwaysExact == Spec => []LibraryExact
<1>1. LibraryExact
  BY CopiesAlwaysExact, NamesAlwaysCompare DEF LibraryExact
<1> QED
  BY <1>1, PTL
-----------------------------------------------------------------------------
(***************************************************************************)
(* The digits of putiradix.  Its first loop is a recursive function of the *)
(* number that is left, which shrinks by a division; the function exists   *)
(* because it can be extended by one number at a time.                     *)
(***************************************************************************)

\* What a division by one of the radices of vprintf leaves.
LEMMA DivisionFacts ==
    ASSUME NEW r \in {8, 10, 16}, NEW y \in Nat
    PROVE  /\ y \div r \in Nat /\ y % r \in 0..(r - 1) /\ y % r \in 0..15
           /\ y = r * (y \div r) + (y % r)
           /\ y >= r => y \div r < y /\ y \div r # 0
           /\ \A b \in Nat : y < 8 * b => y \div r < b
<1>1. CASE r = 8
  BY <1>1
<1>2. CASE r = 10
  BY <1>2
<1>3. CASE r = 16
  BY <1>3
<1> QED
  BY <1>1, <1>2, <1>3

\* The digits of y, from those of the numbers below it.
DigitsOf(f, y, r, chars) ==
    IF y < r THEN <<chars[y + 1]>> ELSE Append(f[y \div r], chars[(y % r) + 1])

\* f gives the digits of every number up to n.
AllDigits(f, n, r, chars) == f = [y \in 0..n |-> DigitsOf(f, y, r, chars)]

\* There are digits for every number.
LEMMA DigitsExist ==
    ASSUME NEW r \in {8, 10, 16}, NEW chars, NEW n \in Nat
    PROVE  \E f : AllDigits(f, n, r, chars)
<1>1. PICK S : S = {m \in Nat : \E f : AllDigits(f, m, r, chars)}
  OBVIOUS
<1>2. 0 \in S
  <2>1. PICK f : f = [y \in 0..0 |-> <<chars[y + 1]>>]
    OBVIOUS
  <2>2. \A y \in 0..0 : y < r
    OBVIOUS
  <2>3. \A y \in 0..0 : DigitsOf(f, y, r, chars) = <<chars[y + 1]>>
    BY <2>2 DEF DigitsOf
  <2>4. AllDigits(f, 0, r, chars)
    BY <2>1, <2>3 DEF AllDigits
  <2> QED
    BY <1>1, <2>4
<1>3. ASSUME NEW m \in Nat, m \in S PROVE m + 1 \in S
  <2>1. PICK f : AllDigits(f, m, r, chars)
    BY <1>1, <1>3
  <2>2. PICK j, g : j = m + 1 /\ g = [y \in 0..j |-> DigitsOf(f, y, r, chars)]
    OBVIOUS
  <2>3. \A y \in 0..m : y \in 0..j /\ g[y] = f[y]
    <3> SUFFICES ASSUME NEW y \in 0..m PROVE y \in 0..j /\ g[y] = f[y]
      OBVIOUS
    <3>1. y \in 0..j
      BY <2>2
    <3>2. f[y] = DigitsOf(f, y, r, chars)
      BY <2>1 DEF AllDigits
    <3> QED
      BY <2>2, <3>1, <3>2
  <2>4. ASSUME NEW y \in 0..j PROVE DigitsOf(f, y, r, chars) = DigitsOf(g, y, r, chars)
    <3>1. CASE y < r
      BY <3>1 DEF DigitsOf
    <3>2. CASE ~(y < r)
      <4>1. PICK z : z = y \div r
        OBVIOUS
      <4>2. y \in Nat /\ r \in Nat /\ y >= r
        BY <2>2, <3>2
      <4>3. z \in Nat /\ z < y
        BY <4>1, <4>2, DivisionFacts
      <4>4. z \in 0..m
        BY <2>2, <4>3
      <4>5. f[z] = g[z]
        BY <2>3, <4>4
      <4> QED
        BY <4>1, <4>5 DEF DigitsOf
    <3> QED
      BY <3>1, <3>2
  <2>5. AllDigits(g, j, r, chars)
    BY <2>2, <2>4 DEF AllDigits
  <2>6. j \in Nat
    BY <2>2
  <2>7. j \in S
    BY <1>1, <2>5, <2>6
  <2> QED
    BY <2>2, <2>7
<1>4. n \in S
  BY <1>2, <1>3, Induction
<1> QED
  BY <1>1, <1>4

\* Digits is that function.
LEMMA DigitsAre ==
    ASSUME NEW r \in {8, 10, 16}, NEW chars
    PROVE  \E f : /\ AllDigits(f, UMod - 1, r, chars)
                  /\ \A x : Digits(x, r, chars) = f[x]
<1>1. PICK n \in Nat : n = UMod - 1
  BY UModAssumption
<1> DEFINE Is(f) == f = [y \in 0..(UMod - 1) |->
               IF y < r THEN <<chars[y + 1]>>
                        ELSE Append(f[y \div r], chars[(y % r) + 1])]
<1>2. \E f : AllDigits(f, UMod - 1, r, chars)
  BY <1>1, DigitsExist
<1>3. \E f : Is(f)
  BY <1>2, Zenon DEF AllDigits, DigitsOf
<1>4. PICK f : f = CHOOSE h : Is(h)
  OBVIOUS
<1>5. Is(f)
  BY <1>3, <1>4, Zenon
<1>6. \A x : Digits(x, r, chars) = f[x]
  BY <1>4, Zenon DEF Digits
<1>7. AllDigits(f, UMod - 1, r, chars)
  BY <1>5, Zenon DEF AllDigits, DigitsOf
<1> QED
  BY <1>6, <1>7

\* What a sequence of digits means, read from the left as a reader does: the
\* values of its beginnings, each the radix times the one before plus a digit.
\* There is no leading zero.
ReadsAs(d, x, r, chars, v) ==
    /\ v \in [0..Len(d) -> Nat] /\ v[0] = 0 /\ v[Len(d)] = x
    /\ \A k \in 1..Len(d) :
           \E c \in 0..(r - 1) : v[k] = r * v[k - 1] + c /\ d[k] = chars[c + 1]
    /\ Len(d) # 1 => v[1] # 0

\* d is a text that reads as x.
Readable(d, x, r, chars, A) ==
    d \in Seq(A) /\ Len(d) >= 1 /\ \E v : ReadsAs(d, x, r, chars, v)

\* The digits of y read back as y, if those of smaller numbers do.
LEMMA DigitsStep ==
    ASSUME NEW A, NEW r \in {8, 10, 16}, NEW chars \in [1..16 -> A], NEW f, NEW n \in Nat,
           AllDigits(f, n, r, chars), NEW y \in 0..n,
           \A z \in 0..n : z < y => Readable(f[z], z, r, chars, A)
    PROVE  Readable(f[y], y, r, chars, A)
<1>1. f[y] = DigitsOf(f, y, r, chars)
  BY DEF AllDigits
<1>2. y \in Nat /\ r \in Nat
  OBVIOUS
<1>3. CASE y < r
  <2>1. PICK e, d : e = chars[y + 1] /\ d = <<e>>
    OBVIOUS
  <2>2. y \in 0..(r - 1) /\ y + 1 \in 1..16
    BY <1>2, <1>3
  <2>3. e \in A
    BY <2>1, <2>2
  <2>4. d \in Seq(A) /\ Len(d) = 1 /\ d[1] = e
    BY <2>1, <2>3
  <2>5. PICK v : v = [k \in 0..1 |-> IF k = 0 THEN 0 ELSE y]
    OBVIOUS
  <2>6. v \in [0..1 -> Nat] /\ v[0] = 0 /\ v[1] = y
    BY <1>2, <2>5
  <2>7. ASSUME NEW k \in 1..1
        PROVE  \E c \in 0..(r - 1) : v[k] = r * v[k - 1] + c /\ d[k] = chars[c + 1]
    <3>1. k = 1 /\ k - 1 = 0 /\ r * 0 = 0 /\ 0 + y = y
      BY <1>2
    <3>2. v[k] = r * v[k - 1] + y /\ d[k] = chars[y + 1]
      BY <2>1, <2>4, <2>6, <3>1
    <3> QED
      BY <2>2, <3>2
  <2>8. ReadsAs(d, y, r, chars, v)
    BY <2>4, <2>6, <2>7 DEF ReadsAs
  <2>9. f[y] = d
    BY <1>1, <1>3, <2>1 DEF DigitsOf
  <2>10. Readable(d, y, r, chars, A)
    BY <2>4, <2>8 DEF Readable
  <2> QED
    BY <2>9, <2>10
<1>4. CASE ~(y < r)
  <2>1. PICK z, c, d, e : z = y \div r /\ c = y % r /\ d = f[z] /\ e = chars[c + 1]
    OBVIOUS
  <2>2. /\ z \in Nat /\ c \in 0..(r - 1) /\ c \in 0..15 /\ y = r * z + c /\ z < y /\ z # 0
    <3>1. y >= r
      BY <1>2, <1>4
    <3>2. /\ y \div r \in Nat /\ y % r \in 0..(r - 1) /\ y % r \in 0..15
          /\ y = r * (y \div r) + (y % r)
          /\ y \div r < y /\ y \div r # 0
      BY <1>2, <3>1, DivisionFacts
    <3> QED
      BY <2>1, <3>2
  <2>3. z \in 0..n /\ c + 1 \in 1..16
    BY <2>2
  <2>4. Readable(d, z, r, chars, A)
    BY <2>1, <2>2, <2>3
  <2>5. d \in Seq(A) /\ Len(d) >= 1
    BY <2>4 DEF Readable
  <2>6. PICK v : ReadsAs(d, z, r, chars, v)
    BY <2>4 DEF Readable
  <2>7. e \in A
    BY <2>1, <2>3
  <2>8. PICK g, m : g = Append(d, e) /\ m = Len(d)
    OBVIOUS
  <2>9. m \in Nat /\ m >= 1
    BY <2>5, <2>8, LenProperties
  <2>10. g \in Seq(A) /\ Len(g) = m + 1 /\ g[m + 1] = e /\ \A k \in 1..m : g[k] = d[k]
    BY <2>5, <2>7, <2>8, AppendProperties
  <2>11. PICK w : w = [k \in 0..(m + 1) |-> IF k <= m THEN v[k] ELSE y]
    OBVIOUS
  <2>12. /\ v \in [0..m -> Nat] /\ v[0] = 0 /\ v[m] = z
         /\ \A k \in 1..m :
                \E b \in 0..(r - 1) : v[k] = r * v[k - 1] + b /\ d[k] = chars[b + 1]
         /\ m # 1 => v[1] # 0
    BY <2>6, <2>8 DEF ReadsAs
  <2>13. /\ w \in [0..(m + 1) -> Nat] /\ w[m + 1] = y
         /\ \A k \in 0..m : w[k] = v[k]
    <3>1. m + 1 \in 0..(m + 1) /\ ~(m + 1 <= m) /\ \A k \in 0..m : k \in 0..(m + 1) /\ k <= m
      BY <2>9
    <3>2. w[m + 1] = y /\ \A k \in 0..m : w[k] = v[k]
      BY <2>11, <3>1
    <3>3. \A k \in 0..(m + 1) : k <= m => k \in 0..m
      BY <2>9
    <3>4. \A k \in 0..m : v[k] \in Nat
      BY <2>12
    <3>5. \A k \in 0..(m + 1) : (IF k <= m THEN v[k] ELSE y) \in Nat
      BY <1>2, <3>3, <3>4
    <3>6. w \in [0..(m + 1) -> Nat]
      BY <2>11, <3>5
    <3> QED
      BY <3>2, <3>6
  <2>14. ASSUME NEW k \in 1..(m + 1)
         PROVE  \E b \in 0..(r - 1) : w[k] = r * w[k - 1] + b /\ g[k] = chars[b + 1]
    <3>1. PICK i : i = k - 1
      OBVIOUS
    <3>2. i \in 0..m
      BY <2>9, <3>1
    <3>3. CASE k \in 1..m
      <4>1. PICK b \in 0..(r - 1) : v[k] = r * v[k - 1] + b /\ d[k] = chars[b + 1]
        BY <2>12, <3>3
      <4>2. k \in 0..m
        BY <3>3
      <4>3. w[k] = v[k] /\ w[k - 1] = v[k - 1] /\ g[k] = d[k]
        BY <2>10, <2>13, <3>1, <3>2, <3>3, <4>2
      <4> QED
        BY <4>1, <4>3
    <3>4. CASE k = m + 1
      <4>1. k - 1 = m /\ m \in 0..m
        BY <2>9, <3>4
      <4>2. w[k] = y /\ w[k - 1] = z /\ g[k] = e
        BY <2>10, <2>12, <2>13, <3>4, <4>1
      <4>3. w[k] = r * w[k - 1] + c /\ g[k] = chars[c + 1]
        BY <2>1, <2>2, <4>2
      <4> QED
        BY <2>2, <4>3
    <3>5. k \in 1..m \/ k = m + 1
      BY <2>9
    <3> QED
      BY <3>3, <3>4, <3>5
  <2>15. w[0] = 0 /\ w[1] # 0
    <3>1. 0 \in 0..m /\ 1 \in 0..m
      BY <2>9
    <3>2. w[0] = 0 /\ w[1] = v[1]
      BY <2>12, <2>13, <3>1
    <3>3. CASE m = 1
      BY <2>2, <2>12, <3>2, <3>3
    <3>4. CASE m # 1
      BY <2>12, <3>2, <3>4
    <3> QED
      BY <3>2, <3>3, <3>4
  <2>16. ReadsAs(g, y, r, chars, w)
    BY <2>10, <2>13, <2>14, <2>15 DEF ReadsAs
  <2>17. f[y] = g
    BY <1>1, <1>4, <2>1, <2>8 DEF DigitsOf
  <2>18. Len(g) >= 1
    BY <2>9, <2>10
  <2>19. Readable(g, y, r, chars, A)
    BY <2>10, <2>16, <2>18 DEF Readable
  <2> QED
    BY <2>17, <2>19
<1> QED
  BY <1>3, <1>4

\* If a number is in a set as soon as all smaller ones are, they all are.
LEMMA StrongInduction ==
    ASSUME NEW n \in Nat, NEW S, \A y \in 0..n : (\A z \in 0..n : z < y => z \in S) => y \in S
    PROVE  \A y \in 0..n : y \in S
<1> SUFFICES ASSUME NEW o \in 0..n, o \notin S PROVE FALSE
  OBVIOUS
<1>1. PICK T : T = {k \in 0..n : k \notin S}
  OBVIOUS
<1>2. T \subseteq Nat /\ T # {}
  BY <1>1
<1>3. PICK x \in T : \A y \in T : x <= y
  BY <1>2, LeastElement
<1>4. x \in 0..n /\ x \in Nat /\ x \notin S
  BY <1>1
<1>5. ASSUME NEW z \in 0..n, z < x PROVE z \in S
  <2>1. z \notin T
    BY <1>3, <1>4, <1>5
  <2> QED
    BY <1>1, <2>1
<1> QED
  BY <1>4, <1>5

\* The digits that the first loop of putiradix stores, and its last loop
\* prints from the end, read back as the number, in each of vprintf's
\* radices, for every value of an unsigned.
THEOREM DigitsReadBack ==
    ASSUME NEW A, NEW r \in {8, 10, 16}, NEW chars \in [1..16 -> A], NEW x \in 0..(UMod - 1)
    PROVE  Readable(Digits(x, r, chars), x, r, chars, A)
<1>1. PICK n \in Nat : n = UMod - 1
  BY UModAssumption
<1>2. PICK f : /\ AllDigits(f, UMod - 1, r, chars)
               /\ \A y : Digits(y, r, chars) = f[y]
  BY DigitsAre
<1>3. PICK S : S = {y \in 0..n : Readable(f[y], y, r, chars, A)}
  OBVIOUS
<1>4. AllDigits(f, n, r, chars)
  BY <1>1, <1>2
<1>5. ASSUME NEW y \in 0..n, \A z \in 0..n : z < y => z \in S PROVE y \in S
  <2>1. \A z \in 0..n : z < y => Readable(f[z], z, r, chars, A)
    BY <1>3, <1>5
  <2>2. Readable(f[y], y, r, chars, A)
    BY <1>4, <2>1, DigitsStep
  <2> QED
    BY <1>3, <2>2
<1>6. x \in S
  <2>1. \A y \in 0..n : y \in S
    BY <1>5, StrongInduction
  <2> QED
    BY <1>1, <2>1
<1> QED
  BY <1>2, <1>3, <1>6

\* Numbers below b have at most k digits.
Fits(f, n, b, k) == \A y \in 0..n : y < b => Len(f[y]) <= k

\* Numbers below 8 have one digit in each radix.
LEMMA OneDigit ==
    ASSUME NEW r \in {8, 10, 16}, NEW chars, NEW f, NEW n \in Nat, AllDigits(f, n, r, chars)
    PROVE  Fits(f, n, 8, 1)
<1> SUFFICES ASSUME NEW y \in 0..n, y < 8 PROVE Len(f[y]) <= 1
  BY DEF Fits
<1>1. f[y] = DigitsOf(f, y, r, chars)
  BY DEF AllDigits
<1>2. y < r
  OBVIOUS
<1>3. f[y] = <<chars[y + 1]>>
  BY <1>1, <1>2 DEF DigitsOf
<1> QED
  BY <1>3

\* Eight times the bound takes one digit more.
LEMMA OneDigitMore ==
    ASSUME NEW A, NEW r \in {8, 10, 16}, NEW chars \in [1..16 -> A], NEW f, NEW n \in Nat,
           AllDigits(f, n, r, chars), \A y \in 0..n : Readable(f[y], y, r, chars, A),
           NEW b \in Nat, NEW k \in Nat, Fits(f, n, b, k)
    PROVE  Fits(f, n, 8 * b, k + 1)
<1> SUFFICES ASSUME NEW y \in 0..n, y < 8 * b PROVE Len(f[y]) <= k + 1
  BY DEF Fits
<1>1. f[y] = DigitsOf(f, y, r, chars)
  BY DEF AllDigits
<1>2. y \in Nat /\ r \in Nat
  OBVIOUS
<1>3. CASE y < r
  <2>1. f[y] = <<chars[y + 1]>>
    BY <1>1, <1>3 DEF DigitsOf
  <2>2. Len(f[y]) = 1
    BY <2>1
  <2> QED
    BY <2>2
<1>4. CASE ~(y < r)
  <2>1. PICK z, c : z = y \div r /\ c = y % r
    OBVIOUS
  <2>2. z \in Nat /\ c \in 0..15 /\ z < y /\ z < b
    <3>1. y >= r
      BY <1>2, <1>4
    <3>2. y \div r \in Nat /\ y % r \in 0..15 /\ y \div r < y /\ y \div r < b
      BY <1>2, <3>1, DivisionFacts
    <3> QED
      BY <2>1, <3>2
  <2>3. z \in 0..n /\ c + 1 \in 1..16
    BY <2>2
  <2>4. chars[c + 1] \in A
    BY <2>3
  <2>5. f[z] \in Seq(A)
    BY <2>3 DEF Readable
  <2>6. Len(f[z]) <= k /\ Len(f[z]) \in Nat
    BY <2>2, <2>3, <2>5, LenProperties DEF Fits
  <2>7. f[y] = Append(f[z], chars[c + 1])
    BY <1>1, <1>4, <2>1 DEF DigitsOf
  <2>8. Len(f[y]) = Len(f[z]) + 1
    BY <2>4, <2>5, <2>7, AppendProperties
  <2> QED
    BY <2>6, <2>8
<1> QED
  BY <1>3, <1>4

\* With unsigned values of at most 32 bits, the first loop of putiradix
\* stores no more than 11 digits in any of vprintf's radices: the array
\* digits is as long as it has to be for octal.
THEOREM DigitsFitArray ==
    ASSUME NEW A, NEW r \in {8, 10, 16}, NEW chars \in [1..16 -> A], NEW x \in 0..(UMod - 1),
           UMod <= 4294967296
    PROVE  Len(Digits(x, r, chars)) <= 11
<1>1. PICK n \in Nat : n = UMod - 1
  BY UModAssumption
<1>2. PICK f : /\ AllDigits(f, UMod - 1, r, chars)
               /\ \A y : Digits(y, r, chars) = f[y]
  BY DigitsAre
<1>3. AllDigits(f, n, r, chars)
  BY <1>1, <1>2
<1>4. \A y \in 0..n : Readable(f[y], y, r, chars, A)
  BY <1>1, <1>2, DigitsReadBack
<1>5. \A b, k \in Nat : Fits(f, n, b, k) => Fits(f, n, 8 * b, k + 1)
  BY <1>3, <1>4, OneDigitMore
<1>6. Fits(f, n, 8, 1)
  BY <1>3, OneDigit
<1>7. Fits(f, n, 64, 2)
  BY <1>5, <1>6
<1>8. Fits(f, n, 512, 3)
  BY <1>5, <1>7
<1>9. Fits(f, n, 4096, 4)
  BY <1>5, <1>8
<1>10. Fits(f, n, 32768, 5)
  BY <1>5, <1>9
<1>11. Fits(f, n, 262144, 6)
  BY <1>5, <1>10
<1>12. Fits(f, n, 2097152, 7)
  BY <1>5, <1>11
<1>13. Fits(f, n, 16777216, 8)
  BY <1>5, <1>12
<1>14. Fits(f, n, 134217728, 9)
  BY <1>5, <1>13
<1>15. Fits(f, n, 1073741824, 10)
  BY <1>5, <1>14
<1>16. Fits(f, n, 8589934592, 11)
  BY <1>5, <1>15
<1>17. x \in 0..n /\ x < 8589934592
  BY <1>1, UModAssumption
<1>18. Len(f[x]) <= 11
  BY <1>16, <1>17 DEF Fits
<1> QED
  BY <1>2, <1>18

\* putiradix prints the number, behind as many fillers as the length asked
\* for leaves room for, and returns how many characters it printed.
THEOREM PutiradixExact ==
    ASSUME NEW A, NEW r \in {8, 10, 16}, NEW chars \in [1..16 -> A], NEW x \in 0..(UMod - 1),
           NEW min \in Nat, NEW filler \in A,
           NEW out, out = putiradix(x, r, chars, min, filler)
    PROVE  /\ out.ret = Len(out.text) /\ out.ret >= min
           /\ \E pad \in Nat : \E d :
                  /\ Readable(d, x, r, chars, A) /\ Len(out.text) = pad + Len(d)
                  /\ pad # 0 => Len(out.text) = min
                  /\ \A k \in 1..pad : out.text[k] = filler
                  /\ \A k \in 1..Len(d) : out.text[pad + k] = d[k]
<1>1. PICK d, m, len : d = Digits(x, r, chars) /\ m = Len(d) /\ len = min - Len(d)
  OBVIOUS
<1>2. Readable(d, x, r, chars, A)
  BY <1>1, DigitsReadBack
<1>3. d \in Seq(A) /\ m \in Nat /\ len \in Int
  BY <1>1, <1>2, LenProperties DEF Readable
<1>4. PICK pad \in Nat : pad = IF len > 0 THEN len ELSE 0
  BY <1>3
<1>5. PICK p : p = Padding(len, filler)
  OBVIOUS
<1>6. p = [k \in 1..pad |-> filler]
  <2>1. (IF len > 0 THEN 1..len ELSE {}) = 1..pad
    BY <1>3, <1>4
  <2> QED
    BY <1>5, <2>1 DEF Padding
<1>7. p \in Seq(A) /\ Len(p) = pad /\ \A k \in 1..pad : p[k] = filler
  <2>1. p \in [1..pad -> A] /\ DOMAIN p = 1..pad
    BY <1>6
  <2>2. p \in Seq(A)
    BY <2>1, SeqDef
  <2>3. Len(p) = pad
    <3>1. Len(p) \in Nat /\ 1..Len(p) = 1..pad
      BY <2>1, <2>2, LenProperties
    <3> QED
      BY <3>1
  <2> QED
    BY <1>6, <2>2, <2>3
<1>8. PICK t : t = p \o d
  OBVIOUS
<1>9. /\ Len(t) = Len(p) + Len(d)
      /\ \A k \in 1..(Len(p) + Len(d)) : t[k] = IF k <= Len(p) THEN p[k] ELSE d[k - Len(p)]
  BY <1>3, <1>7, <1>8, ConcatProperties
<1>10. /\ Len(t) = pad + m
       /\ \A k \in 1..(pad + m) : t[k] = IF k <= pad THEN p[k] ELSE d[k - pad]
  BY <1>1, <1>7, <1>9
<1>11. out.text = t /\ out.ret = IF min > m THEN min ELSE m
  BY <1>1, <1>5, <1>8 DEF putiradix
<1>12. out.ret = Len(out.text) /\ out.ret >= min /\ (pad # 0 => Len(out.text) = min)
  <2>1. Len(out.text) = pad + m
    BY <1>10, <1>11
  <2>2. len = min - m
    BY <1>1
  <2>3. (IF min > m THEN min ELSE m) = pad + m /\ pad + m >= min /\ (pad # 0 => pad + m = min)
    BY <1>3, <1>4, <2>2
  <2> QED
    BY <1>11, <2>1, <2>3
<1>13. ASSUME NEW k \in 1..pad PROVE out.text[k] = filler
  <2>1. k \in 1..(pad + m) /\ k <= pad
    BY <1>3
  <2> QED
    BY <1>7, <1>10, <1>11, <2>1
<1>14. ASSUME NEW k \in 1..m PROVE out.text[pad + k] = d[k]
  <2>1. PICK i : i = pad + k
    OBVIOUS
  <2>2. i \in 1..(pad + m) /\ ~(i <= pad) /\ i - pad = k
    BY <1>3, <2>1
  <2> QED
    BY <1>10, <1>11, <2>1, <2>2
<1>15. Len(out.text) = pad + Len(d) /\ \A k \in 1..Len(d) : out.text[pad + k] = d[k]
  BY <1>1, <1>10, <1>11, <1>14
<1>16. \A k \in 1..pad : out.text[k] = filler
  BY <1>13
<1> QED
  BY <1>2, <1>12, <1>15, <1>16, Zenon
=============================================================================
