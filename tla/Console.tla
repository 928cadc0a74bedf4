------------------------------- MODULE Console -------------------------------
(***************************************************************************)
(* The virtual console of kernel/arch/i686/drivers/tty.c: the text buffer  *)
(* of the screen, the position in it and the hardware cursor.              *)
(*                                                                         *)
(* Two actors write to it.  The main loop prints with interrupts enabled;  *)
(* it takes one step per access to what it shares, as in the build, where  *)
(* tty_putchar loads pos once, computes with that copy and stores it, and  *)
(* only tty_scroll subtracts from pos in memory.  The keyboard handler     *)
(* prints its warnings behind an interrupt gate: the main loop stands      *)
(* still until a message is complete, and each of its characters, cursor   *)
(* included, is one step.                                                  *)
(*                                                                         *)
(* The copies of tty_scroll are one step each: no property speaks of what  *)
(* the screen shows once a handler has interrupted them.                   *)
(***************************************************************************)
EXTENDS Integers, Sequences

CONSTANTS
    Width, Height,  \* VGA_WIDTH and VGA_HEIGHT, 80 and 25 in the code
    TabSize,        \* TAB_SIZE, 8 in the code
    Byte,           \* values of a cursor register, 256 in the code
    Chars,          \* the characters that are printed
    Texts,          \* what the main loop prints: each a sequence of writes
    Messages,       \* what the handler prints: each a sequence of characters
    MaxTexts,       \* bound: texts the main loop prints
    MaxMessages     \* bound: messages the handler prints

Size == Width * Height

ASSUME ScreenAssumption ==
    /\ TabSize \in Nat \ {0}
    /\ Width \in Nat \ {0} /\ Width % TabSize = 0
    /\ Height \in Nat \ {0, 1}
    /\ Byte \in Nat \ {0} /\ Size < Byte * Byte
ASSUME TextsAssumption ==
    /\ Texts \subseteq Seq(Seq(Chars)) \ {<<>>}
    /\ MaxTexts \in Nat /\ MaxMessages \in Nat

VARIABLES
    vga_buffer,             \* cell |-> character; cell Size is behind the screen
    pos,
    processing_sequence,
    pc,                     \* the next access of the main loop
    reg,                    \* pos, or the lines to scroll, in a register
    text,                   \* writes still to do, the first one in progress
    msg,                    \* rest of the message the handler prints
    index,                  \* the selected register of the VGA controller
    cursor,                 \* its two cursor registers
    texts, msgs,            \* texts and messages still to come
    log,                    \* history: what was printed since the screen was cleared
    raced                   \* history: what of the main loop the handler hit

hardware == <<index, cursor>>
history  == <<log, raced>>
vars == <<vga_buffer, pos, processing_sequence, pc, reg, text, msg, hardware,
          texts, msgs, history>>

FF    == "\f"
ESC   == "ESC"
Blank == "blank"    \* a cell cleared by memset
Old   == "old"    \* a cell as the firmware left it

\* The warnings of the handler are fixed texts with a number in them; none of
\* them clears the screen.
ASSUME MessagesAssumption == Messages \subseteq Seq(Chars \ {FF})

Control == {"\n", "\r", "\t", FF, ESC}

Cells == 0..Size

\* The main loop is inside tty_putchar, or inside tty_set_cursor.
Scrolling  == pc \in {"move", "blank", "subtract"}
InPutchar  == pc \in {"put", "advance", "home"} \/ Scrolling
InCursor   == pc \in {"lo_index", "lo_data", "hi_index", "hi_data"}
-----------------------------------------------------------------------------
(***************************************************************************)
(* What tty_putchar and tty_scroll compute.                                *)
(***************************************************************************)
NextPos(p, ch) ==
    CASE ch \in {"\n", "\r"} -> (p \div Width + 1) * Width
      [] ch = "\t"           -> (p \div TabSize + 1) * TabSize
      [] ch = FF             -> 0
      [] ch = ESC            -> p
      [] OTHER               -> p + 1

\* Mutant: one line more is scrolled than there is to scroll.
LinesOneMore(p) == IF p >= Size THEN (p - Size) \div Width + 2 ELSE 0

\* Mutant: the comparison with the size of the buffer is off by one.
LinesAbove(p) == IF p > Size THEN (p - Size) \div Width + 1 ELSE 0

\* How many lines tty_scroll is called for, 0 if it is not called.
Lines(p) == IF p >= Size THEN (p - Size) \div Width + 1 ELSE 0

Moved(vga, lines) ==
    [c \in Cells |-> IF c < Size - lines * Width THEN vga[c + lines * Width] ELSE vga[c]]

\* Mutant: the lines that become free are not cleared.
BlankedNot(vga, lines) == vga

Blanked(vga, lines) ==
    [c \in Cells |-> IF c >= Size - lines * Width /\ c < Size THEN Blank ELSE vga[c]]

Cleared(vga) == [c \in Cells |-> IF c < Size THEN Blank ELSE vga[c]]

Drawn(vga, p, ch) ==
    CASE ch = FF               -> Cleared(vga)
      [] ch \in Control \ {FF} -> vga
      [] OTHER                 -> [vga EXCEPT ![p] = ch]

\* The history of what was printed ends with the first race.
Logged(ch) ==
    IF "char" \in raced THEN <<>> ELSE IF ch = FF THEN <<FF>> ELSE Append(log, ch)
-----------------------------------------------------------------------------
(***************************************************************************)
(* The main loop.                                                          *)
(***************************************************************************)
PrintText ==
    /\ pc = "idle" /\ texts > 0 /\ msg = <<>>
    /\ \E t \in Texts : text' = t
    /\ texts' = texts - 1
    /\ pc' = "char"
    /\ UNCHANGED <<vga_buffer, pos, processing_sequence, reg, msg, hardware, msgs, history>>

Ch == Head(Head(text))

At(label) == pc = label /\ msg = <<>>

\* The end of tty_putchar, back in the loop of vconsole_write.
CharDone ==
    /\ pc' = "char"
    /\ text' = <<Tail(Head(text))>> \o Tail(text)
    /\ log' = Logged(Ch)

\* The end of tty_putchar, computed from the value of pos in a register.
ScrollIfNeeded(p) ==
    \/ Lines(p) > 0 /\ pc' = "move" /\ reg' = Lines(p) /\ UNCHANGED <<text, log>>
    \/ Lines(p) = 0 /\ CharDone /\ UNCHANGED reg

LoadPos ==
    /\ At("char") /\ Head(text) # <<>> /\ Ch # FF
    /\ reg' = pos
    /\ pc' = "put"
    /\ UNCHANGED <<vga_buffer, pos, processing_sequence, text, msg, hardware, texts, msgs,
                   history>>

PutControl ==
    /\ At("put") /\ Ch \in Control
    /\ pos' = IF Ch = ESC THEN pos ELSE NextPos(reg, Ch)
    /\ processing_sequence' = (processing_sequence \/ Ch = ESC)
    /\ ScrollIfNeeded(NextPos(reg, Ch))
    /\ UNCHANGED <<vga_buffer, msg, hardware, texts, msgs, raced>>

PutVisible ==
    /\ At("put") /\ Ch \notin Control
    /\ vga_buffer' = Drawn(vga_buffer, reg, Ch)
    /\ pc' = "advance"
    /\ UNCHANGED <<pos, processing_sequence, reg, text, msg, hardware, texts, msgs, history>>

Advance ==
    /\ At("advance")
    /\ pos' = reg + 1
    /\ ScrollIfNeeded(reg + 1)
    /\ UNCHANGED <<vga_buffer, processing_sequence, msg, hardware, texts, msgs, raced>>

ScrollMove ==
    /\ At("move")
    /\ vga_buffer' = Moved(vga_buffer, reg)
    /\ pc' = "blank"
    /\ UNCHANGED <<pos, processing_sequence, reg, text, msg, hardware, texts, msgs, history>>

ScrollBlank ==
    /\ At("blank")
    /\ vga_buffer' = Blanked(vga_buffer, reg)
    /\ pc' = "subtract"
    /\ UNCHANGED <<pos, processing_sequence, reg, text, msg, hardware, texts, msgs, history>>

ScrollSubtract ==
    /\ At("subtract")
    /\ pos' = pos - reg * Width
    /\ CharDone
    /\ UNCHANGED <<vga_buffer, processing_sequence, reg, msg, hardware, texts, msgs, raced>>

FormFeed ==
    /\ At("char") /\ Head(text) # <<>> /\ Ch = FF
    /\ vga_buffer' = Cleared(vga_buffer)
    /\ raced' = raced \ {"char"}
    /\ pc' = "home"
    /\ UNCHANGED <<pos, processing_sequence, reg, text, msg, hardware, texts, msgs, log>>

FormFeedHome ==
    /\ At("home")
    /\ pos' = 0
    /\ CharDone
    /\ UNCHANGED <<vga_buffer, processing_sequence, reg, msg, hardware, texts, msgs, raced>>

\* tty_set_cursor(pos): its argument, then four writes to ports.
CursorLoad ==
    /\ At("char") /\ Head(text) = <<>>
    /\ reg' = pos
    /\ raced' = raced \ {"cursor"}
    /\ pc' = "lo_index"
    /\ UNCHANGED <<vga_buffer, pos, processing_sequence, text, msg, hardware, texts, msgs, log>>

SelectRegister(at, register, then) ==
    /\ At(at)
    /\ index' = register
    /\ pc' = then
    /\ UNCHANGED <<vga_buffer, pos, processing_sequence, reg, text, msg, cursor, texts, msgs,
                   history>>

CursorLoIndex == SelectRegister("lo_index", "LO", "lo_data")
CursorHiIndex == SelectRegister("hi_index", "HI", "hi_data")

CursorLoData ==
    /\ At("lo_data")
    /\ cursor' = [cursor EXCEPT ![index] = reg % Byte]
    /\ pc' = "hi_index"
    /\ UNCHANGED <<vga_buffer, pos, processing_sequence, reg, text, msg, index, texts, msgs,
                   history>>

\* Mutant: the low byte is written to both registers.
HiByteLow(p) == p % Byte

HiByte(p) == p \div Byte

CursorHiData ==
    /\ At("hi_data")
    /\ cursor' = [cursor EXCEPT ![index] = HiByte(reg)]
    /\ text' = Tail(text)
    /\ pc' = IF Tail(text) = <<>> THEN "idle" ELSE "char"
    /\ UNCHANGED <<vga_buffer, pos, processing_sequence, reg, msg, index, texts, msgs, history>>

tty_putchar ==
    \/ LoadPos \/ PutControl \/ PutVisible \/ Advance
    \/ ScrollMove \/ ScrollBlank \/ ScrollSubtract
    \/ FormFeed \/ FormFeedHome

tty_set_cursor ==
    CursorLoad \/ CursorLoIndex \/ CursorLoData \/ CursorHiIndex \/ CursorHiData

vconsole_write == PrintText \/ tty_putchar \/ tty_set_cursor
-----------------------------------------------------------------------------
(***************************************************************************)
(* The keyboard handler prints: an unknown scancode, or an unsupported set.*)
(***************************************************************************)
Interrupt ==
    /\ msgs > 0 /\ msg = <<>>
    /\ \E m \in Messages : msg' = m
    /\ msgs' = msgs - 1
    /\ raced' = raced \cup {h \in {"char", "scroll", "cursor"} :
                                \/ h = "char"   /\ InPutchar
                                \/ h = "scroll" /\ Scrolling
                                \/ h = "cursor" /\ InCursor}
    /\ log' = IF InPutchar THEN <<>> ELSE log
    /\ UNCHANGED <<vga_buffer, pos, processing_sequence, pc, reg, text, hardware, texts>>

\* Each character of the handler's printf is a vconsole_write of its own.
HandlerPutchar ==
    /\ msg # <<>>
    /\ LET ch == Head(msg)
           p  == NextPos(pos, ch)
       IN  /\ vga_buffer' = Blanked(Moved(Drawn(vga_buffer, pos, ch), Lines(p)), Lines(p))
           /\ pos' = p - Lines(p) * Width
           /\ processing_sequence' = (processing_sequence \/ ch = ESC)
           /\ log' = Logged(ch)
    /\ cursor' = [LO |-> pos' % Byte, HI |-> HiByte(pos')]
    /\ index' = "HI"
    /\ msg' = Tail(msg)
    /\ raced' = IF InCursor THEN raced ELSE raced \ {"cursor"}
    /\ UNCHANGED <<pc, reg, text, texts, msgs>>

ps2_key_pressed == Interrupt \/ HandlerPutchar
-----------------------------------------------------------------------------
\* The cursor has not been set yet.
Init ==
    /\ vga_buffer = [c \in Cells |-> Old] /\ pos = 0
    /\ processing_sequence = FALSE
    /\ pc = "idle" /\ reg = 0 /\ text = <<>> /\ msg = <<>>
    /\ index = "HI" /\ cursor = [LO |-> 0, HI |-> 0]
    /\ texts = MaxTexts /\ msgs = MaxMessages
    /\ log = <<>> /\ raced = {"cursor"}

Next == vconsole_write \/ ps2_key_pressed

Spec == Init /\ [][Next]_vars
-----------------------------------------------------------------------------
(***************************************************************************)
(* Reference: a roll of paper of which the screen shows the last lines.    *)
(***************************************************************************)

\* The next column that is a multiple of w.
NextStop(p, w) == CHOOSE q \in (p + 1)..(p + w) : q % w = 0

\* Where on the paper the first k characters of the log end.
PaperPos ==
    LET after[k \in 0..Len(log)] ==
            IF k = 0 \/ log[k] = FF THEN 0
            ELSE CASE log[k] \in {"\n", "\r"} -> NextStop(after[k - 1], Width)
                   [] log[k] = "\t"           -> NextStop(after[k - 1], TabSize)
                   [] log[k] = ESC            -> after[k - 1]
                   [] OTHER                   -> after[k - 1] + 1
    IN  after

Paper(cell) ==
    LET at == {k \in 1..Len(log) : log[k] \notin Control /\ PaperPos[k - 1] = cell}
    IN  IF at # {} THEN log[CHOOSE k \in at : TRUE]
        ELSE IF cell < Size /\ (log = <<>> \/ log[1] # FF) THEN Old ELSE Blank

\* The first line of the paper that is on the screen.
Top ==
    LET row == PaperPos[Len(log)] \div Width
    IN  IF row < Height THEN 0 ELSE row - Height + 1
-----------------------------------------------------------------------------
(***************************************************************************)
(* Properties.                                                             *)
(***************************************************************************)
Labels ==
    {"idle", "char", "put", "advance", "move", "blank", "subtract", "home",
     "lo_index", "lo_data", "hi_index", "hi_data"}

\* Type invariant: pos may reach the end of the screen, never more.
TypeOK ==
    /\ vga_buffer \in [Cells -> Chars \cup {Blank, Old}]
    /\ pos \in 0..Size
    /\ processing_sequence \in BOOLEAN
    /\ pc \in Labels
    /\ reg \in 0..Size
    /\ text \in Seq(Seq(Chars)) /\ msg \in Seq(Chars)
    /\ index \in {"LO", "HI"} /\ cursor \in [{"LO", "HI"} -> 0..(Byte - 1)]
    /\ texts \in 0..MaxTexts /\ msgs \in 0..MaxMessages
    /\ log \in Seq(Chars) /\ raced \subseteq {"char", "scroll", "cursor"}

\* Whenever a handler interrupts tty_putchar, even between the check of pos
\* and the subtraction that follows from it, pos does not underflow, a
\* character is stored to a cell of the screen, and pos is on the screen
\* again when tty_putchar returns.
PosOnScreen ==
    /\ TypeOK
    /\ ~Scrolling => pos \in 0..(Size - 1)
    /\ Scrolling => pos >= reg * Width
    /\ pc \in {"put", "advance"} => reg < Size

\* A character is lost behind the end of the screen only if a handler prints
\* while the main loop scrolls.
BehindScreen == vga_buffer[Size] # Old => "scroll" \in raced

\* As long as no handler interrupts a character, whatever it prints between
\* the characters and writes of the main loop, the screen shows the last
\* lines of what was printed, each character once and at its place.  Clearing
\* the screen repairs it after a race.
ScreenShowsLog ==
    "char" \notin raced /\ ~InPutchar =>
        /\ pos = PaperPos[Len(log)] - Top * Width
        /\ \A c \in 0..(Size - 1) : vga_buffer[c] = Paper(Top * Width + c)

\* Between two writes the hardware cursor is at pos, unless a handler hit the
\* four port writes of the last one; the next write puts it right again.
CursorAtPos ==
    pc = "idle" /\ msg = <<>> /\ "cursor" \notin raced =>
        cursor.HI * Byte + cursor.LO = pos
=============================================================================
