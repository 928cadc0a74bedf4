------------------------------ MODULE Keyboard ------------------------------
(***************************************************************************)
(* The keyboard queue of kernel/drivers/kb.c: the characters typed so far  *)
(* and not yet read, and the state of the modifier keys.                   *)
(*                                                                         *)
(* Two actors share input_queue and queue_idx.  kb_key_pressed and         *)
(* kb_key_released run inside the keyboard interrupt handler, behind an    *)
(* interrupt gate on one processor: a call is one atomic step.             *)
(* vconsole_read runs in the kernel's main loop with interrupts enabled,   *)
(* so the handler may run between any two of its accesses to the shared    *)
(* variables.  The reader below takes one step per such access: it loads   *)
(* queue_idx, copies one character at a time, loads queue_idx again to     *)
(* find how much is left, loads and stores each character it moves, and    *)
(* subtracts n from queue_idx in one instruction.                          *)
(*                                                                         *)
(* A character in the queue is represented by its position in typed, the   *)
(* sequence of all characters accepted so far, so that two presses of the  *)
(* same key can be told apart; 0 stands for a cell never written.          *)
(***************************************************************************)
EXTENDS Integers, Sequences, FiniteSets

CONSTANTS
    QueueLen,   \* VC_KEY_QUEUE_LEN, 256 in the code
    ReadMax,    \* the size the main loop asks for, 10 in the code
    MaxTyped,   \* bound: how many characters are typed
    Keycodes    \* the keys that exist on the keyboard

ASSUME QueueLenAssumption == QueueLen \in Nat \ {0}
ASSUME ReadMaxAssumption  == ReadMax \in Nat \ {0}
ASSUME MaxTypedAssumption == MaxTyped \in Nat
ASSUME KeycodesAssumption == Keycodes \subseteq 0..255

VARIABLES
    input_queue,    \* cell |-> position in typed, 0 if never written
    queue_idx,      \* number of characters in the queue
    modifiers,      \* the modifier bits that are set
    pc,             \* where vconsole_read is: "idle", "copy", "move" or "store"
    n,              \* how many characters this read returns
    i,              \* index of the loop inside memcpy or memmove
    cnt,            \* third argument of the reader's memmove
    reg,            \* the character memmove has loaded and not yet stored
    buf,            \* characters copied to the caller's buffer so far
    typed,          \* history: every character accepted
    delivered,      \* history: what the completed reads returned
    dropped,        \* history: positions thrown away by a full queue
    races           \* history: characters that arrived while a read was exposed

queueVars  == <<input_queue, queue_idx>>
readerVars == <<pc, n, i, cnt, reg, buf, delivered>>
histVars   == <<typed, dropped, races>>
vars == <<queueVars, modifiers, readerVars, histVars>>

Cells == 0..(QueueLen - 1)
Modifiers == {"LSHIFT", "RSHIFT", "LCTRL", "RCTRL", "LALT", "RALT", "CAPS"}
SHIFT == {"LSHIFT", "RSHIFT"}
CTRL  == {"LCTRL", "RCTRL"}

Smaller(a, b) == IF a < b THEN a ELSE b
-----------------------------------------------------------------------------
(***************************************************************************)
(* The key tables.                                                         *)
(***************************************************************************)

\* The keys that set a modifier while they are held.
ModifierKey(keycode) ==
    CASE keycode = \h80 -> "LSHIFT"
      [] keycode = \h8B -> "RSHIFT"
      [] keycode = \hA0 -> "LCTRL"
      [] keycode = \hA7 -> "RCTRL"
      [] keycode = \hA2 -> "LALT"
      [] keycode = \hA4 -> "RALT"
      [] OTHER          -> "none"

CapsKey == \h60

\* The slice of the table with the keys the models press; 0 is "not mapped".
keycode_to_char(shift, keycode) ==
    CASE keycode = \h21 -> IF shift THEN \h21 ELSE \h31      \* '!' and '1'
      [] keycode = \h61 -> IF shift THEN \h41 ELSE \h61      \* 'A' and 'a'
      [] keycode = \h6C -> \h0A                              \* newline
      [] keycode = \hA3 -> \h20                              \* space
      [] OTHER          -> 0

kb_get_mod(mods) == modifiers \cap mods # {}

kb_set_mod(mod, value) ==
    modifiers' = IF value THEN modifiers \cup {mod} ELSE modifiers \ {mod}

\* The character a key stands for under the present modifiers, 0 if none.
CharOf(keycode) ==
    LET shift == kb_get_mod(SHIFT) # kb_get_mod({"CAPS"})
        ch    == keycode_to_char(shift, keycode)
    IN  IF ch # 0 /\ kb_get_mod(CTRL) THEN ch % 32 ELSE ch
-----------------------------------------------------------------------------
(***************************************************************************)
(* The interrupt side.                                                     *)
(***************************************************************************)

\* memmove(input_queue, &input_queue[1], queue_idx - 1): the oldest goes.
ShiftedByOne ==
    [c \in Cells |-> IF c < queue_idx - 1 THEN input_queue[c + 1]
                                          ELSE input_queue[c]]

Moving == pc \in {"move", "store"}

\* Is a read exposed to a character that arrives now?  It is while it moves
\* the rest of the queue, whose length it has computed already, and, if the
\* queue is full and has to be shifted, from its first copied character on.
Exposed(full) ==
    \/ Moving /\ n > 0
    \/ pc = "copy" /\ i > 0 /\ full

\* Mutant: the check for a full queue is forgotten.
EnqueueUnchecked(ch) ==
    /\ input_queue' = [input_queue EXCEPT ![queue_idx] = Len(typed) + 1]
    /\ queue_idx' = queue_idx + 1
    /\ typed' = Append(typed, ch)
    /\ UNCHANGED dropped
    /\ races' = races + IF Exposed(FALSE) THEN 1 ELSE 0

\* Mutant: input_queue[++queue_idx] = ch.
EnqueuePreIncrement(ch) ==
    /\ input_queue' = [input_queue EXCEPT ![queue_idx + 1] = Len(typed) + 1]
    /\ queue_idx' = Smaller(queue_idx + 1, QueueLen)
    /\ typed' = Append(typed, ch)
    /\ UNCHANGED dropped
    /\ races' = races + IF Exposed(FALSE) THEN 1 ELSE 0

\* Mutant: a full queue is not shifted, the newest character is overwritten.
EnqueueOverNewest(ch) ==
    LET full == queue_idx >= QueueLen
        idx  == IF full THEN queue_idx - 1 ELSE queue_idx
    IN  /\ input_queue' = [input_queue EXCEPT ![idx] = Len(typed) + 1]
        /\ queue_idx' = idx + 1
        /\ typed' = Append(typed, ch)
        /\ dropped' = IF full THEN dropped \cup {input_queue[0]} ELSE dropped
        /\ races' = races + IF Exposed(full) THEN 1 ELSE 0

Enqueue(ch) ==
    LET full == queue_idx >= QueueLen
        q    == IF full THEN ShiftedByOne ELSE input_queue
        idx  == IF full THEN queue_idx - 1 ELSE queue_idx
    IN  /\ input_queue' = [q EXCEPT ![idx] = Len(typed) + 1]
        /\ queue_idx' = idx + 1
        /\ typed' = Append(typed, ch)
        /\ dropped' = IF full THEN dropped \cup {input_queue[0]} ELSE dropped
        /\ races' = races + IF Exposed(full) THEN 1 ELSE 0

ModifierPressed(keycode) ==
    /\ ModifierKey(keycode) # "none"
    /\ kb_set_mod(ModifierKey(keycode), TRUE)
    /\ UNCHANGED <<queueVars, histVars>>

CapsPressed(keycode) ==
    /\ keycode = CapsKey
    /\ kb_set_mod("CAPS", ~kb_get_mod({"CAPS"}))
    /\ UNCHANGED <<queueVars, histVars>>

OtherPressed(keycode) ==
    /\ ModifierKey(keycode) = "none"
    /\ keycode # CapsKey
    /\ IF CharOf(keycode) = 0 THEN UNCHANGED <<queueVars, histVars>>
                              ELSE Enqueue(CharOf(keycode))
    /\ UNCHANGED modifiers

kb_key_pressed(keycode) ==
    /\ \/ ModifierPressed(keycode)
       \/ CapsPressed(keycode)
       \/ OtherPressed(keycode)
    /\ UNCHANGED readerVars

kb_key_released(keycode) ==
    /\ IF ModifierKey(keycode) = "none"
       THEN UNCHANGED modifiers
       ELSE kb_set_mod(ModifierKey(keycode), FALSE)
    /\ UNCHANGED <<queueVars, readerVars, histVars>>
-----------------------------------------------------------------------------
(***************************************************************************)
(* The main loop: vconsole_read(buf, ReadMax), over and over.              *)
(***************************************************************************)

\* Mutant: n is not limited to what the queue holds.
ReadStartUnlimited ==
    /\ pc = "idle"
    /\ n' = ReadMax
    /\ i' = 0
    /\ buf' = <<>>
    /\ pc' = "copy"
    /\ UNCHANGED <<queueVars, modifiers, cnt, reg, delivered, histVars>>

\* Mutant: the read waits until it can fill the caller's buffer.
ReadStartBlocking ==
    /\ pc = "idle"
    /\ queue_idx >= ReadMax
    /\ n' = ReadMax
    /\ i' = 0
    /\ buf' = <<>>
    /\ pc' = "copy"
    /\ UNCHANGED <<queueVars, modifiers, cnt, reg, delivered, histVars>>

\* n = queue_idx < n ? queue_idx : n
ReadStart ==
    /\ pc = "idle"
    /\ n' = Smaller(queue_idx, ReadMax)
    /\ i' = 0
    /\ buf' = <<>>
    /\ pc' = "copy"
    /\ UNCHANGED <<queueVars, modifiers, cnt, reg, delivered, histVars>>

\* One iteration of memcpy.
ReadCopy ==
    /\ pc = "copy"
    /\ i < n
    /\ buf' = Append(buf, input_queue[i])
    /\ i' = i + 1
    /\ UNCHANGED <<queueVars, modifiers, pc, n, cnt, reg, delivered, histVars>>

\* Mutant: the rest of the queue is not moved forward.
ReadRestNoMove ==
    /\ pc = "copy"
    /\ i = n
    /\ cnt' = 0
    /\ i' = 0
    /\ pc' = "move"
    /\ UNCHANGED <<queueVars, modifiers, n, reg, buf, delivered, histVars>>

\* memcpy returns and the length of the rest is computed.
ReadRest ==
    /\ pc = "copy"
    /\ i = n
    /\ cnt' = queue_idx - n
    /\ i' = 0
    /\ pc' = "move"
    /\ UNCHANGED <<queueVars, modifiers, n, reg, buf, delivered, histVars>>

\* One iteration of memmove, a load and a store.  It copies nothing when
\* n = 0, since its source is its destination.
ReadMove ==
    /\ pc = "move"
    /\ n > 0
    /\ i < cnt
    /\ reg' = input_queue[n + i]
    /\ pc' = "store"
    /\ UNCHANGED <<queueVars, modifiers, n, i, cnt, buf, delivered, histVars>>

ReadStore ==
    /\ pc = "store"
    /\ input_queue' = [input_queue EXCEPT ![i] = reg]
    /\ i' = i + 1
    /\ reg' = 0
    /\ pc' = "move"
    /\ UNCHANGED <<queue_idx, modifiers, n, cnt, buf, delivered, histVars>>

\* queue_idx -= n; return n.  The locals are gone.
ReadDone ==
    /\ pc = "move"
    /\ n = 0 \/ i = cnt
    /\ queue_idx' = queue_idx - n
    /\ delivered' = delivered \o buf
    /\ pc' = "idle"
    /\ n' = 0 /\ i' = 0 /\ cnt' = 0 /\ buf' = <<>>
    /\ UNCHANGED <<input_queue, modifiers, reg, histVars>>

vconsole_read ==
    \/ ReadStart \/ ReadCopy \/ ReadRest
    \/ ReadMove \/ ReadStore \/ ReadDone
-----------------------------------------------------------------------------
Init ==
    /\ input_queue = [c \in Cells |-> 0]
    /\ queue_idx = 0
    /\ modifiers = {}
    /\ pc = "idle" /\ n = 0 /\ i = 0 /\ cnt = 0 /\ reg = 0 /\ buf = <<>>
    /\ typed = <<>> /\ delivered = <<>> /\ dropped = {} /\ races = 0

Press ==
    /\ Len(typed) < MaxTyped
    /\ \E keycode \in Keycodes : kb_key_pressed(keycode)

Release == \E keycode \in Keycodes : kb_key_released(keycode)

Next == Press \/ Release \/ vconsole_read

Spec == Init /\ [][Next]_vars

\* The main loop of hlinit is while (1), and the handler always returns.
FairSpec == Spec /\ WF_vars(vconsole_read)
-----------------------------------------------------------------------------
(***************************************************************************)
(* Properties.                                                             *)
(***************************************************************************)

\* Positions in typed, and 0 for a cell never written.
Positions == 0..Len(typed)

\* Type invariant of the variables of kb.c, the locals of vconsole_read and
\* the histories.
TypeOK ==
    /\ input_queue \in [Cells -> Positions]
    /\ queue_idx \in 0..QueueLen
    /\ modifiers \subseteq Modifiers
    /\ pc \in {"idle", "copy", "move", "store"}
    /\ n \in 0..ReadMax
    /\ i \in 0..QueueLen
    /\ cnt \in 0..QueueLen
    /\ reg \in Positions
    /\ typed \in Seq(0..255)
    /\ buf \in Seq(Positions)
    /\ delivered \in Seq(Positions)
    /\ dropped \subseteq Positions
    /\ races \in Nat

\* vconsole_read uses a value of queue_idx it loaded earlier.  Whatever the
\* handler does in between, the characters it copies and moves are still
\* inside the queue, and neither queue_idx - n underflows.
ReadWithinQueue ==
    /\ pc # "idle" => n <= queue_idx
    /\ pc = "copy" => i <= n
    /\ Moving => n + cnt <= queue_idx /\ i <= cnt
    /\ pc = "store" => n > 0 /\ i < cnt

\* No read, whatever interrupts it, hands out a cell that no key press ever
\* filled.
OnlyTypedDelivered ==
    \A k \in 1..Len(delivered) : delivered[k] \in 1..Len(typed)

\* Unless a character arrived while a read was exposed, the reads return
\* characters in the order they were typed, and none of them twice.
DeliveredInOrder ==
    races = 0 => \A k, l \in 1..Len(delivered) :
                  k < l => delivered[k] < delivered[l]

Delivered == {delivered[k] : k \in 1..Len(delivered)}
Queued    == {input_queue[c] : c \in 0..(queue_idx - 1)}

\* Between two reads every character typed was delivered, is still queued,
\* or is one of the oldest that a full queue threw away.
EveryInputAccounted ==
    pc = "idle" => 1..Len(typed) = Delivered \cup Queued \cup dropped

\* A character that arrives while a read is exposed costs at most one of the
\* characters typed: the damage of the race does not spread.
LossBoundedByRaces ==
    pc = "idle" =>
        Cardinality(1..Len(typed) \ (Delivered \cup Queued \cup dropped)) <= races

\* The same, unless a character arrived while a read was exposed.
NoSilentLoss == races = 0 => EveryInputAccounted

\* The main loop reads every character that is typed, unless the queue
\* overflows or the character arrives while a read is exposed.
EventuallyRead ==
    \A p \in 1..MaxTyped :
        (p <= Len(typed)) ~> (p \in Delivered \cup dropped \/ races > 0)
=============================================================================
