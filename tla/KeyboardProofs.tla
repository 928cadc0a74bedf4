--------------------------- MODULE KeyboardProofs ---------------------------
(***************************************************************************)
(* Proofs about Keyboard, for every queue length, read size and keyboard,  *)
(* and about the decoder on top of it.                                     *)
(*                                                                         *)
(* ReadWithinQueue is inductive together with TypeOK.  The other results   *)
(* need to know what the queue holds at every point of a read: QueueFilled *)
(* says that its cells hold characters that were typed, Fifo which ones,   *)
(* as long as no character arrived while a read was exposed.  LossBound    *)
(* says what is lost after a race, and Ps2Inv where the bytes on the wire  *)
(* lead the decoder and the modifiers.                                     *)
(***************************************************************************)
EXTENDS Ps2Keyboard, FiniteSetTheorems, SequenceTheorems, TLAPS

\* The characters that left the queue are typed[1] to typed[Left].
Left == Len(typed) - queue_idx

\* Every cell below queue_idx, and every character copied out of it, holds a
\* character that was typed.
QueueFilled ==
    /\ \A c \in 0..(queue_idx - 1) : input_queue[c] \in 1..Len(typed)
    /\ \A k \in 1..Len(buf) : buf[k] \in 1..Len(typed)
    /\ pc = "store" => reg \in 1..Len(typed)
    /\ OnlyTypedDelivered
    /\ dropped \subseteq 1..Len(typed)

BufLength ==
    /\ pc = "copy" => Len(buf) = i
    /\ Moving => Len(buf) = n

\* Where each character is in the queue while it is moved forward.
QueueOrdered ==
    IF Moving /\ n > 0
    THEN /\ n + cnt = queue_idx
         /\ pc = "store" => reg = Left + n + 1 + i
         /\ \A c \in 0..(queue_idx - 1) :
                input_queue[c] = IF c < i THEN Left + n + 1 + c ELSE Left + 1 + c
    ELSE \A c \in 0..(queue_idx - 1) : input_queue[c] = Left + 1 + c

BufOrdered ==
    pc # "idle" => \A k \in 1..Len(buf) : buf[k] = Left + k

DeliveredOrdered ==
    /\ \A k \in 1..Len(delivered) : delivered[k] <= Left
    /\ \A k, l \in 1..Len(delivered) : k < l => delivered[k] < delivered[l]

LeftAccounted ==
    \A p \in 1..Left :
        p \in dropped \/ \E k \in 1..Len(delivered) : delivered[k] = p

Fifo ==
    races = 0 => /\ QueueOrdered
                 /\ BufOrdered
                 /\ DeliveredOrdered
                 /\ LeftAccounted

Bounds == TypeOK /\ ReadWithinQueue /\ Left >= 0

IInv == Bounds /\ QueueFilled /\ BufLength /\ Fifo
-----------------------------------------------------------------------------
\* Every entry of the key table, with or without ctrl, fits in a char.
LEMMA CharOfType == \A keycode : CharOf(keycode) \in 0..255
<1>1. \A s \in BOOLEAN : \A k : keycode_to_char(s, k) \in 0..127
  BY DEF keycode_to_char
<1>2. TAKE keycode
<1> DEFINE sh == kb_get_mod(SHIFT) # kb_get_mod({"CAPS"})
<1>3. sh \in BOOLEAN
  OBVIOUS
<1>4. keycode_to_char(sh, keycode) \in 0..127
  BY <1>1, <1>3
<1> HIDE DEF sh
<1>5. \A x \in 0..127 : x % 32 \in 0..255
  OBVIOUS
<1>6. CharOf(keycode) = IF keycode_to_char(sh, keycode) # 0 /\ kb_get_mod(CTRL)
                        THEN keycode_to_char(sh, keycode) % 32
                        ELSE keycode_to_char(sh, keycode)
  BY DEF CharOf, sh
<1> QED
  BY <1>4, <1>5, <1>6

\* The two ways kb_key_pressed and kb_key_released touch the state: only the
\* modifiers change, or a character is added to the queue.
ModifiersOnly ==
    /\ modifiers' \subseteq Modifiers
    /\ UNCHANGED <<queueVars, readerVars, histVars>>

Arrival ==
    /\ \E ch \in 0..255 : Enqueue(ch)
    /\ UNCHANGED <<modifiers, readerVars>>

\* A call of either function of the handler, with any keycode, changes the
\* modifiers or adds one character.
LEMMA HandlerCall ==
    ASSUME TypeOK, NEW k, kb_key_pressed(k) \/ kb_key_released(k)
    PROVE  ModifiersOnly \/ Arrival
<1>1. ModifierKey(k) # "none" => ModifierKey(k) \in Modifiers
  BY DEF ModifierKey, Modifiers
<1>2. CASE kb_key_pressed(k)
  <2>2. CASE ModifierPressed(k)
    BY <1>1, <1>2, <2>2
    DEF kb_key_pressed, ModifierPressed, ModifiersOnly, kb_set_mod, TypeOK
  <2>3. CASE CapsPressed(k)
    BY <1>2, <2>3
    DEF kb_key_pressed, CapsPressed, ModifiersOnly, kb_set_mod, TypeOK, Modifiers
  <2>4. CASE OtherPressed(k)
    <3>1. CASE CharOf(k) = 0
      BY <1>2, <2>4, <3>1
      DEF kb_key_pressed, OtherPressed, ModifiersOnly, TypeOK
    <3>2. CASE CharOf(k) # 0
      BY <1>2, <2>4, <3>2, CharOfType DEF kb_key_pressed, OtherPressed, Arrival
    <3> QED
      BY <3>1, <3>2
  <2> QED
    BY <1>2, <2>2, <2>3, <2>4 DEF kb_key_pressed
<1>3. CASE kb_key_released(k)
  BY <1>3 DEF kb_key_released, ModifiersOnly, kb_set_mod, TypeOK
<1> QED
  BY <1>2, <1>3

\* What the specification's handler steps do.
LEMMA HandlerCases ==
    ASSUME TypeOK, Press \/ Release
    PROVE  ModifiersOnly \/ Arrival
  BY HandlerCall DEF Press, Release
-----------------------------------------------------------------------------
(***************************************************************************)
(* Types and bounds.                                                       *)
(***************************************************************************)

\* Growing typed keeps what was a sequence of positions one.
LEMMA PositionsGrow ==
    ASSUME NEW m \in Nat, NEW s \in Seq(0..m)
    PROVE  s \in Seq(0..(m + 1))
  OBVIOUS

\* A character that arrives during any step of a read keeps the bounds.
LEMMA ArrivalBounds ==
    ASSUME Bounds, Arrival
    PROVE  Bounds'
<1> USE QueueLenAssumption, ReadMaxAssumption
<1>1. PICK ch \in 0..255 : Enqueue(ch)
  BY DEF Arrival
<1>2. UNCHANGED <<modifiers, pc, n, i, cnt, reg, buf, delivered>>
  BY DEF Arrival, readerVars
<1>3. /\ typed' = Append(typed, ch)
      /\ typed' \in Seq(0..255)
      /\ Len(typed') = Len(typed) + 1
  BY <1>1 DEF Enqueue, Bounds, TypeOK
<1>4. /\ input_queue' \in [Cells -> 0..(Len(typed) + 1)]
      /\ queue_idx' \in 1..QueueLen
      /\ queue_idx' \in {queue_idx, queue_idx + 1}
      /\ dropped' \subseteq 0..Len(typed)
      /\ races' \in Nat
  <2>1. CASE queue_idx >= QueueLen
    <3>1. queue_idx = QueueLen /\ input_queue \in [Cells -> 0..Len(typed)]
      BY <2>1 DEF Bounds, TypeOK, Positions
    <3>2. ShiftedByOne \in [Cells -> 0..Len(typed)]
      BY <3>1 DEF ShiftedByOne, Cells
    <3>3. /\ input_queue' = [ShiftedByOne EXCEPT ![queue_idx - 1] = Len(typed) + 1]
          /\ queue_idx' = queue_idx - 1 + 1
          /\ dropped' = dropped \cup {input_queue[0]}
          /\ races' \in {races, races + 1}
      BY <1>1, <2>1 DEF Enqueue, Bounds, TypeOK
    <3>4. input_queue' \in [Cells -> 0..(Len(typed) + 1)]
      <4>1. Len(typed) \in Nat
        BY DEF Bounds, TypeOK
      <4>2. ShiftedByOne \in [Cells -> 0..(Len(typed) + 1)]
        <5>1. \A c \in Cells : ShiftedByOne[c] \in 0..(Len(typed) + 1)
          BY <3>2, <4>1
        <5>2. ShiftedByOne = [c \in Cells |-> ShiftedByOne[c]]
          BY <3>2
        <5> QED
          BY <5>1, <5>2
      <4>3. Len(typed) + 1 \in 0..(Len(typed) + 1)
        BY <4>1
      <4> QED
        BY <3>3, <4>2, <4>3
    <3>5. dropped' \subseteq 0..Len(typed)
      <4>1. input_queue[0] \in 0..Len(typed)
        BY <3>1 DEF Cells
      <4> QED
        BY <3>3, <4>1 DEF Bounds, TypeOK, Positions
    <3>6. queue_idx' = queue_idx
      BY <3>1, <3>3
    <3> QED
      BY <3>1, <3>3, <3>4, <3>5, <3>6 DEF Bounds, TypeOK
  <2>2. CASE ~(queue_idx >= QueueLen)
    BY <1>1, <2>2 DEF Enqueue, Bounds, TypeOK, Cells, Positions
  <2> QED
    BY <2>1, <2>2
<1>5. buf' \in Seq(0..Len(typed')) /\ delivered' \in Seq(0..Len(typed'))
  BY <1>2, <1>3, PositionsGrow DEF Bounds, TypeOK, Positions
<1>6. TypeOK'
  BY <1>2, <1>3, <1>4, <1>5 DEF TypeOK, Bounds, Positions
<1>7. ReadWithinQueue' /\ Left' >= 0
  BY <1>2, <1>3, <1>4 DEF ReadWithinQueue, Left, Bounds, TypeOK, Moving
<1> QED
  BY <1>6, <1>7 DEF Bounds

\* Every step of a read keeps the bounds.
LEMMA ReaderBounds ==
    ASSUME Bounds, vconsole_read
    PROVE  Bounds'
<1> USE QueueLenAssumption, ReadMaxAssumption DEF queueVars, histVars
<1>1. CASE ReadStart
  BY <1>1 DEF ReadStart, Bounds, TypeOK, ReadWithinQueue, Left, Positions,
              Smaller, Moving
<1>2. CASE ReadCopy
  BY <1>2 DEF ReadCopy, Bounds, TypeOK, ReadWithinQueue, Left, Positions, Cells, Moving
<1>3. CASE ReadRest
  BY <1>3 DEF ReadRest, Bounds, TypeOK, ReadWithinQueue, Left, Positions, Moving
<1>4. CASE ReadMove
  BY <1>4 DEF ReadMove, Bounds, TypeOK, ReadWithinQueue, Left, Positions, Cells, Moving
<1>5. CASE ReadStore
  BY <1>5 DEF ReadStore, Bounds, TypeOK, ReadWithinQueue, Left, Positions, Cells, Moving
<1>6. CASE ReadDone
  BY <1>6 DEF ReadDone, Bounds, TypeOK, ReadWithinQueue, Left, Positions, Moving
<1> QED
  BY <1>1, <1>2, <1>3, <1>4, <1>5, <1>6 DEF vconsole_read

\* Bounds holds initially, and every step of the specification keeps it.
LEMMA BoundsInductive ==
    /\ Init => Bounds
    /\ Bounds /\ [Next]_vars => Bounds'
<1>1. Init => Bounds
  BY QueueLenAssumption, ReadMaxAssumption
  DEF Init, Bounds, TypeOK, ReadWithinQueue, Left, Positions, Modifiers, Cells, Moving
<1>2. ASSUME Bounds, Next PROVE Bounds'
  <2>1. CASE Press \/ Release
    <3>1. ModifiersOnly \/ Arrival
      BY <1>2, <2>1, HandlerCases DEF Bounds
    <3>2. CASE ModifiersOnly
      BY <1>2, <3>2 DEF ModifiersOnly, Bounds, TypeOK, ReadWithinQueue, Left,
                        Positions, queueVars, readerVars, histVars, Moving
    <3> QED
      BY <1>2, <3>1, <3>2, ArrivalBounds
  <2>2. CASE vconsole_read
    BY <1>2, <2>2, ReaderBounds
  <2> QED
    BY <1>2, <2>1, <2>2 DEF Next
<1>3. ASSUME Bounds, UNCHANGED vars PROVE Bounds'
  BY <1>3 DEF vars, queueVars, readerVars, histVars, Bounds, TypeOK,
              ReadWithinQueue, Left, Positions, Moving
<1> QED
  BY <1>1, <1>2, <1>3

\* The variables of the keyboard queue and of the reader keep their types:
\* in particular queue_idx never leaves 0..QueueLen.
THEOREM TypeCorrect == Spec => []TypeOK
<1>1. Bounds => TypeOK
  BY DEF Bounds
<1> QED
  BY <1>1, BoundsInductive, PTL DEF Spec

\* Whatever arrives during a read, it stays inside the queue, and its
\* subtractions from queue_idx do not underflow.
THEOREM ReadsWithinQueue == Spec => []ReadWithinQueue
<1>1. Bounds => ReadWithinQueue
  BY DEF Bounds
<1> QED
  BY <1>1, BoundsInductive, PTL DEF Spec
-----------------------------------------------------------------------------
(***************************************************************************)
(* What the queue holds.                                                   *)
(***************************************************************************)

\* The effect of an arriving character on a queue with room and on a full
\* one.  races stays 0 only if no read was exposed to it.
ArrivesWithRoom ==
    /\ queue_idx' = queue_idx + 1
    /\ \A c \in 0..queue_idx :
           input_queue'[c] = IF c = queue_idx THEN Len(typed) + 1
                                              ELSE input_queue[c]
    /\ dropped' = dropped
    /\ races' = 0 => races = 0 /\ ~(Moving /\ n > 0)

ArrivesFull ==
    /\ queue_idx' = queue_idx /\ queue_idx > 0
    /\ \A c \in 0..(queue_idx - 1) :
           input_queue'[c] = IF c = queue_idx - 1 THEN Len(typed) + 1
                                                  ELSE input_queue[c + 1]
    /\ dropped' = dropped \cup {input_queue[0]}
    /\ races' = 0 => /\ races = 0
                     /\ ~(Moving /\ n > 0)
                     /\ ~(pc = "copy" /\ i > 0)

\* Enqueue appends at the end of the queue, after shifting a full one by one.
LEMMA ArrivalEffect ==
    ASSUME Bounds, Arrival
    PROVE  /\ UNCHANGED <<pc, n, i, cnt, reg, buf, delivered>>
           /\ Len(typed') = Len(typed) + 1
           /\ ArrivesWithRoom \/ ArrivesFull
<1> USE QueueLenAssumption, ReadMaxAssumption
<1>1. PICK ch \in 0..255 : Enqueue(ch)
  BY DEF Arrival
<1>2. UNCHANGED <<pc, n, i, cnt, reg, buf, delivered>>
  BY DEF Arrival, readerVars
<1>3. Len(typed') = Len(typed) + 1
  BY <1>1 DEF Enqueue, Bounds, TypeOK
<1>4. CASE queue_idx >= QueueLen
  <2>1. queue_idx = QueueLen
    BY <1>4 DEF Bounds, TypeOK
  <2>2. /\ input_queue' = [ShiftedByOne EXCEPT ![queue_idx - 1] = Len(typed) + 1]
        /\ queue_idx' = queue_idx - 1 + 1
        /\ dropped' = dropped \cup {input_queue[0]}
    BY <1>1, <1>4 DEF Enqueue
  <2>3. races' = 0 => races = 0 /\ ~(Moving /\ n > 0)
                                /\ ~(pc = "copy" /\ i > 0)
    BY <1>1, <1>4 DEF Enqueue, Exposed, Bounds, TypeOK, Moving
  <2>4. \A c \in 0..(queue_idx - 1) :
           input_queue'[c] = IF c = queue_idx - 1 THEN Len(typed) + 1
                                                  ELSE input_queue[c + 1]
    BY <2>1, <2>2 DEF ShiftedByOne, Cells
  <2> QED
    BY <1>2, <1>3, <2>1, <2>2, <2>3, <2>4 DEF ArrivesFull
<1>5. CASE ~(queue_idx >= QueueLen)
  <2>1. queue_idx \in Nat /\ queue_idx < QueueLen
    BY <1>5 DEF Bounds, TypeOK
  <2>2. /\ input_queue' = [input_queue EXCEPT ![queue_idx] = Len(typed) + 1]
        /\ queue_idx' = queue_idx + 1
        /\ dropped' = dropped
    BY <1>1, <1>5 DEF Enqueue
  <2>3. races' = 0 => races = 0 /\ ~(Moving /\ n > 0)
    BY <1>1, <1>5 DEF Enqueue, Exposed, Bounds, TypeOK, Moving
  <2>4. \A c \in 0..queue_idx :
           input_queue'[c] = IF c = queue_idx THEN Len(typed) + 1
                                              ELSE input_queue[c]
    BY <2>1, <2>2 DEF Bounds, TypeOK, Cells
  <2> QED
    BY <1>2, <1>3, <2>2, <2>3, <2>4 DEF ArrivesWithRoom
<1> QED
  BY <1>4, <1>5

\* An arriving character keeps the whole invariant.
LEMMA ArrivalKeeps ==
    ASSUME IInv, Arrival
    PROVE  QueueFilled' /\ BufLength' /\ Fifo'
<1> USE QueueLenAssumption, ReadMaxAssumption
<1>1. /\ UNCHANGED <<pc, n, i, cnt, reg, buf, delivered>>
      /\ Len(typed') = Len(typed) + 1
      /\ ArrivesWithRoom \/ ArrivesFull
  BY ArrivalEffect DEF IInv
<1>2. /\ Len(typed) \in Nat /\ queue_idx \in Nat /\ n \in Nat /\ i \in Nat
      /\ Len(buf) \in Nat /\ Len(delivered) \in Nat /\ Left >= 0
  BY DEF IInv, Bounds, TypeOK
<1>3. QueueFilled'
  <2>1. \A c \in 0..(queue_idx' - 1) : input_queue'[c] \in 1..Len(typed')
    <3>1. \A c \in 0..(queue_idx - 1) :
              /\ input_queue[c] \in Int
              /\ 1 <= input_queue[c]
              /\ input_queue[c] <= Len(typed)
      BY <1>2 DEF IInv, QueueFilled
    <3>2. CASE ArrivesWithRoom
      BY <1>1, <1>2, <3>1, <3>2 DEF ArrivesWithRoom
    <3>3. CASE ArrivesFull
      BY <1>1, <1>2, <3>1, <3>3 DEF ArrivesFull
    <3> QED
      BY <1>1, <3>2, <3>3
  <2>2. \A k \in 1..Len(buf') : buf'[k] \in 1..Len(typed')
    BY <1>1, <1>2 DEF IInv, QueueFilled
  <2>3. OnlyTypedDelivered'
    BY <1>1, <1>2 DEF IInv, QueueFilled, OnlyTypedDelivered
  <2>4. dropped' \subseteq 1..Len(typed')
    <3>1. ArrivesFull => input_queue[0] \in 1..Len(typed)
      BY <1>2 DEF ArrivesFull, IInv, QueueFilled
    <3>2. dropped' \subseteq 1..Len(typed)
      BY <1>1, <3>1 DEF ArrivesWithRoom, ArrivesFull, IInv, QueueFilled
    <3> QED
      BY <1>1, <1>2, <3>2
  <2>5. pc' = "store" => reg' \in 1..Len(typed')
    BY <1>1, <1>2 DEF IInv, QueueFilled
  <2> QED
    BY <2>1, <2>2, <2>3, <2>4, <2>5 DEF QueueFilled
<1>4. BufLength'
  BY <1>1 DEF IInv, BufLength, Moving
<1>5. Fifo'
  <2>1. SUFFICES ASSUME races' = 0
                 PROVE  (QueueOrdered /\ BufOrdered /\ DeliveredOrdered
                         /\ LeftAccounted)'
    BY DEF Fifo
  <2>2. /\ races = 0 /\ ~(Moving /\ n > 0)
        /\ QueueOrdered /\ BufOrdered /\ DeliveredOrdered /\ LeftAccounted
    BY <1>1, <2>1 DEF IInv, Fifo, ArrivesWithRoom, ArrivesFull
  <2>3. \A c \in 0..(queue_idx - 1) : input_queue[c] = Left + 1 + c
    BY <2>2 DEF QueueOrdered, Moving
  <2>4. CASE ArrivesWithRoom
    <3>1. Left' = Left
      BY <1>1, <1>2, <2>4 DEF Left, ArrivesWithRoom
    <3>2. QueueOrdered'
      BY <1>1, <1>2, <2>2, <2>3, <2>4, <3>1
      DEF QueueOrdered, ArrivesWithRoom, Left, Moving
    <3>3. (BufOrdered /\ DeliveredOrdered /\ LeftAccounted)'
      BY <1>1, <2>2, <2>4, <3>1
      DEF BufOrdered, DeliveredOrdered, LeftAccounted, ArrivesWithRoom
    <3> QED
      BY <3>2, <3>3
  <2>5. CASE ArrivesFull
    <3>1. Left' = Left + 1 /\ input_queue[0] = Left + 1
      BY <1>1, <1>2, <2>3, <2>5 DEF Left, ArrivesFull
    <3>2. QueueOrdered'
      <4>1. \A c \in 0..(queue_idx - 1) : input_queue'[c] = Left' + 1 + c
        <5>1. TAKE c \in 0..(queue_idx - 1)
        <5>2. CASE c = queue_idx - 1
          BY <1>2, <2>5, <3>1, <5>2 DEF ArrivesFull, Left
        <5>3. CASE c # queue_idx - 1
          <6>1. c + 1 \in 0..(queue_idx - 1)
            BY <1>2, <5>3
          <6>2. input_queue[c + 1] = Left + 1 + (c + 1)
            BY <2>3, <6>1
          <6> QED
            BY <1>2, <2>5, <3>1, <5>3, <6>2 DEF ArrivesFull, Left
        <5> QED
          BY <5>2, <5>3
      <4>2. queue_idx' = queue_idx /\ ~(Moving' /\ n' > 0)
        BY <1>1, <2>2, <2>5 DEF ArrivesFull, Moving
      <4> QED
        BY <4>1, <4>2 DEF QueueOrdered, Moving
    <3>3. BufOrdered'
      <4>1. pc # "idle" => Len(buf) = 0
        BY <1>2, <2>1, <2>2, <2>5
        DEF ArrivesFull, IInv, BufLength, Bounds, TypeOK, Moving
      <4> QED
        BY <1>1, <4>1 DEF BufOrdered
    <3>4. DeliveredOrdered'
      <4>1. \A k \in 1..Len(delivered) : delivered[k] \in Nat
        BY <1>2 DEF IInv, Bounds, TypeOK, Positions
      <4>2. Left \in Int
        BY <1>2 DEF Left
      <4> QED
        BY <1>1, <2>2, <3>1, <4>1, <4>2 DEF DeliveredOrdered
    <3>5. LeftAccounted'
      <4>1. Left \in Nat
        BY <1>2 DEF Left
      <4>2. dropped' = dropped \cup {Left + 1}
        BY <2>5, <3>1 DEF ArrivesFull
      <4>3. ASSUME NEW p \in 1..(Left + 1)
            PROVE  p \in dropped' \/ \E k \in 1..Len(delivered) : delivered[k] = p
        <5>1. p \in 1..Left \/ p = Left + 1
          BY <4>1
        <5> QED
          BY <2>2, <4>2, <5>1 DEF LeftAccounted
      <4> QED
        BY <1>1, <3>1, <4>3 DEF LeftAccounted
    <3> QED
      BY <3>2, <3>3, <3>4, <3>5
  <2> QED
    BY <1>1, <2>4, <2>5
<1> QED
  BY <1>3, <1>4, <1>5
-----------------------------------------------------------------------------
\* What each step of the read leaves alone.
LEMMA ReaderFrame ==
    ASSUME vconsole_read
    PROVE  UNCHANGED <<typed, dropped, races>>
  BY DEF vconsole_read, ReadStart, ReadCopy, ReadRest, ReadMove, ReadStore,
         ReadDone, histVars

\* Every step of a read keeps the invariant.
LEMMA ReaderKeeps ==
    ASSUME IInv, vconsole_read
    PROVE  QueueFilled' /\ BufLength' /\ Fifo'
<1> USE QueueLenAssumption, ReadMaxAssumption DEF queueVars, histVars
<1>0. /\ Len(typed) \in Nat /\ queue_idx \in Nat /\ n \in Nat /\ i \in Nat
      /\ cnt \in Nat /\ Left \in Nat /\ Len(buf) \in Nat
      /\ Len(delivered) \in Nat
      /\ buf \in Seq(Nat) /\ delivered \in Seq(Nat)
      /\ ReadWithinQueue
  BY DEF IInv, Bounds, TypeOK, Left, Positions
<1>1. CASE ReadStart
  <2>1. QueueFilled' /\ BufLength'
    BY <1>0, <1>1
    DEF ReadStart, IInv, QueueFilled, BufLength, OnlyTypedDelivered, Moving
  <2>2. Fifo'
    BY <1>0, <1>1 DEF ReadStart, IInv, Fifo, QueueOrdered, BufOrdered,
                      DeliveredOrdered, LeftAccounted, Left, Moving
  <2> QED
    BY <2>1, <2>2
<1>2. CASE ReadCopy
  <2>1. /\ buf' = Append(buf, input_queue[i]) /\ Len(buf') = Len(buf) + 1
        /\ input_queue[i] \in 1..Len(typed) /\ i \in 0..(queue_idx - 1)
        /\ \A k \in 1..Len(buf') : buf'[k] = IF k = Len(buf) + 1
                                             THEN input_queue[i] ELSE buf[k]
    <3>1. buf' = Append(buf, input_queue[i]) /\ i \in 0..(queue_idx - 1)
      BY <1>0, <1>2 DEF ReadCopy, ReadWithinQueue, Moving
    <3>2. input_queue[i] \in 1..Len(typed)
      BY <3>1 DEF IInv, QueueFilled
    <3>3. input_queue[i] \in Nat
      BY <1>0, <3>2
    <3> QED
      BY <1>0, <3>1, <3>2, <3>3, AppendProperties
  <2>2. QueueFilled' /\ BufLength'
    BY <1>0, <1>2, <2>1
    DEF ReadCopy, IInv, QueueFilled, BufLength, OnlyTypedDelivered, Moving
  <2>3. Fifo'
    <3>1. (QueueOrdered /\ races = 0) => input_queue[i] = Left + (Len(buf) + 1)
      BY <1>0, <1>2, <2>1 DEF ReadCopy, QueueOrdered, IInv, BufLength, Moving
    <3>2. Left' = Left
      BY <1>2 DEF ReadCopy, Left
    <3>3. races = 0 => BufOrdered'
      <4>1. SUFFICES ASSUME races = 0, NEW k \in 1..Len(buf')
                     PROVE  buf'[k] = Left + k
        BY <3>2 DEF BufOrdered
      <4>2. CASE k = Len(buf) + 1
        BY <2>1, <3>1, <4>1, <4>2 DEF IInv, Fifo
      <4>3. CASE k # Len(buf) + 1
        <5>1. k \in 1..Len(buf) /\ buf'[k] = buf[k]
          BY <1>0, <2>1, <4>3
        <5> QED
          BY <1>2, <4>1, <5>1 DEF ReadCopy, IInv, Fifo, BufOrdered
      <4> QED
        BY <4>2, <4>3
    <3>4. races = 0 => (QueueOrdered /\ DeliveredOrdered /\ LeftAccounted)'
      BY <1>2, <3>2
      DEF ReadCopy, IInv, Fifo, QueueOrdered, DeliveredOrdered, LeftAccounted, Moving
    <3> QED
      BY <1>2, <3>3, <3>4 DEF ReadCopy, Fifo
  <2> QED
    BY <2>2, <2>3
<1>3. CASE ReadRest
  <2>1. QueueFilled' /\ BufLength'
    BY <1>0, <1>3 DEF ReadRest, IInv, QueueFilled, BufLength, OnlyTypedDelivered, Moving
  <2>2. Fifo'
    BY <1>0, <1>3 DEF ReadRest, IInv, Fifo, QueueOrdered, BufOrdered,
                      DeliveredOrdered, LeftAccounted, Left, Moving
  <2> QED
    BY <2>1, <2>2
<1>4. CASE ReadMove
  <2>1. /\ reg' = input_queue[n + i] /\ pc = "move" /\ pc' = "store" /\ n > 0
        /\ n + i \in 0..(queue_idx - 1)
        /\ UNCHANGED <<input_queue, queue_idx, n, i, cnt, buf, delivered, typed,
                       dropped, races>>
    BY <1>0, <1>4 DEF ReadMove, ReadWithinQueue, Moving
  <2>2. QueueFilled' /\ BufLength'
    BY <1>0, <2>1 DEF IInv, QueueFilled, BufLength, OnlyTypedDelivered, Moving
  <2>3. ASSUME races = 0 PROVE QueueOrdered'
    <3>1. /\ n + cnt = queue_idx
          /\ \A c \in 0..(queue_idx - 1) :
                 input_queue[c] = IF c < i THEN Left + n + 1 + c ELSE Left + 1 + c
      BY <2>1, <2>3 DEF IInv, Fifo, QueueOrdered, Moving
    <3>2. input_queue[n + i] = Left + 1 + (n + i)
      <4>1. ~(n + i < i)
        BY <1>0
      <4> QED
        BY <2>1, <3>1, <4>1
    <3>3. reg' = Left + n + 1 + i
      BY <1>0, <2>1, <3>2
    <3>4. Left' = Left
      BY <2>1 DEF Left
    <3> QED
      BY <2>1, <3>1, <3>3, <3>4 DEF QueueOrdered, Moving
  <2>4. Fifo'
    BY <2>1, <2>3
    DEF IInv, Fifo, BufOrdered, DeliveredOrdered, LeftAccounted, Left
  <2> QED
    BY <2>2, <2>4
<1>5. CASE ReadStore
  <2>1. /\ pc = "store" /\ pc' = "move" /\ i' = i + 1
        /\ i \in Cells /\ i \in 0..(queue_idx - 1)
        /\ \A c \in 0..(queue_idx - 1) :
               input_queue'[c] = IF c = i THEN reg ELSE input_queue[c]
        /\ UNCHANGED <<queue_idx, n, cnt, buf, delivered, typed, dropped, races>>
    BY <1>0, <1>5
    DEF ReadStore, IInv, Bounds, TypeOK, ReadWithinQueue, Cells, Moving
  <2>2. QueueFilled' /\ BufLength'
    BY <1>0, <2>1 DEF IInv, QueueFilled, BufLength, OnlyTypedDelivered, Moving
  <2>3. ASSUME races = 0 PROVE QueueOrdered'
    <3>1. Left' = Left
      BY <2>1 DEF Left
    <3>2. /\ n > 0 /\ n + cnt = queue_idx /\ reg = Left + n + 1 + i
          /\ \A c \in 0..(queue_idx - 1) :
                 input_queue[c] = IF c < i THEN Left + n + 1 + c ELSE Left + 1 + c
      BY <1>0, <2>1, <2>3 DEF IInv, Fifo, QueueOrdered, ReadWithinQueue, Moving
    <3>3. \A c \in 0..(queue_idx - 1) :
              input_queue'[c] = IF c < i + 1 THEN Left + n + 1 + c
                                             ELSE Left + 1 + c
      <4>1. TAKE c \in 0..(queue_idx - 1)
      <4>2. CASE c = i
        BY <1>0, <2>1, <3>2, <4>2
      <4>3. CASE c # i
        BY <1>0, <2>1, <3>2, <4>3
      <4> QED
        BY <4>2, <4>3
    <3> QED
      BY <2>1, <3>1, <3>2, <3>3 DEF QueueOrdered, Moving
  <2>4. Fifo'
    BY <2>1, <2>3
    DEF IInv, Fifo, BufOrdered, DeliveredOrdered, LeftAccounted, Left
  <2> QED
    BY <2>2, <2>4
<1>6. CASE ReadDone
  <2>1. /\ queue_idx' = queue_idx - n /\ Left' = Left + n
        /\ delivered' = delivered \o buf /\ pc' = "idle"
        /\ n <= queue_idx /\ Len(buf) = n
        /\ n' = 0 /\ buf' = <<>>
        /\ UNCHANGED <<input_queue, typed, dropped, races>>
    BY <1>0, <1>6 DEF ReadDone, IInv, BufLength, ReadWithinQueue, Left, Moving
  <2>2. /\ Len(delivered') = Len(delivered) + n
        /\ \A k \in 1..Len(delivered') :
               delivered'[k] = IF k <= Len(delivered) THEN delivered[k]
                                                      ELSE buf[k - Len(delivered)]
    BY <1>0, <2>1, ConcatProperties
  <2>3. QueueFilled' /\ BufLength'
    <3>1. \A k \in 1..Len(delivered') : delivered'[k] \in 1..Len(typed)
      <4>1. TAKE k \in 1..Len(delivered')
      <4>2. CASE k <= Len(delivered)
        BY <1>0, <2>2, <4>2 DEF IInv, QueueFilled, OnlyTypedDelivered
      <4>3. CASE ~(k <= Len(delivered))
        <5>1. k - Len(delivered) \in 1..Len(buf)
          BY <1>0, <2>1, <2>2, <4>3
        <5> QED
          BY <2>2, <4>3, <5>1 DEF IInv, QueueFilled
      <4> QED
        BY <4>2, <4>3
    <3> QED
      BY <1>0, <2>1, <3>1
      DEF IInv, QueueFilled, BufLength, OnlyTypedDelivered, Moving
  <2>4. Fifo'
    <3>1. SUFFICES ASSUME races = 0
                   PROVE  (QueueOrdered /\ BufOrdered /\ DeliveredOrdered
                           /\ LeftAccounted)'
      BY <2>1 DEF Fifo
    <3>2. QueueOrdered /\ BufOrdered /\ DeliveredOrdered /\ LeftAccounted
      BY <3>1 DEF IInv, Fifo
    <3>3. QueueOrdered'
      <4>1. \A c \in 0..(queue_idx - n - 1) : input_queue[c] = Left + n + 1 + c
        <5>1. CASE n = 0
          BY <1>0, <3>2, <5>1 DEF QueueOrdered, Moving
        <5>2. CASE n # 0
          BY <1>0, <1>6, <3>2, <5>2 DEF ReadDone, QueueOrdered, Moving
        <5> QED
          BY <5>1, <5>2
      <4> QED
        BY <2>1, <4>1 DEF QueueOrdered, Moving
    <3>4. \A k \in 1..n : buf[k] = Left + k
      BY <1>6, <2>1, <3>2 DEF ReadDone, BufOrdered
    <3>5. \A k \in 1..Len(delivered') :
              /\ k <= Len(delivered) => delivered'[k] = delivered[k]
              /\ k > Len(delivered) =>
                     delivered'[k] = Left + (k - Len(delivered))
      <4>1. TAKE k \in 1..Len(delivered')
      <4>2. k > Len(delivered) => k - Len(delivered) \in 1..n
        BY <1>0, <2>2
      <4> QED
        BY <1>0, <2>2, <3>4, <4>2
    <3>6. DeliveredOrdered'
      <4> DEFINE m == Len(delivered)
      <4>0. /\ m \in Nat /\ n \in Nat /\ Left \in Nat
            /\ Len(delivered') = m + n /\ Left' = Left + n
        BY <1>0, <2>1, <2>2
      <4>1. \A k \in 1..m : delivered[k] \in Nat /\ delivered[k] <= Left
        BY <1>0, <3>2 DEF DeliveredOrdered
      <4>2. \A k, l \in 1..m : k < l => delivered[k] < delivered[l]
        BY <3>2 DEF DeliveredOrdered
      <4>3. \A k \in 1..(m + n) :
                /\ k <= m => k \in 1..m /\ delivered'[k] = delivered[k]
                /\ k > m => delivered'[k] = Left + (k - m)
        BY <3>5, <4>0
      <4> HIDE DEF m
      <4>4. ASSUME NEW k \in 1..(m + n)
            PROVE  delivered'[k] <= Left + n
        <5>1. CASE k <= m
          BY <4>0, <4>1, <4>3, <5>1
        <5>2. CASE k > m
          BY <4>0, <4>3, <5>2
        <5> QED
          BY <4>0, <5>1, <5>2
      <4>5. ASSUME NEW k \in 1..(m + n), NEW l \in 1..(m + n), k < l
            PROVE  delivered'[k] < delivered'[l]
        <5>1. CASE l <= m
          <6>1. k \in 1..m /\ l \in 1..m
            BY <4>0, <4>5, <5>1
          <6> QED
            BY <4>2, <4>3, <4>5, <5>1, <6>1
        <5>2. CASE k <= m /\ l > m
          BY <4>0, <4>1, <4>3, <5>2
        <5>3. CASE k > m
          BY <4>0, <4>3, <4>5, <5>3
        <5> QED
          BY <4>0, <5>1, <5>2, <5>3
      <4> QED
        BY <4>0, <4>4, <4>5 DEF DeliveredOrdered
    <3>7. LeftAccounted'
      <4>1. ASSUME NEW p \in 1..(Left + n)
            PROVE  p \in dropped \/ \E k \in 1..Len(delivered') : delivered'[k] = p
        <5>1. CASE p <= Left
          BY <1>0, <2>2, <3>2, <3>5, <5>1 DEF LeftAccounted
        <5>2. CASE ~(p <= Left)
          <6>1. Len(delivered) + (p - Left) \in 1..Len(delivered')
            BY <1>0, <2>2, <5>2
          <6>2. delivered'[Len(delivered) + (p - Left)] = p
            <7> DEFINE q == Len(delivered) + (p - Left)
            <7>1. q > Len(delivered) /\ q - Len(delivered) = p - Left
              BY <1>0, <5>2
            <7>2. q \in 1..Len(delivered')
              BY <6>1
            <7> HIDE DEF q
            <7>3. delivered'[q] = Left + (p - Left)
              BY <3>5, <7>1, <7>2
            <7> QED
              BY <1>0, <7>3 DEF q
          <6> QED
            BY <6>1, <6>2
        <5> QED
          BY <5>1, <5>2
      <4> QED
        BY <2>1, <4>1 DEF LeftAccounted
    <3> QED
      BY <2>1, <3>3, <3>6, <3>7 DEF BufOrdered
  <2> QED
    BY <2>3, <2>4
<1> QED
  BY <1>1, <1>2, <1>3, <1>4, <1>5, <1>6 DEF vconsole_read

\* The whole invariant holds initially, and every step keeps it.
LEMMA IInvInductive ==
    /\ Init => IInv
    /\ IInv /\ [Next]_vars => IInv'
<1>1. ASSUME Init PROVE IInv
  <2>1. Bounds
    BY <1>1, BoundsInductive
  <2> QED
    BY <1>1, <2>1
    DEF Init, IInv, QueueFilled, BufLength, Fifo, QueueOrdered, BufOrdered,
        DeliveredOrdered, LeftAccounted, OnlyTypedDelivered, Left, Moving
<1>2. ASSUME IInv, [Next]_vars PROVE IInv'
  <2>1. Bounds'
    BY <1>2, BoundsInductive DEF IInv
  <2>2. CASE UNCHANGED <<queueVars, readerVars, histVars>>
    BY <1>2, <2>1, <2>2
    DEF queueVars, readerVars, histVars, IInv, QueueFilled, BufLength, Fifo,
        QueueOrdered, BufOrdered, DeliveredOrdered, LeftAccounted,
        OnlyTypedDelivered, Left, Moving
  <2>3. CASE Press \/ Release
    <3>1. ModifiersOnly \/ Arrival
      BY <1>2, <2>3, HandlerCases DEF IInv, Bounds
    <3>2. CASE ModifiersOnly
      BY <2>2, <3>2 DEF ModifiersOnly
    <3>3. CASE Arrival
      BY <1>2, <2>1, <3>3, ArrivalKeeps DEF IInv
    <3> QED
      BY <3>1, <3>2, <3>3
  <2>4. CASE vconsole_read
    BY <1>2, <2>1, <2>4, ReaderKeeps DEF IInv
  <2>5. CASE UNCHANGED vars
    BY <2>2, <2>5 DEF vars
  <2> QED
    BY <1>2, <2>3, <2>4, <2>5 DEF Next
<1> QED
  BY <1>1, <1>2

\* No read hands out a cell that no key press ever filled, races or not.
THEOREM OnlyTypedAreDelivered == Spec => []OnlyTypedDelivered
<1>1. IInv => OnlyTypedDelivered
  BY DEF IInv, QueueFilled
<1> QED
  BY <1>1, IInvInductive, PTL DEF Spec

\* As long as no character arrives while a read is exposed, the reads return
\* what was typed in order and without repetition.
THEOREM DeliveryIsOrdered == Spec => []DeliveredInOrder
<1>1. IInv => DeliveredInOrder
  BY DEF IInv, Fifo, DeliveredOrdered, DeliveredInOrder
<1> QED
  BY <1>1, IInvInductive, PTL DEF Spec

\* As long as no character arrives while a read is exposed, only a full
\* queue loses characters.
THEOREM NothingLostSilently == Spec => []NoSilentLoss
<1>1. ASSUME IInv PROVE NoSilentLoss
  <2>1. SUFFICES ASSUME races = 0, pc = "idle"
                 PROVE  1..Len(typed) = Delivered \cup Queued \cup dropped
    BY DEF NoSilentLoss, EveryInputAccounted
  <2>2. /\ Len(typed) \in Nat /\ queue_idx \in Nat /\ Left \in Nat
        /\ \A c \in 0..(queue_idx - 1) : input_queue[c] = Left + 1 + c
    BY <1>1, <2>1 DEF IInv, Bounds, TypeOK, Fifo, QueueOrdered, Left, Moving
  <2>3. Queued = (Left + 1)..Len(typed)
    <3>1. ASSUME NEW p \in (Left + 1)..Len(typed) PROVE p \in Queued
      <4>1. p - Left - 1 \in 0..(queue_idx - 1)
        BY <2>2 DEF Left
      <4>2. input_queue[p - Left - 1] = p
        BY <2>2, <4>1
      <4> QED
        BY <4>1, <4>2 DEF Queued
    <3>2. ASSUME NEW p \in Queued PROVE p \in (Left + 1)..Len(typed)
      BY <2>2 DEF Queued, Left
    <3> QED
      BY <3>1, <3>2
  <2>4. Delivered \subseteq 1..Len(typed) /\ dropped \subseteq 1..Len(typed)
    BY <1>1 DEF IInv, Delivered, QueueFilled, OnlyTypedDelivered
  <2>5. 1..Left \subseteq Delivered \cup dropped
    BY <1>1, <2>1 DEF IInv, Fifo, LeftAccounted, Delivered
  <2>6. 1..Len(typed) = 1..Left \cup (Left + 1)..Len(typed)
    BY <2>2 DEF Left
  <2> QED
    BY <2>3, <2>4, <2>5, <2>6
<1> QED
  BY <1>1, IInvInductive, PTL DEF Spec
-----------------------------------------------------------------------------
(***************************************************************************)
(* What a race costs.  At every point of a read, a character typed is kept *)
(* if it was delivered or dropped, or is in the caller's buffer, in reg or *)
(* in a cell the read will not overwrite any more.  A character that       *)
(* arrives while the queue is moved forward is in such a cell, beyond the  *)
(* n + cnt cells the read knows of, but the subtraction of n from          *)
(* queue_idx may cut it off: the bound counts it as lost already.          *)
(***************************************************************************)

\* The first Front cells are where they will be after the read; the cells
\* from Back on have not been copied or moved yet.
Front == IF Moving THEN i ELSE 0

Back ==
    CASE pc = "idle"  -> 0
      [] pc = "copy"  -> i
      [] pc = "move"  -> n + i
      [] pc = "store" -> n + i + 1

KeptCells == 0..(Front - 1) \cup Back..(queue_idx - 1)

IsKept(p) ==
    \/ p \in dropped
    \/ \E k \in 1..Len(delivered) : delivered[k] = p
    \/ pc # "idle" /\ \E k \in 1..Len(buf) : buf[k] = p
    \/ \E c \in KeptCells : input_queue[c] = p
    \/ pc = "store" /\ reg = p

Lost == {p \in 1..Len(typed) : ~IsKept(p)}

\* How many characters the read does not know of.
Late == IF Moving /\ n > 0 THEN queue_idx - (n + cnt) ELSE 0

LossBound == Cardinality(Lost) + Late <= races

\* Only finitely many characters were typed, so only finitely many are lost.
LEMMA LostFinite ==
    ASSUME TypeOK
    PROVE  IsFiniteSet(Lost) /\ Cardinality(Lost) \in Nat
<1>1. Len(typed) \in Nat
  BY DEF TypeOK
<1>2. IsFiniteSet(1..Len(typed))
  BY <1>1, FS_Interval
<1>3. Lost \in SUBSET (1..Len(typed))
  BY DEF Lost
<1>4. IsFiniteSet(Lost)
  BY <1>2, <1>3, FS_Subset
<1> QED
  BY <1>4, FS_CardinalityType

\* A set that gains at most one element grows by at most one.
LEMMA OneMore ==
    ASSUME NEW S, IsFiniteSet(S), NEW x, NEW T \in SUBSET (S \cup {x})
    PROVE  Cardinality(T) <= Cardinality(S) + 1
<1>1. IsFiniteSet(S \cup {x}) /\ Cardinality(S) \in Nat
  BY FS_AddElement, FS_CardinalityType
<1>2. Cardinality(S \cup {x}) = IF x \in S THEN Cardinality(S) ELSE Cardinality(S) + 1
  BY FS_AddElement
<1>3. IsFiniteSet(T) /\ Cardinality(T) <= Cardinality(S \cup {x})
  BY <1>1, FS_Subset
<1>4. Cardinality(T) \in Nat
  BY <1>3, FS_CardinalityType
<1> QED
  BY <1>1, <1>2, <1>3, <1>4

\* b - a cells hold at most b - a different characters.
LEMMA CellsHoldFew ==
    ASSUME NEW q, NEW a \in Nat, NEW b \in Nat, a <= b
    PROVE  LET T == {q[c] : c \in a..(b - 1)}
           IN  IsFiniteSet(T) /\ Cardinality(T) <= b - a
<1> DEFINE S == a..(b - 1)
           T == {q[c] : c \in S}
           f == [c \in S |-> q[c]]
<1>1. f \in Surjection(S, T)
  BY DEF Surjection, Range
<1>2. IsFiniteSet(S) /\ Cardinality(S) = b - a
  <2>1. IsFiniteSet(S) /\ Cardinality(S) = IF a > b - 1 THEN 0 ELSE (b - 1) - a + 1
    BY FS_Interval
  <2> QED
    BY <2>1
<1> HIDE DEF f, S, T
<1>3. IsFiniteSet(T) /\ Cardinality(T) <= Cardinality(S)
  BY <1>1, <1>2, FS_Surjection
<1> QED
  BY <1>2, <1>3 DEF S, T

\* Where the cells of the queue are cut, in every phase of a read.
LEMMA CutTypes ==
    ASSUME Bounds
    PROVE  /\ Back \in Nat /\ Back <= queue_idx
           /\ Front \in Nat /\ Front <= Back /\ Late \in Nat
  BY DEF Bounds, TypeOK, Back, Front, Late, ReadWithinQueue, Moving

\* A race is counted exactly when the read was exposed to it.
LEMMA ArrivalRaces ==
    ASSUME Bounds, Arrival
    PROVE  /\ ArrivesWithRoom => races' = races + IF Exposed(FALSE) THEN 1 ELSE 0
           /\ ArrivesFull => races' = races + IF Exposed(TRUE) THEN 1 ELSE 0
<1>1. PICK ch \in 0..255 : Enqueue(ch)
  BY DEF Arrival
<1>2. /\ queue_idx' = IF queue_idx >= QueueLen THEN queue_idx - 1 + 1 ELSE queue_idx + 1
      /\ races' = races + IF Exposed(queue_idx >= QueueLen) THEN 1 ELSE 0
  BY <1>1 DEF Enqueue
<1>3. queue_idx \in Nat /\ QueueLen \in Nat
  BY QueueLenAssumption DEF Bounds, TypeOK
<1>4. /\ ArrivesWithRoom => ~(queue_idx >= QueueLen)
      /\ ArrivesFull => queue_idx >= QueueLen
  BY <1>2, <1>3 DEF ArrivesWithRoom, ArrivesFull
<1> QED
  BY <1>2, <1>4 DEF Exposed

\* An arriving character with room in the queue loses nothing yet.
LEMMA RoomKeeps ==
    ASSUME IInv, Arrival, ArrivesWithRoom
    PROVE  Lost' \subseteq Lost /\ Late' = Late + IF Moving /\ n > 0 THEN 1 ELSE 0
<1>1. /\ UNCHANGED <<pc, n, i, cnt, reg, buf, delivered>>
      /\ Len(typed') = Len(typed) + 1
  BY ArrivalEffect DEF IInv
<1>2. /\ Len(typed) \in Nat /\ queue_idx \in Nat /\ n \in Nat /\ i \in Nat
      /\ cnt \in Nat /\ ReadWithinQueue
      /\ pc \in {"idle", "copy", "move", "store"}
  BY DEF IInv, Bounds, TypeOK
<1>3. Back \in Nat /\ Back <= queue_idx /\ Front \in Nat /\ Front <= Back
  BY CutTypes DEF IInv
<1>4. Back' = Back /\ Front' = Front
  BY <1>1 DEF Back, Front, Moving
<1>5. ASSUME NEW p \in 1..Len(typed), IsKept(p) PROVE IsKept(p)'
  <2>1. CASE \E c \in KeptCells : input_queue[c] = p
    <3>1. PICK c \in KeptCells : input_queue[c] = p
      BY <2>1
    <3>2. c \in KeptCells' /\ c \in 0..queue_idx /\ c # queue_idx
      BY <1>2, <1>3, <1>4 DEF KeptCells, ArrivesWithRoom
    <3>3. input_queue'[c] = p
      BY <3>1, <3>2 DEF ArrivesWithRoom
    <3> QED
      BY <3>2, <3>3 DEF IsKept
  <2>2. CASE ~(\E c \in KeptCells : input_queue[c] = p)
    BY <1>1, <1>5, <2>2 DEF IsKept, ArrivesWithRoom
  <2> QED
    BY <2>1, <2>2
<1>6. PICK z : z = Len(typed) + 1
  OBVIOUS
<1>7. IsKept(z)'
  <2>1. queue_idx \in KeptCells'
    BY <1>2, <1>3, <1>4 DEF KeptCells, ArrivesWithRoom
  <2>2. input_queue'[queue_idx] = z
    BY <1>2, <1>6 DEF ArrivesWithRoom
  <2> QED
    BY <2>1, <2>2 DEF IsKept
<1>9. ASSUME NEW p \in Lost' PROVE p \in Lost
  <2>1. p \in 1..Len(typed') /\ ~IsKept(p)'
    BY DEF Lost
  <2>2. p # z
    BY <1>7, <2>1
  <2>3. p \in 1..Len(typed)
    BY <1>1, <1>2, <1>6, <2>1, <2>2
  <2> QED
    BY <1>5, <2>1, <2>3 DEF Lost
<1>8. Late' = Late + IF Moving /\ n > 0 THEN 1 ELSE 0
  BY <1>1, <1>2 DEF Late, Moving, ArrivesWithRoom
<1> QED
  BY <1>8, <1>9

\* The character in cell Back is the only one that shifting a full queue can
\* lose, if there is none it is the one that arrives; nothing is lost while
\* the read has no gap in the queue.
LEMMA FullKeeps ==
    ASSUME IInv, Arrival, ArrivesFull
    PROVE  /\ \E x : Lost' \subseteq Lost \cup {x}
           /\ Front = Back => Lost' \subseteq Lost
           /\ Late' = Late
<1>1. /\ UNCHANGED <<pc, n, i, cnt, reg, buf, delivered>>
      /\ Len(typed') = Len(typed) + 1
  BY ArrivalEffect DEF IInv
<1>2. /\ Len(typed) \in Nat /\ queue_idx \in Nat /\ n \in Nat /\ i \in Nat
      /\ cnt \in Nat
  BY DEF IInv, Bounds, TypeOK
<1>3. Back \in Nat /\ Back <= queue_idx /\ Front \in Nat /\ Front <= Back
  BY CutTypes DEF IInv
<1>4. Back' = Back /\ Front' = Front /\ Late' = Late
  BY <1>1 DEF Back, Front, Moving, Late, ArrivesFull
<1>5. PICK z : z = Len(typed) + 1
  OBVIOUS
<1>6. PICK x : x = IF Back < queue_idx THEN input_queue[Back] ELSE z
  OBVIOUS
<1>7. KeptCells' = KeptCells
  BY <1>4 DEF KeptCells, ArrivesFull
<1>8. ASSUME NEW c \in 1..(queue_idx - 1), c - 1 \in KeptCells,
             NEW p, p = input_queue[c]
      PROVE  IsKept(p)'
  <2>1. c - 1 \in 0..(queue_idx - 1) /\ c - 1 # queue_idx - 1 /\ (c - 1) + 1 = c
    BY <1>2
  <2>2. input_queue'[c - 1] = p
    BY <1>8, <2>1 DEF ArrivesFull
  <2> QED
    BY <1>7, <1>8, <2>2 DEF IsKept
<1>9. ASSUME NEW p \in 1..Len(typed), IsKept(p), p # x \/ Front = Back
      PROVE  IsKept(p)'
  <2>1. CASE \E c \in KeptCells : input_queue[c] = p
    <3>1. PICK c \in KeptCells : input_queue[c] = p
      BY <2>1
    <3>2. CASE c = 0
      BY <3>1, <3>2 DEF IsKept, ArrivesFull
    <3>3. CASE c # 0
      <4>1. c \in 1..(queue_idx - 1)
        BY <1>2, <1>3, <3>3 DEF KeptCells
      <4>2. c # Back \/ Front = Back
        BY <1>6, <1>9, <3>1, <4>1, <1>2, <1>3
      <4>3. c - 1 \in KeptCells
        BY <1>2, <1>3, <4>1, <4>2 DEF KeptCells
      <4> QED
        BY <1>8, <3>1, <4>1, <4>3
    <3> QED
      BY <3>2, <3>3
  <2>2. CASE ~(\E c \in KeptCells : input_queue[c] = p)
    BY <1>1, <1>9, <2>2 DEF IsKept, ArrivesFull
  <2> QED
    BY <2>1, <2>2
<1>10. ASSUME z # x \/ Front = Back PROVE IsKept(z)'
  <2>1. queue_idx > 0 /\ input_queue'[queue_idx - 1] = z
    BY <1>2, <1>5 DEF ArrivesFull
  <2>2. Back < queue_idx \/ Front = Back
    BY <1>6, <1>10
  <2>3. queue_idx - 1 \in KeptCells
    BY <1>2, <1>3, <2>1, <2>2 DEF KeptCells
  <2> QED
    BY <1>7, <2>1, <2>3 DEF IsKept
<1>11. ASSUME NEW p \in Lost' PROVE p \in Lost \/ (p = x /\ Front # Back)
  <2>1. p \in 1..Len(typed') /\ ~IsKept(p)'
    BY DEF Lost
  <2>2. CASE p = z
    BY <1>10, <2>1, <2>2
  <2>3. CASE p # z
    <3>1. p \in 1..Len(typed)
      BY <1>1, <1>2, <1>5, <2>1, <2>3
    <3> QED
      BY <1>9, <2>1, <3>1 DEF Lost
  <2> QED
    BY <2>2, <2>3
<1> QED
  BY <1>4, <1>11

\* A character that arrives costs at most one, and only in a race.
LEMMA ArrivalLoss ==
    ASSUME IInv, LossBound, Arrival
    PROVE  LossBound'
<1>1. /\ UNCHANGED <<pc, n, i, cnt, reg, buf, delivered>>
      /\ ArrivesWithRoom \/ ArrivesFull
  BY ArrivalEffect DEF IInv
<1>2. /\ races \in Nat /\ Late \in Nat
      /\ IsFiniteSet(Lost) /\ Cardinality(Lost) \in Nat
  BY LostFinite, CutTypes DEF IInv, Bounds, TypeOK
<1>3. IsFiniteSet(Lost') /\ Cardinality(Lost') \in Nat
  <2>1. TypeOK'
    BY ArrivalBounds DEF IInv, Bounds
  <2>2. Len(typed') \in Nat
    BY <2>1 DEF TypeOK
  <2>3. IsFiniteSet(1..Len(typed')) /\ Lost' \in SUBSET (1..Len(typed'))
    BY <2>2, FS_Interval DEF Lost
  <2>4. IsFiniteSet(Lost')
    BY <2>3, FS_Subset
  <2> QED
    BY <2>4, FS_CardinalityType
<1>4. Lost' \subseteq Lost => Cardinality(Lost') <= Cardinality(Lost)
  BY <1>2, FS_Subset
<1>5. CASE ArrivesWithRoom
  <2>1. /\ Lost' \subseteq Lost
        /\ Late' = Late + IF Moving /\ n > 0 THEN 1 ELSE 0
    BY <1>5, RoomKeeps
  <2>2. races' = races + IF Moving /\ n > 0 THEN 1 ELSE 0
    BY <1>5, ArrivalRaces DEF IInv, Exposed
  <2> QED
    BY <1>2, <1>3, <1>4, <2>1, <2>2 DEF LossBound
<1>6. CASE ArrivesFull
  <2>1. /\ \E x : Lost' \subseteq Lost \cup {x}
        /\ Front = Back => Lost' \subseteq Lost
        /\ Late' = Late
    BY <1>6, FullKeeps
  <2>2. races' = races + IF Exposed(TRUE) THEN 1 ELSE 0
    BY <1>6, ArrivalRaces DEF IInv
  <2>3. CASE Exposed(TRUE)
    <3>1. PICK x : Lost' \subseteq Lost \cup {x}
      BY <2>1
    <3>2. Cardinality(Lost') <= Cardinality(Lost) + 1
      BY <1>2, <3>1, OneMore
    <3> QED
      BY <1>2, <1>3, <2>1, <2>2, <2>3, <3>2 DEF LossBound
  <2>4. CASE ~Exposed(TRUE)
    <3>1. Front = Back
      BY <2>4 DEF Exposed, Front, Back, Moving, IInv, Bounds, TypeOK, ReadWithinQueue
    <3> QED
      BY <1>2, <1>3, <1>4, <2>1, <2>2, <2>4, <3>1 DEF LossBound
  <2> QED
    BY <2>3, <2>4
<1> QED
  BY <1>1, <1>5, <1>6

\* Copying and moving characters loses none of those that are kept.
LEMMA ReaderLoss ==
    ASSUME IInv, LossBound, vconsole_read
    PROVE  LossBound'
<1> USE DEF queueVars, histVars
<1>0. /\ Len(typed) \in Nat /\ queue_idx \in Nat /\ n \in Nat /\ i \in Nat
      /\ cnt \in Nat /\ Len(buf) \in Nat /\ Len(delivered) \in Nat
      /\ buf \in Seq(Nat) /\ delivered \in Seq(Nat)
      /\ ReadWithinQueue
      /\ races \in Nat /\ Late \in Nat
      /\ IsFiniteSet(Lost) /\ Cardinality(Lost) \in Nat
  <2>1. TypeOK /\ ReadWithinQueue
    BY DEF IInv, Bounds
  <2>2. Late \in Nat /\ IsFiniteSet(Lost) /\ Cardinality(Lost) \in Nat
    BY <2>1, LostFinite, CutTypes DEF IInv
  <2>3. buf \in Seq(Nat) /\ delivered \in Seq(Nat)
    BY <2>1 DEF TypeOK, Positions
  <2> QED
    BY <2>1, <2>2, <2>3 DEF TypeOK
<1>1. UNCHANGED <<typed, dropped, races>>
  BY ReaderFrame
<1>2. ASSUME \A p \in 1..Len(typed) : IsKept(p) => IsKept(p)', Late' = Late
      PROVE  LossBound'
  <2>1. Lost' \in SUBSET Lost
    BY <1>1, <1>2 DEF Lost
  <2>2. IsFiniteSet(Lost') /\ Cardinality(Lost') <= Cardinality(Lost)
    BY <1>0, <2>1, FS_Subset
  <2>3. Cardinality(Lost') \in Nat
    BY <2>2, FS_CardinalityType
  <2> QED
    BY <1>0, <1>1, <1>2, <2>2, <2>3 DEF LossBound
<1>3. CASE ReadStart
  <2>1. /\ pc = "idle" /\ pc' = "copy"
        /\ UNCHANGED <<input_queue, queue_idx, delivered>>
    BY <1>3 DEF ReadStart
  <2>2. KeptCells' = KeptCells /\ Late' = Late
    BY <1>0, <1>3, <2>1 DEF ReadStart, KeptCells, Front, Back, Moving, Late
  <2> QED
    BY <1>1, <1>2, <2>1, <2>2 DEF IsKept
<1>4. CASE ReadCopy
  <2>1. /\ pc = "copy" /\ pc' = "copy"
        /\ buf' = Append(buf, input_queue[i]) /\ i' = i + 1 /\ i < n
        /\ UNCHANGED <<input_queue, queue_idx, delivered, n, cnt>>
    BY <1>4 DEF ReadCopy
  <2>2. /\ Len(buf') = Len(buf) + 1
        /\ buf'[Len(buf) + 1] = input_queue[i]
        /\ \A k \in 1..Len(buf) : buf'[k] = buf[k]
    <3>1. input_queue[i] \in Nat
      BY <1>0, <2>1 DEF IInv, QueueFilled, ReadWithinQueue, Moving
    <3> QED
      BY <1>0, <2>1, <3>1, AppendProperties
  <2>3. KeptCells \subseteq KeptCells' \cup {i} /\ Late' = Late
    BY <1>0, <2>1 DEF KeptCells, Front, Back, Moving, Late
  <2>4. \A p : (\E k \in 1..Len(buf) : buf[k] = p)
                 => \E k \in 1..Len(buf') : buf'[k] = p
    BY <1>0, <2>2
  <2>5. \E k \in 1..Len(buf') : buf'[k] = input_queue[i]
    BY <1>0, <2>2
  <2> QED
    BY <1>1, <1>2, <2>1, <2>3, <2>4, <2>5 DEF IsKept
<1>5. CASE ReadRest
  <2>1. /\ pc = "copy" /\ pc' = "move"
        /\ UNCHANGED <<input_queue, queue_idx, delivered, buf>>
    BY <1>5 DEF ReadRest
  <2>2. KeptCells' = KeptCells /\ Late' = Late
    BY <1>0, <1>5 DEF ReadRest, KeptCells, Front, Back, Moving, Late
  <2> QED
    BY <1>1, <1>2, <2>1, <2>2 DEF IsKept
<1>6. CASE ReadMove
  <2>1. /\ pc = "move" /\ pc' = "store" /\ reg' = input_queue[n + i]
        /\ UNCHANGED <<input_queue, queue_idx, delivered, buf, n, i, cnt>>
    BY <1>6 DEF ReadMove
  <2>2. KeptCells \subseteq KeptCells' \cup {n + i} /\ Late' = Late
    <3>1. Front = i /\ Back = n + i /\ Front' = i /\ Back' = n + i + 1
      BY <2>1 DEF Front, Back, Moving
    <3>2. Late' = Late
      BY <2>1 DEF Moving, Late
    <3> QED
      BY <1>0, <2>1, <3>1, <3>2 DEF KeptCells
  <2> QED
    BY <1>1, <1>2, <2>1, <2>2 DEF IsKept
<1>7. CASE ReadStore
  <2>1. /\ pc = "store" /\ pc' = "move" /\ i' = i + 1 /\ n > 0
        /\ i \in Cells
        /\ \A c \in Cells : input_queue'[c] = IF c = i THEN reg ELSE input_queue[c]
        /\ UNCHANGED <<queue_idx, delivered, buf, n, cnt>>
    BY <1>0, <1>7, QueueLenAssumption
    DEF ReadStore, IInv, Bounds, TypeOK, ReadWithinQueue, Cells, Moving
  <2>2. /\ KeptCells \subseteq KeptCells' /\ i \notin KeptCells /\ i \in KeptCells'
        /\ KeptCells \subseteq Cells /\ Late' = Late
    <3>1. /\ Front = i /\ Back = n + i + 1
          /\ Front' = i + 1 /\ Back' = n + (i + 1)
      BY <2>1 DEF Front, Back, Moving
    <3>2. Late' = Late
      BY <2>1 DEF Moving, Late
    <3>3. i < queue_idx /\ queue_idx <= QueueLen
      BY <1>0, <2>1 DEF IInv, Bounds, TypeOK, ReadWithinQueue, Moving
    <3>4. KeptCells = 0..(i - 1) \cup (n + i + 1)..(queue_idx - 1)
      BY <3>1 DEF KeptCells
    <3>5. KeptCells' = 0..((i + 1) - 1) \cup (n + (i + 1))..(queue_idx - 1)
      BY <2>1, <3>1 DEF KeptCells
    <3>6. PICK q, j, b : q = queue_idx - 1 /\ j = i /\ b = n + i + 1
      OBVIOUS
    <3>7. q \in Int /\ j \in Nat /\ b \in Nat /\ j < b /\ j <= q /\ q <= QueueLen - 1
          /\ i - 1 = j - 1 /\ (i + 1) - 1 = j /\ n + (i + 1) = b
      BY <1>0, <2>1, <3>3, <3>6, QueueLenAssumption
    <3>8. KeptCells = 0..(j - 1) \cup b..q /\ KeptCells' = 0..j \cup b..q
      BY <3>4, <3>5, <3>6, <3>7
    <3>9. /\ 0..(j - 1) \subseteq 0..j /\ j \notin 0..(j - 1) /\ j \notin b..q
          /\ j \in 0..j /\ 0..(j - 1) \subseteq Cells /\ b..q \subseteq Cells
      BY <3>7, QueueLenAssumption DEF Cells
    <3> QED
      BY <3>2, <3>6, <3>8, <3>9
  <2>3. \A p : (\E c \in KeptCells : input_queue[c] = p)
                 => \E c \in KeptCells' : input_queue'[c] = p
    BY <2>1, <2>2
  <2>4. \E c \in KeptCells' : input_queue'[c] = reg
    BY <2>1, <2>2
  <2> QED
    BY <1>1, <1>2, <2>1, <2>2, <2>3, <2>4 DEF IsKept
<1>8. CASE ReadDone
  <2>1. /\ pc = "move" /\ pc' = "idle" /\ (n = 0 \/ i = cnt)
        /\ queue_idx' = queue_idx - n
        /\ delivered' = delivered \o buf
        /\ UNCHANGED input_queue
    BY <1>8 DEF ReadDone
  <2>2. /\ Len(delivered') = Len(delivered) + Len(buf)
        /\ \A k \in 1..Len(delivered) : delivered'[k] = delivered[k]
        /\ \A k \in 1..Len(buf) : delivered'[Len(delivered) + k] = buf[k]
    <3>1. /\ Len(delivered') = Len(delivered) + Len(buf)
          /\ \A k \in 1..(Len(delivered) + Len(buf)) :
                 delivered'[k] = IF k <= Len(delivered) THEN delivered[k]
                                 ELSE buf[k - Len(delivered)]
      BY <1>0, <2>1, ConcatProperties
    <3>2. ASSUME NEW k \in 1..Len(buf)
          PROVE  delivered'[Len(delivered) + k] = buf[k]
      <4>1. /\ Len(delivered) + k \in 1..(Len(delivered) + Len(buf))
            /\ ~(Len(delivered) + k <= Len(delivered))
            /\ (Len(delivered) + k) - Len(delivered) = k
        BY <1>0
      <4> QED
        BY <3>1, <4>1
    <3> QED
      BY <1>0, <3>1, <3>2
  <2>3. \A p : (\E k \in 1..Len(delivered) : delivered[k] = p)
               \/ (\E k \in 1..Len(buf) : buf[k] = p)
                 => \E k \in 1..Len(delivered') : delivered'[k] = p
    <3>1. \A k \in 1..Len(delivered) : k \in 1..Len(delivered')
      BY <1>0, <2>2
    <3>2. \A k \in 1..Len(buf) : Len(delivered) + k \in 1..Len(delivered')
      BY <1>0, <2>2
    <3> QED
      BY <2>2, <3>1, <3>2
  <2> DEFINE cut == {input_queue[c] : c \in (n + cnt)..(queue_idx - 1)}
  <2>4. CASE n = 0
    <3>1. KeptCells \subseteq KeptCells' /\ Late' = Late
      BY <1>0, <2>1, <2>4 DEF KeptCells, Front, Back, Moving, Late, ReadWithinQueue
    <3> QED
      BY <1>1, <1>2, <2>1, <2>3, <3>1 DEF IsKept
  <2>5. CASE n > 0
    <3>1. /\ KeptCells \subseteq KeptCells' \cup (n + cnt)..(queue_idx - 1)
          /\ Late = queue_idx - (n + cnt) /\ Late' = 0
          /\ n + cnt <= queue_idx
      BY <1>0, <2>1, <2>5
      DEF KeptCells, Front, Back, Moving, Late, ReadWithinQueue
    <3>2. Lost' \in SUBSET (Lost \cup cut)
      <4>1. ASSUME NEW p \in Lost', p \notin Lost PROVE p \in cut
        <5>1. IsKept(p) /\ ~IsKept(p)'
          BY <1>1, <4>1 DEF Lost
        <5>2. PICK c \in KeptCells : input_queue[c] = p
          BY <1>1, <2>1, <2>3, <5>1 DEF IsKept
        <5>3. c \notin KeptCells'
          BY <2>1, <5>1, <5>2 DEF IsKept
        <5> QED
          BY <3>1, <5>2, <5>3
      <4> QED
        BY <4>1
    <3>3. IsFiniteSet(cut) /\ Cardinality(cut) <= queue_idx - (n + cnt)
      <4>1. n + cnt \in Nat
        BY <1>0
      <4> QED
        BY <1>0, <3>1, <4>1, CellsHoldFew
    <3> HIDE DEF cut
    <3>4. /\ IsFiniteSet(Lost \cup cut)
          /\ Cardinality(Lost \cup cut) =
                 Cardinality(Lost) + Cardinality(cut) - Cardinality(Lost \cap cut)
      BY <1>0, <3>3, FS_Union
    <3>5. IsFiniteSet(Lost') /\ Cardinality(Lost') <= Cardinality(Lost \cup cut)
      BY <3>2, <3>4, FS_Subset
    <3>6. Lost \cap cut \in SUBSET Lost
      OBVIOUS
    <3>7. IsFiniteSet(Lost \cap cut)
      BY <1>0, <3>6, FS_Subset
    <3>8. /\ Cardinality(Lost') \in Nat /\ Cardinality(cut) \in Nat
          /\ Cardinality(Lost \cap cut) \in Nat /\ Cardinality(Lost \cup cut) \in Nat
      BY <3>3, <3>4, <3>5, <3>7, FS_CardinalityType
    <3>9. Cardinality(Lost) + Late <= races
      BY DEF LossBound
    <3> QED
      BY <1>0, <1>1, <3>1, <3>3, <3>4, <3>5, <3>8, <3>9 DEF LossBound
  <2> QED
    BY <1>0, <2>4, <2>5
<1> QED
  BY <1>3, <1>4, <1>5, <1>6, <1>7, <1>8 DEF vconsole_read

\* The bound on the loss holds initially, and every step keeps it.
LEMMA LossBoundInductive ==
    /\ Init => LossBound
    /\ IInv /\ LossBound /\ [Next]_vars => LossBound'
<1>1. ASSUME Init PROVE LossBound
  <2>1. Len(typed) = 0 /\ Late = 0 /\ races = 0
    BY <1>1 DEF Init, Late, Moving
  <2>2. Lost = {}
    BY <2>1 DEF Lost
  <2> QED
    BY <2>1, <2>2, FS_EmptySet DEF LossBound
<1>2. ASSUME IInv, LossBound, [Next]_vars PROVE LossBound'
  <2>1. CASE UNCHANGED <<queueVars, readerVars, histVars>>
    BY <1>2, <2>1
    DEF queueVars, readerVars, histVars, LossBound, Lost, Late, IsKept, KeptCells,
        Front, Back, Moving
  <2>2. CASE Press \/ Release
    <3>1. ModifiersOnly \/ Arrival
      BY <1>2, <2>2, HandlerCases DEF IInv, Bounds
    <3> QED
      BY <1>2, <2>1, <3>1, ArrivalLoss DEF ModifiersOnly
  <2>3. CASE vconsole_read
    BY <1>2, <2>3, ReaderLoss
  <2>4. CASE UNCHANGED vars
    BY <2>1, <2>4 DEF vars
  <2> QED
    BY <1>2, <2>2, <2>3, <2>4 DEF Next
<1> QED
  BY <1>1, <1>2

\* The damage of the race between vconsole_read and the handler is bounded:
\* every character that arrives while a read is exposed costs at most one of
\* the characters typed, whatever the length of the queue and of the reads.
THEOREM LossIsBounded == Spec => []LossBoundedByRaces
<1>1. ASSUME IInv, LossBound PROVE LossBoundedByRaces
  <2> SUFFICES ASSUME pc = "idle"
               PROVE  Cardinality(1..Len(typed) \ (Delivered \cup Queued \cup dropped))
                        <= races
    BY DEF LossBoundedByRaces
  <2>1. Late = 0
    BY DEF Late, Moving
  <2>2. KeptCells = 0..(queue_idx - 1)
    BY DEF KeptCells, Front, Back, Moving, IInv, Bounds, TypeOK
  <2>3. Lost = 1..Len(typed) \ (Delivered \cup Queued \cup dropped)
    BY <2>2 DEF Lost, IsKept, Delivered, Queued
  <2>4. Cardinality(Lost) \in Nat
    BY <1>1, LostFinite DEF IInv, Bounds
  <2> QED
    BY <1>1, <2>1, <2>3, <2>4 DEF LossBound
<1> QED
  BY <1>1, IInvInductive, LossBoundInductive, PTL DEF Spec
-----------------------------------------------------------------------------
(***************************************************************************)
(* The decoder.  Its state and the modifiers are determined, byte by byte, *)
(* by what is on the wire.  The invariant says where the bytes that are    *)
(* still to be handled lead: a path of decoder states d and a path of      *)
(* modifiers m, from the present ones to no sequence in progress and to    *)
(* the modifiers of the keys that are down, on which every byte is decoded *)
(* to the event it carries.                                                *)
(***************************************************************************)

DecoderStates == [rel : BOOLEAN, ign : 0..2, plane : {0, 1}]

State(rel, ign, plane) == [rel |-> rel, ign |-> ign, plane |-> plane]

\* No sequence is in progress.
Start == State(FALSE, 0, 0)

Prefixes(set) == IF set = 3 THEN {\hF0} ELSE {\hF0, \hE0, \hE1}

KeycodeIn(set, s, byte) ==
    CASE set = 3               -> scs3_keycodes(byte)
      [] set # 3 /\ s.ign = 0  -> scs2_keycodes(s.plane, byte)
      [] set # 3 /\ s.ign = 1  -> KeyPause
      [] set # 3 /\ s.ign = 2  -> Skip

\* The event a byte completes in a state of the decoder.
EventOf(set, s, byte) ==
    IF byte \in Prefixes(set) \/ KeycodeIn(set, s, byte) \in {NoKey, Skip}
    THEN NoEvent
    ELSE [kind |-> IF s.rel THEN "release" ELSE "press",
          key  |-> KeycodeIn(set, s, byte)]

\* The state of the decoder after a byte.
After(set, s, byte) ==
    IF byte = \hF0 THEN State(TRUE, s.ign, s.plane)
    ELSE IF set = 3 THEN State(FALSE, s.ign, s.plane)
    ELSE IF byte = \hE0 THEN State(s.rel, s.ign, 1)
    ELSE IF byte = \hE1 THEN State(s.rel, 2, s.plane)
    ELSE State(FALSE, IF s.ign = 0 THEN 0 ELSE s.ign - 1, 0)

\* The modifiers after an event, and the character it types under them.
ModsAfter(mods, e) ==
    CASE e.kind = "press" /\ ModifierKey(e.key) # "none" ->
             mods \cup {ModifierKey(e.key)}
      [] e.kind = "press" /\ e.key = CapsKey ->
             IF "CAPS" \in mods THEN mods \ {"CAPS"} ELSE mods \cup {"CAPS"}
      [] e.kind = "release" /\ ModifierKey(e.key) # "none" ->
             mods \ {ModifierKey(e.key)}
      [] OTHER -> mods

CharUnder(mods, key) ==
    LET ch == keycode_to_char((mods \cap SHIFT # {}) # (mods \cap {"CAPS"} # {}), key)
    IN  IF ch # 0 /\ mods \cap CTRL # {} THEN ch % 32 ELSE ch

CharTyped(mods, e) == IF e.kind = "press" THEN CharUnder(mods, e.key) ELSE 0

Events ==
    {NoEvent} \cup [kind : {"press", "release"}, key : Keycodes \ {NoKey}]

WireBytes == [byte : 0..255, event : Events, ch : 0..255]

\* d and m are the paths on which the decoder handles the bytes of w.
Decodes(set, w, d, m) ==
    /\ d \in [0..Len(w) -> DecoderStates]
    /\ m \in [0..Len(w) -> SUBSET Modifiers]
    /\ \A k \in 1..Len(w) :
           /\ d[k] = After(set, d[k - 1], w[k].byte)
           /\ w[k].event = EventOf(set, d[k - 1], w[k].byte)
           /\ m[k] = ModsAfter(m[k - 1], w[k].event)
           /\ w[k].ch = CharTyped(m[k - 1], w[k].event)

MeantMods == HeldModifiers \cup (IF caps THEN {"CAPS"} ELSE {})

OnPath(d, m) ==
    /\ Decodes(scancode_set, wire, d, m)
    /\ d[0] = State(release_next, ignore_next, scancode_plane)
    /\ m[0] = modifiers
    /\ d[Len(wire)] = Start
    /\ m[Len(wire)] = MeantMods

\* The keys pressed and not yet reported fit in what may still be typed.
PressesFit == Len(typed) + PressesOnWire <= MaxTyped

Ps2Inv ==
    /\ Bounds
    /\ Ps2TypeOK
    /\ wire \in Seq(WireBytes)
    /\ Supported => PressesFit /\ \E d, m : OnPath(d, m)

\* Every byte takes a state of the decoder to a state of the decoder.
LEMMA AfterType ==
    ASSUME NEW set \in {2, 3}, NEW s \in DecoderStates, NEW byte \in 0..255
    PROVE  After(set, s, byte) \in DecoderStates
<1>1. s.rel \in BOOLEAN /\ s.ign \in 0..2 /\ s.plane \in {0, 1}
  BY DEF DecoderStates
<1>2. s.ign # 0 => s.ign - 1 \in 0..2
  BY <1>1
<1>3. \A rel \in BOOLEAN, ign \in 0..2, plane \in {0, 1} :
          State(rel, ign, plane) \in DecoderStates
  BY DEF State, DecoderStates
<1>4. State(FALSE, IF s.ign = 0 THEN 0 ELSE s.ign - 1, 0) \in DecoderStates
  BY <1>1, <1>2, <1>3
<1>5. /\ State(TRUE, s.ign, s.plane) \in DecoderStates
      /\ State(FALSE, s.ign, s.plane) \in DecoderStates
      /\ State(s.rel, s.ign, 1) \in DecoderStates
      /\ State(s.rel, 2, s.plane) \in DecoderStates
  <2>1. 2 \in 0..2 /\ 0 \in 0..2
    OBVIOUS
  <2> QED
    BY <1>1, <1>3, <2>1, Zenon
<1> QED
  BY <1>4, <1>5, Zenon DEF After

\* The call an event stands for.
Called(e) ==
    /\ e.kind = "none" => UNCHANGED vars
    /\ e.kind = "press" => kb_key_pressed(e.key)
    /\ e.kind = "release" => kb_key_released(e.key)

\* Both decoders of ps2_key_pressed take the state of the decoder where After
\* says, and report what EventOf says.
LEMMA HandlerDecodes ==
    ASSUME Ps2TypeOK, Supported, ps2_key_pressed,
           NEW s, s = State(release_next, ignore_next, scancode_plane),
           NEW byte, byte = Head(wire).byte,
           NEW e, e = EventOf(scancode_set, s, byte)
    PROVE  /\ State(release_next', ignore_next', scancode_plane')
                 = After(scancode_set, s, byte)
           /\ report' = e
           /\ Called(e)
<1>1. /\ s.rel = release_next /\ s.ign = ignore_next /\ s.plane = scancode_plane
      /\ release_next \in BOOLEAN /\ ignore_next \in 0..2
  BY DEF State, Ps2TypeOK
<1> DEFINE key == KeycodeIn(scancode_set, s, byte)
<1>2. ASSUME Report(key), key \notin {NoKey, Skip}, byte \notin Prefixes(scancode_set)
      PROVE  report' = e /\ Called(e)
  <2>1. e = [kind |-> IF s.rel THEN "release" ELSE "press", key |-> key]
    BY <1>2 DEF EventOf
  <2> HIDE DEF key
  <2>2. CASE release_next
    <3>1. e = [kind |-> "release", key |-> key]
      BY <1>1, <2>1, <2>2, Zenon
    <3>2. kb_key_released(key) /\ report' = [kind |-> "release", key |-> key]
      BY <1>2, <2>2 DEF Report
    <3>3. e.kind = "release" /\ e.key = key
      BY <3>1
    <3> QED
      BY <3>1, <3>2, <3>3 DEF Called
  <2>3. CASE ~release_next
    <3>1. e.kind = "press" /\ e.key = key
      BY <1>1, <2>1, <2>3
    <3>2. kb_key_pressed(key) /\ report' = [kind |-> "press", key |-> key]
      BY <1>2, <2>3 DEF Report
    <3>3. report' = e
      BY <1>1, <2>1, <2>3, <3>2
    <3> QED
      BY <3>1, <3>2, <3>3 DEF Called
  <2> QED
    BY <2>2, <2>3
<1>3. ASSUME ReportNothing,
             byte \in Prefixes(scancode_set) \/ key \in {NoKey, Skip}
      PROVE  report' = e /\ Called(e)
  <2>1. e = NoEvent
    BY <1>3 DEF EventOf
  <2>2. e.kind = "none"
    BY <2>1 DEF NoEvent
  <2>3. Called(e)
    BY <1>3, <2>2 DEF Called, ReportNothing
  <2> QED
    BY <1>3, <2>1, <2>3 DEF ReportNothing
<1>4. CASE scancode_set = 3
  <2>1. DecodeSet3(byte) /\ key = scs3_keycodes(byte) /\ Prefixes(scancode_set) = {\hF0}
    BY <1>4 DEF ps2_key_pressed, KeycodeIn, Prefixes
  <2>2. CASE byte = \hF0
    BY <1>1, <1>3, <1>4, <2>1, <2>2 DEF DecodeSet3, After, State
  <2>3. CASE byte # \hF0
    <3>1. release_next' = FALSE /\ UNCHANGED <<ignore_next, scancode_plane>>
      BY <2>1, <2>3 DEF DecodeSet3
    <3>2. After(scancode_set, s, byte) = State(FALSE, s.ign, s.plane)
      BY <1>4, <2>3 DEF After
    <3>3. key # Skip
      BY <2>1 DEF scs3_keycodes, Skip, CapsKey, NoKey, KeyPrtSc, KeyPause
    <3>4. report' = e /\ Called(e)
      BY <1>2, <1>3, <2>1, <2>3, <3>3 DEF DecodeSet3
    <3> QED
      BY <1>1, <3>1, <3>2, <3>4
  <2> QED
    BY <2>2, <2>3
<1>5. CASE scancode_set = 2
  <2>1. DecodeSet2(byte) /\ Prefixes(scancode_set) = {\hF0, \hE0, \hE1}
    BY <1>5 DEF ps2_key_pressed, Prefixes
  <2>2. key = KeycodeSet2(byte)
    BY <1>1, <1>5 DEF KeycodeIn, KeycodeSet2
  <2>3. CASE byte = \hF0
    <3>1. After(scancode_set, s, byte) = State(TRUE, s.ign, s.plane)
      BY <1>5, <2>3 DEF After
    <3>2. ReportNothing /\ byte \in Prefixes(scancode_set)
      BY <2>1, <2>3 DEF DecodeSet2
    <3>3. State(release_next', ignore_next', scancode_plane') = State(TRUE, s.ign, s.plane)
      <4>1. /\ release_next' = (TRUE)
            /\ ignore_next' = s.ign
            /\ scancode_plane' = s.plane
        BY <1>1, <2>1, <2>3 DEF DecodeSet2
      <4> QED
        BY <4>1, Zenon
    <3> QED
      BY <1>3, <3>1, <3>2, <3>3
  <2>4. CASE byte = \hE0
    <3>1. After(scancode_set, s, byte) = State(s.rel, s.ign, 1)
      <4>1. scancode_set # 3 /\ \hE0 # \hF0 /\ \hE1 # \hF0 /\ \hE1 # \hE0
        BY <1>5
      <4> QED
        BY <2>4, <4>1 DEF After, State
    <3>2. ReportNothing /\ byte \in Prefixes(scancode_set)
      BY <2>1, <2>4 DEF DecodeSet2
    <3>3. State(release_next', ignore_next', scancode_plane') = State(s.rel, s.ign, 1)
      <4>1. /\ release_next' = (s.rel)
            /\ ignore_next' = s.ign
            /\ scancode_plane' = 1
        BY <1>1, <2>1, <2>4 DEF DecodeSet2
      <4> QED
        BY <4>1, Zenon
    <3> QED
      BY <1>3, <3>1, <3>2, <3>3
  <2>5. CASE byte = \hE1
    <3>1. After(scancode_set, s, byte) = State(s.rel, 2, s.plane)
      <4>1. scancode_set # 3 /\ \hE0 # \hF0 /\ \hE1 # \hF0 /\ \hE1 # \hE0
        BY <1>5
      <4> QED
        BY <2>5, <4>1 DEF After, State
    <3>2. ReportNothing /\ byte \in Prefixes(scancode_set)
      BY <2>1, <2>5 DEF DecodeSet2
    <3>3. State(release_next', ignore_next', scancode_plane') = State(s.rel, 2, s.plane)
      <4>1. /\ release_next' = (s.rel)
            /\ ignore_next' = 2
            /\ scancode_plane' = s.plane
        BY <1>1, <2>1, <2>5 DEF DecodeSet2
      <4> QED
        BY <4>1, Zenon
    <3> QED
      BY <1>3, <3>1, <3>2, <3>3
  <2>6. CASE byte \notin {\hF0, \hE0, \hE1}
    <3>1. SequenceEnds
      BY <2>1, <2>6 DEF DecodeSet2
    <3>2. After(scancode_set, s, byte) =
              State(FALSE, IF s.ign = 0 THEN 0 ELSE s.ign - 1, 0)
      <4>1. scancode_set # 3
        BY <1>5
      <4> QED
        BY <2>6, <4>1, Zenon DEF After
    <3>3. report' = e /\ Called(e)
      BY <1>2, <1>3, <2>1, <2>2, <2>6 DEF DecodeSet2
    <3> QED
      BY <1>1, <3>1, <3>2, <3>3 DEF SequenceEnds
  <2> QED
    BY <2>3, <2>4, <2>5, <2>6
<1> QED
  BY <1>4, <1>5 DEF Supported

\* What a call does to the modifiers and to what was typed.
LEMMA CallEffect ==
    ASSUME TypeOK, NEW e, e = NoEvent \/ e.kind \in {"press", "release"}, Called(e)
    PROVE  /\ modifiers' = ModsAfter(modifiers, e)
           /\ typed' = IF CharTyped(modifiers, e) = 0 THEN typed
                       ELSE Append(typed, CharTyped(modifiers, e))
<1>1. CharUnder(modifiers, e.key) = CharOf(e.key)
  BY DEF CharUnder, CharOf, kb_get_mod
<1>2. CASE e.kind = "none"
  BY <1>2 DEF Called, vars, histVars, ModsAfter, CharTyped
<1>3. CASE e.kind = "press"
  <2>1. kb_key_pressed(e.key) /\ CharTyped(modifiers, e) = CharOf(e.key)
    BY <1>1, <1>3 DEF Called, CharTyped
  <2>2. \A shift \in BOOLEAN : ModifierKey(e.key) # "none" \/ e.key = CapsKey
                                 => keycode_to_char(shift, e.key) = 0
    BY DEF ModifierKey, CapsKey, keycode_to_char
  <2>3. ModifierKey(e.key) # "none" \/ e.key = CapsKey => CharOf(e.key) = 0
    BY <2>2 DEF CharOf
  <2>4. CASE ModifierPressed(e.key)
    <3>1. /\ ModifierKey(e.key) # "none" /\ typed' = typed
          /\ modifiers' = modifiers \cup {ModifierKey(e.key)}
      BY <2>4 DEF ModifierPressed, kb_set_mod, histVars
    <3>2. e.key # CapsKey
      BY <3>1 DEF ModifierKey, CapsKey
    <3>3. ModsAfter(modifiers, e) = modifiers \cup {ModifierKey(e.key)}
      BY <1>3, <3>1, <3>2 DEF ModsAfter
    <3> QED
      BY <2>1, <2>3, <3>1, <3>3
  <2>5. CASE CapsPressed(e.key)
    <3>1. ModifierKey(e.key) = "none" /\ e.key = CapsKey
      BY <2>5 DEF CapsPressed, ModifierKey, CapsKey
    <3>2. modifiers' = IF ~kb_get_mod({"CAPS"}) THEN modifiers \cup {"CAPS"}
                                                ELSE modifiers \ {"CAPS"}
      BY <2>5 DEF CapsPressed, kb_set_mod
    <3>3. kb_get_mod({"CAPS"}) <=> "CAPS" \in modifiers
      BY DEF kb_get_mod
    <3>4. typed' = typed
      BY <2>5 DEF CapsPressed, histVars
    <3> QED
      BY <1>3, <2>1, <2>3, <3>1, <3>2, <3>3, <3>4 DEF ModsAfter
  <2>6. CASE OtherPressed(e.key)
    BY <1>3, <2>1, <2>6 DEF OtherPressed, Enqueue, histVars, ModsAfter
  <2> QED
    BY <2>1, <2>4, <2>5, <2>6 DEF kb_key_pressed
<1>4. CASE e.kind = "release"
  BY <1>4 DEF Called, kb_key_released, kb_set_mod, histVars, ModsAfter, CharTyped
<1> QED
  BY <1>2, <1>3, <1>4 DEF NoEvent
-----------------------------------------------------------------------------
\* Handling one byte leaves the rest of the paths.
LEMMA DecodesTail ==
    ASSUME NEW set, NEW w \in Seq(WireBytes), w # <<>>, NEW d, NEW m,
           Decodes(set, w, d, m)
    PROVE  \E d2, m2 : /\ Decodes(set, Tail(w), d2, m2)
                       /\ d2[0] = d[1] /\ d2[Len(Tail(w))] = d[Len(w)]
                       /\ m2[0] = m[1] /\ m2[Len(Tail(w))] = m[Len(w)]
<1>1. /\ Len(w) \in Nat /\ Len(w) > 0 /\ Len(Tail(w)) = Len(w) - 1
      /\ \A k \in 1..(Len(w) - 1) : Tail(w)[k] = w[k + 1]
  <2>1. Len(w) \in Nat /\ Len(w) # 0
    BY EmptySeq, LenProperties
  <2> QED
    BY <2>1, HeadTailProperties
<1>2. PICK t : t = Len(w) - 1
  OBVIOUS
<1>3. t \in Nat /\ Len(Tail(w)) = t /\ Len(w) = t + 1
  BY <1>1, <1>2
<1> DEFINE d2 == [k \in 0..t |-> d[k + 1]]
           m2 == [k \in 0..t |-> m[k + 1]]
<1>4. \A k \in 0..t : k + 1 \in 0..(t + 1)
  BY <1>3
<1>5. d2 \in [0..t -> DecoderStates] /\ m2 \in [0..t -> SUBSET Modifiers]
  BY <1>3, <1>4 DEF Decodes
<1>6. ASSUME NEW k \in 1..t
      PROVE  /\ d2[k] = After(set, d2[k - 1], Tail(w)[k].byte)
             /\ Tail(w)[k].event = EventOf(set, d2[k - 1], Tail(w)[k].byte)
             /\ m2[k] = ModsAfter(m2[k - 1], Tail(w)[k].event)
             /\ Tail(w)[k].ch = CharTyped(m2[k - 1], Tail(w)[k].event)
  <2>1. k \in 0..t /\ k - 1 \in 0..t /\ (k - 1) + 1 = (k + 1) - 1
    BY <1>3
  <2>2. /\ d2[k] = d[k + 1] /\ d2[k - 1] = d[(k + 1) - 1]
        /\ m2[k] = m[k + 1] /\ m2[k - 1] = m[(k + 1) - 1]
    BY <2>1
  <2>3. Tail(w)[k] = w[k + 1] /\ k + 1 \in 1..Len(w)
    BY <1>1, <1>3
  <2> HIDE DEF d2, m2
  <2> QED
    BY <2>2, <2>3 DEF Decodes
<1>7. /\ d2[0] = d[1] /\ d2[t] = d[t + 1]
      /\ m2[0] = m[1] /\ m2[t] = m[t + 1]
  BY <1>3
<1> HIDE DEF d2, m2
<1>8. Decodes(set, Tail(w), d2, m2)
  BY <1>3, <1>5, <1>6 DEF Decodes
<1> QED
  BY <1>3, <1>7, <1>8

\* The paths of two pieces of the wire that meet are a path of the whole.
LEMMA DecodesConcat ==
    ASSUME NEW set, NEW u \in Seq(WireBytes), NEW v \in Seq(WireBytes),
           NEW d1, NEW m1, Decodes(set, u, d1, m1),
           NEW d2, NEW m2, Decodes(set, v, d2, m2),
           d1[Len(u)] = d2[0], m1[Len(u)] = m2[0]
    PROVE  \E d, m : /\ Decodes(set, u \o v, d, m)
                     /\ d[0] = d1[0] /\ d[Len(u \o v)] = d2[Len(v)]
                     /\ m[0] = m1[0] /\ m[Len(u \o v)] = m2[Len(v)]
<1>1. PICK a, b : a = Len(u) /\ b = Len(v)
  OBVIOUS
<1>2. /\ a \in Nat /\ b \in Nat /\ Len(u \o v) = a + b
      /\ \A k \in 1..(a + b) : (u \o v)[k] = IF k <= a THEN u[k] ELSE v[k - a]
  BY <1>1, LenProperties, ConcatProperties
<1> DEFINE d == [k \in 0..(a + b) |-> IF k <= a THEN d1[k] ELSE d2[k - a]]
           m == [k \in 0..(a + b) |-> IF k <= a THEN m1[k] ELSE m2[k - a]]
<1>3. ASSUME NEW k \in 0..(a + b)
      PROVE  /\ k <= a => k \in 0..a
             /\ ~(k <= a) => k - a \in 0..b
  BY <1>2
<1>4. d \in [0..(a + b) -> DecoderStates] /\ m \in [0..(a + b) -> SUBSET Modifiers]
  BY <1>1, <1>3 DEF Decodes
<1>5. ASSUME NEW k \in 0..b
      PROVE  /\ a + k \in 0..(a + b)
             /\ d[a + k] = d2[k] /\ m[a + k] = m2[k]
  <2>1. a + k \in 0..(a + b) /\ (a + k) - a = k /\ (a + k <= a => k = 0 /\ a + k = a)
    BY <1>2
  <2> QED
    BY <1>1, <2>1
<1>6. ASSUME NEW k \in 0..a
      PROVE  d[k] = d1[k] /\ m[k] = m1[k]
  <2>1. k \in 0..(a + b) /\ k <= a
    BY <1>2
  <2> QED
    BY <2>1
<1> HIDE DEF d, m
<1>7. ASSUME NEW k \in 1..(a + b)
      PROVE  /\ d[k] = After(set, d[k - 1], (u \o v)[k].byte)
             /\ (u \o v)[k].event = EventOf(set, d[k - 1], (u \o v)[k].byte)
             /\ m[k] = ModsAfter(m[k - 1], (u \o v)[k].event)
             /\ (u \o v)[k].ch = CharTyped(m[k - 1], (u \o v)[k].event)
  <2>1. CASE k <= a
    <3>1. k \in 1..a /\ k \in 0..a /\ k - 1 \in 0..a /\ (u \o v)[k] = u[k]
      BY <1>2, <2>1
    <3> QED
      BY <1>1, <1>6, <3>1 DEF Decodes
  <2>2. CASE ~(k <= a)
    <3>1. PICK j : j = k - a
      OBVIOUS
    <3>2. /\ j \in 1..b /\ j \in 0..b /\ j - 1 \in 0..b /\ (u \o v)[k] = v[j]
          /\ a + j = k /\ a + (j - 1) = k - 1
      BY <1>2, <2>2, <3>1
    <3>3. d[k] = d2[j] /\ d[k - 1] = d2[j - 1] /\ m[k] = m2[j] /\ m[k - 1] = m2[j - 1]
      BY <1>5, <3>2
    <3> QED
      BY <1>1, <3>2, <3>3 DEF Decodes
  <2> QED
    BY <2>1, <2>2
<1>8. Decodes(set, u \o v, d, m)
  BY <1>2, <1>4, <1>7 DEF Decodes
<1>9. 0 \in 0..a /\ b \in 0..b
  BY <1>2
<1> QED
  BY <1>1, <1>2, <1>5, <1>6, <1>8, <1>9
-----------------------------------------------------------------------------
(***************************************************************************)
(* The sequences the keyboard sends are decoded from Start to Start, and   *)
(* report their event at the byte that completes it and nowhere else.      *)
(***************************************************************************)

SentBytes(code, event, ch) ==
    [k \in 1..Len(code.bytes) |->
        [byte  |-> code.bytes[k],
         event |-> IF k = code.last THEN event ELSE NoEvent,
         ch    |-> IF k = code.last THEN ch ELSE 0]]

CodePath(set, code, event, d) ==
    /\ code.bytes \in Seq(0..255)
    /\ code.last \in 1..Len(code.bytes)
    /\ d \in [0..Len(code.bytes) -> DecoderStates]
    /\ d[0] = Start /\ d[Len(code.bytes)] = Start
    /\ \A k \in 1..Len(code.bytes) :
           /\ d[k] = After(set, d[k - 1], code.bytes[k])
           /\ EventOf(set, d[k - 1], code.bytes[k])
                = IF k = code.last THEN event ELSE NoEvent

\* An event of a key takes modifiers to modifiers, and types a char.
LEMMA EventTypes ==
    ASSUME NEW mods \in SUBSET Modifiers, NEW e
    PROVE  /\ ModsAfter(mods, e) \in SUBSET Modifiers
           /\ CharTyped(mods, e) \in 0..255
<1>1. ModifierKey(e.key) # "none" => ModifierKey(e.key) \in Modifiers
  BY DEF ModifierKey, Modifiers
<1>2. "CAPS" \in Modifiers
  BY DEF Modifiers
<1>3. ModsAfter(mods, e) \in SUBSET Modifiers
  BY <1>1, <1>2, Zenon DEF ModsAfter
<1>4. \A sh \in BOOLEAN : keycode_to_char(sh, e.key) \in 0..127
  BY DEF keycode_to_char
<1> DEFINE sh == (mods \cap SHIFT # {}) # (mods \cap {"CAPS"} # {})
           ch == keycode_to_char(sh, e.key)
<1>5. sh \in BOOLEAN
  OBVIOUS
<1>6. ch \in 0..127
  BY <1>4, <1>5
<1>7. CharUnder(mods, e.key) = IF ch # 0 /\ mods \cap CTRL # {} THEN ch % 32 ELSE ch
  BY DEF CharUnder
<1> HIDE DEF ch
<1>8. CharUnder(mods, e.key) \in 0..255
  BY <1>6, <1>7
<1> QED
  BY <1>3, <1>8 DEF CharTyped

\* Nothing happens to the modifiers without an event.
LEMMA NoEventEffect ==
    \A mods : ModsAfter(mods, NoEvent) = mods /\ CharTyped(mods, NoEvent) = 0
  BY DEF ModsAfter, CharTyped, NoEvent

SentAs(w, code, event, ch) ==
    /\ w \in Seq(WireBytes) /\ Len(w) = Len(code.bytes)
    /\ \A k \in 1..Len(code.bytes) :
           /\ w[k].byte = code.bytes[k]
           /\ w[k].event = IF k = code.last THEN event ELSE NoEvent
           /\ w[k].ch = IF k = code.last THEN ch ELSE 0

\* The bytes of a sequence, as they are on the wire.
LEMMA SentTypes ==
    ASSUME NEW code, NEW event \in Events, NEW ch \in 0..255,
           code.bytes \in Seq(0..255), NEW w, w = SentBytes(code, event, ch)
    PROVE  SentAs(w, code, event, ch)
<1>1. PICK t, last : t = Len(code.bytes) /\ last = code.last
  OBVIOUS
<1>2. t \in Nat /\ 0 \in 0..255
  BY <1>1, LenProperties
<1>4. \A k \in 1..t : code.bytes[k] \in 0..255
  BY <1>1, ElementOfSeq
<1>5. w = [k \in 1..t |-> [byte  |-> code.bytes[k],
                            event |-> IF k = last THEN event ELSE NoEvent,
                            ch    |-> IF k = last THEN ch ELSE 0]]
  BY <1>1 DEF SentBytes
<1>6. ASSUME NEW k \in 1..t
      PROVE  /\ w[k] \in WireBytes
             /\ w[k].byte = code.bytes[k]
             /\ w[k].event = IF k = last THEN event ELSE NoEvent
             /\ w[k].ch = IF k = last THEN ch ELSE 0
  <2>1. PICK b, e, c : /\ b = code.bytes[k]
                       /\ e = IF k = last THEN event ELSE NoEvent
                       /\ c = IF k = last THEN ch ELSE 0
    OBVIOUS
  <2>2. w[k] = [byte |-> b, event |-> e, ch |-> c]
    BY <1>5, <2>1
  <2>3. b \in 0..255 /\ e \in Events /\ c \in 0..255
    BY <1>2, <1>4, <2>1 DEF Events
  <2>4. w[k] \in WireBytes
    BY <2>2, <2>3 DEF WireBytes
  <2> QED
    BY <2>1, <2>2, <2>4
<1>7. w = [k \in 1..t |-> w[k]]
  BY <1>5
<1>8. w \in Seq(WireBytes) /\ Len(w) = t
  BY <1>2, <1>6, <1>7, IsASeq
<1> QED
  BY <1>1, <1>6, <1>8 DEF SentAs

\* A sequence with a path of decoder states changes the modifiers as its
\* event does.
LEMMA SequenceDecodes ==
    ASSUME NEW set, NEW code, NEW event \in Events, NEW d,
           CodePath(set, code, event, d),
           NEW mods \in SUBSET Modifiers,
           NEW ch, ch = CharTyped(mods, event)
    PROVE  LET w == SentBytes(code, event, ch)
           IN  /\ w \in Seq(WireBytes) /\ Len(w) = Len(code.bytes)
               /\ \E m : /\ Decodes(set, w, d, m)
                         /\ m[0] = mods /\ m[Len(w)] = ModsAfter(mods, event)
<1> DEFINE w == SentBytes(code, event, ch)
<1>1. PICK t, last : t = Len(code.bytes) /\ last = code.last
  OBVIOUS
<1>2. t \in Nat /\ last \in 1..t
  BY <1>1, LenProperties DEF CodePath
<1>3. ch \in 0..255 /\ 0 \in 0..255 /\ ModsAfter(mods, event) \in SUBSET Modifiers
  BY EventTypes
<1>4. /\ w \in Seq(WireBytes) /\ Len(w) = t
      /\ \A k \in 1..t : /\ w[k].byte = code.bytes[k]
                         /\ w[k].event = IF k = last THEN event ELSE NoEvent
                         /\ w[k].ch = IF k = last THEN ch ELSE 0
  <2>1. code.bytes \in Seq(0..255)
    BY DEF CodePath
  <2>2. PICK v : v = SentBytes(code, event, ch)
    OBVIOUS
  <2>3. SentAs(v, code, event, ch)
    BY <1>3, <2>1, <2>2, SentTypes
  <2> QED
    BY <1>1, <2>2, <2>3, Zenon DEF SentAs
<1> HIDE DEF w
<1> DEFINE m == [k \in 0..t |-> IF k < last THEN mods ELSE ModsAfter(mods, event)]
<1>9. m \in [0..t -> SUBSET Modifiers]
  BY <1>3
<1>10. m[0] = mods /\ m[t] = ModsAfter(mods, event)
  BY <1>2
<1>11. ASSUME NEW k \in 1..t
       PROVE  /\ k # last => m[k] = m[k - 1]
              /\ k = last => m[k] = ModsAfter(mods, event) /\ m[k - 1] = mods
  <2>1. /\ k \in 0..t /\ k - 1 \in 0..t
        /\ k # last => (k < last <=> k - 1 < last)
        /\ k = last => ~(k < last) /\ k - 1 < last
    BY <1>2
  <2> QED
    BY <2>1
<1> HIDE DEF m
<1>12. ASSUME NEW k \in 1..t
       PROVE  /\ d[k] = After(set, d[k - 1], w[k].byte)
              /\ w[k].event = EventOf(set, d[k - 1], w[k].byte)
              /\ m[k] = ModsAfter(m[k - 1], w[k].event)
              /\ w[k].ch = CharTyped(m[k - 1], w[k].event)
  <2>1. /\ d[k] = After(set, d[k - 1], w[k].byte)
        /\ w[k].event = EventOf(set, d[k - 1], w[k].byte)
    BY <1>1, <1>4 DEF CodePath
  <2>2. CASE k = last
    BY <1>4, <1>11, <2>1, <2>2
  <2>3. CASE k # last
    BY <1>4, <1>11, <2>1, <2>3, NoEventEffect
  <2> QED
    BY <2>2, <2>3
<1>13. Decodes(set, w, d, m)
  BY <1>1, <1>4, <1>9, <1>12 DEF Decodes, CodePath
<1> QED
  BY <1>1, <1>4, <1>10, <1>13 DEF w

\* Handling byte in state s leads to state t and reports e.
Step(set, s, byte, t, e) ==
    /\ byte \in 0..255 /\ t \in DecoderStates
    /\ t = After(set, s, byte)
    /\ EventOf(set, s, byte) = e
LEMMA Path1 ==
    ASSUME NEW set, NEW e, NEW b1,
           Step(set, Start, b1, Start, e)
    PROVE  \E d : CodePath(set, Code(<<b1>>, 1), e, d)
<1> DEFINE c == Code(<<b1>>, 1)
           d == [k \in 0..1 |-> Start]
<1>0. /\ b1 \in 0..255 /\ Start \in DecoderStates
      /\ Start = After(set, Start, b1) /\ EventOf(set, Start, b1) = e
  BY DEF Step
<1>2. /\ <<b1>> \in Seq(0..255) /\ Len(<<b1>>) = 1 /\ <<b1>>[1] = b1
  BY <1>0
<1>3. c.bytes = <<b1>> /\ c.last = 1
  BY DEF Code
<1>4. /\ c.bytes \in Seq(0..255) /\ Len(c.bytes) = 1 /\ c.bytes[1] = b1
  BY <1>2, <1>3, Zenon
<1>5. /\ d \in [0..1 -> DecoderStates] /\ d[0] = Start /\ d[1] = Start
  BY <1>0
<1> HIDE DEF c, d
<1>6. CodePath(set, c, e, d)
  BY <1>0, <1>3, <1>4, <1>5 DEF CodePath
<1> QED
  BY <1>6 DEF c


\* The path of a sequence of two bytes, given the states between them.
LEMMA Path2 ==
    ASSUME NEW set, NEW e, NEW b1, NEW b2, NEW s1,
           Step(set, Start, b1, s1, NoEvent),
           Step(set, s1, b2, Start, e)
    PROVE  \E d : CodePath(set, Code(<<b1, b2>>, 2), e, d)
<1> DEFINE c == Code(<<b1, b2>>, 2)
           d == [k \in 0..2 |-> IF k = 1 THEN s1 ELSE Start]
<1>0. /\ b1 \in 0..255 /\ s1 \in DecoderStates
      /\ s1 = After(set, Start, b1) /\ EventOf(set, Start, b1) = NoEvent
      /\ b2 \in 0..255 /\ Start \in DecoderStates
      /\ Start = After(set, s1, b2) /\ EventOf(set, s1, b2) = e
  BY DEF Step
<1>2. /\ <<b1, b2>> \in Seq(0..255) /\ Len(<<b1, b2>>) = 2
      /\ <<b1, b2>>[1] = b1 /\ <<b1, b2>>[2] = b2
  BY <1>0
<1>3. c.bytes = <<b1, b2>> /\ c.last = 2
  BY DEF Code
<1>4. /\ c.bytes \in Seq(0..255) /\ Len(c.bytes) = 2 /\ c.bytes[1] = b1
      /\ c.bytes[2] = b2
  BY <1>2, <1>3, Zenon
<1>5. /\ d \in [0..2 -> DecoderStates] /\ d[0] = Start /\ d[1] = s1
      /\ d[2] = Start
  BY <1>0
<1> HIDE DEF c, d
<1>6. CodePath(set, c, e, d)
  BY <1>0, <1>3, <1>4, <1>5 DEF CodePath
<1> QED
  BY <1>6 DEF c


\* The path of a sequence of three bytes, given the states between them.
LEMMA Path3 ==
    ASSUME NEW set, NEW e, NEW b1, NEW b2, NEW b3, NEW s1, NEW s2,
           Step(set, Start, b1, s1, NoEvent),
           Step(set, s1, b2, s2, NoEvent),
           Step(set, s2, b3, Start, e)
    PROVE  \E d : CodePath(set, Code(<<b1, b2, b3>>, 3), e, d)
<1> DEFINE c == Code(<<b1, b2, b3>>, 3)
           d == [k \in 0..3 |-> IF k = 1 THEN s1 ELSE IF k = 2 THEN s2 ELSE
                                Start]
<1>0. /\ b1 \in 0..255 /\ s1 \in DecoderStates
      /\ s1 = After(set, Start, b1) /\ EventOf(set, Start, b1) = NoEvent
      /\ b2 \in 0..255 /\ s2 \in DecoderStates
      /\ s2 = After(set, s1, b2) /\ EventOf(set, s1, b2) = NoEvent
      /\ b3 \in 0..255 /\ Start \in DecoderStates
      /\ Start = After(set, s2, b3) /\ EventOf(set, s2, b3) = e
  BY DEF Step
<1>2. /\ <<b1, b2, b3>> \in Seq(0..255) /\ Len(<<b1, b2, b3>>) = 3
      /\ <<b1, b2, b3>>[1] = b1 /\ <<b1, b2, b3>>[2] = b2
      /\ <<b1, b2, b3>>[3] = b3
  BY <1>0
<1>3. c.bytes = <<b1, b2, b3>> /\ c.last = 3
  BY DEF Code
<1>4. /\ c.bytes \in Seq(0..255) /\ Len(c.bytes) = 3 /\ c.bytes[1] = b1
      /\ c.bytes[2] = b2 /\ c.bytes[3] = b3
  BY <1>2, <1>3, Zenon
<1>5. /\ d \in [0..3 -> DecoderStates] /\ d[0] = Start /\ d[1] = s1
      /\ d[2] = s2 /\ d[3] = Start
  BY <1>0
<1> HIDE DEF c, d
<1>6. CodePath(set, c, e, d)
  BY <1>0, <1>3, <1>4, <1>5 DEF CodePath
<1> QED
  BY <1>6 DEF c


\* The path of a sequence of four bytes, given the states between them.
LEMMA Path4 ==
    ASSUME NEW set, NEW e, NEW b1, NEW b2, NEW b3, NEW b4, NEW s1, NEW s2,
           NEW s3,
           Step(set, Start, b1, s1, NoEvent),
           Step(set, s1, b2, s2, NoEvent),
           Step(set, s2, b3, s3, NoEvent),
           Step(set, s3, b4, Start, e)
    PROVE  \E d : CodePath(set, Code(<<b1, b2, b3, b4>>, 4), e, d)
<1> DEFINE c == Code(<<b1, b2, b3, b4>>, 4)
           d == [k \in 0..4 |-> IF k = 1 THEN s1 ELSE IF k = 2 THEN s2 ELSE
                                IF k = 3 THEN s3 ELSE Start]
<1>0. /\ b1 \in 0..255 /\ s1 \in DecoderStates
      /\ s1 = After(set, Start, b1) /\ EventOf(set, Start, b1) = NoEvent
      /\ b2 \in 0..255 /\ s2 \in DecoderStates
      /\ s2 = After(set, s1, b2) /\ EventOf(set, s1, b2) = NoEvent
      /\ b3 \in 0..255 /\ s3 \in DecoderStates
      /\ s3 = After(set, s2, b3) /\ EventOf(set, s2, b3) = NoEvent
      /\ b4 \in 0..255 /\ Start \in DecoderStates
      /\ Start = After(set, s3, b4) /\ EventOf(set, s3, b4) = e
  BY DEF Step
<1>2. /\ <<b1, b2, b3, b4>> \in Seq(0..255) /\ Len(<<b1, b2, b3, b4>>) = 4
      /\ <<b1, b2, b3, b4>>[1] = b1 /\ <<b1, b2, b3, b4>>[2] = b2
      /\ <<b1, b2, b3, b4>>[3] = b3 /\ <<b1, b2, b3, b4>>[4] = b4
  BY <1>0
<1>3. c.bytes = <<b1, b2, b3, b4>> /\ c.last = 4
  BY DEF Code
<1>4. /\ c.bytes \in Seq(0..255) /\ Len(c.bytes) = 4 /\ c.bytes[1] = b1
      /\ c.bytes[2] = b2 /\ c.bytes[3] = b3 /\ c.bytes[4] = b4
  BY <1>2, <1>3, Zenon
<1>5. /\ d \in [0..4 -> DecoderStates] /\ d[0] = Start /\ d[1] = s1
      /\ d[2] = s2 /\ d[3] = s3 /\ d[4] = Start
  BY <1>0
<1> HIDE DEF c, d
<1>6. CodePath(set, c, e, d)
  BY <1>0, <1>3, <1>4, <1>5 DEF CodePath
<1> QED
  BY <1>6 DEF c


\* The path of a sequence of five bytes, given the states between them.
LEMMA Path5 ==
    ASSUME NEW set, NEW e, NEW b1, NEW b2, NEW b3, NEW b4, NEW b5, NEW s1,
           NEW s2, NEW s3, NEW s4,
           Step(set, Start, b1, s1, NoEvent),
           Step(set, s1, b2, s2, NoEvent),
           Step(set, s2, b3, s3, NoEvent),
           Step(set, s3, b4, s4, NoEvent),
           Step(set, s4, b5, Start, e)
    PROVE  \E d : CodePath(set, Code(<<b1, b2, b3, b4, b5>>, 5), e, d)
<1> DEFINE c == Code(<<b1, b2, b3, b4, b5>>, 5)
           d == [k \in 0..5 |-> IF k = 1 THEN s1 ELSE IF k = 2 THEN s2 ELSE
                                IF k = 3 THEN s3 ELSE IF k = 4 THEN s4 ELSE
                                Start]
<1>0. /\ b1 \in 0..255 /\ s1 \in DecoderStates
      /\ s1 = After(set, Start, b1) /\ EventOf(set, Start, b1) = NoEvent
      /\ b2 \in 0..255 /\ s2 \in DecoderStates
      /\ s2 = After(set, s1, b2) /\ EventOf(set, s1, b2) = NoEvent
      /\ b3 \in 0..255 /\ s3 \in DecoderStates
      /\ s3 = After(set, s2, b3) /\ EventOf(set, s2, b3) = NoEvent
      /\ b4 \in 0..255 /\ s4 \in DecoderStates
      /\ s4 = After(set, s3, b4) /\ EventOf(set, s3, b4) = NoEvent
      /\ b5 \in 0..255 /\ Start \in DecoderStates
      /\ Start = After(set, s4, b5) /\ EventOf(set, s4, b5) = e
  BY DEF Step
<1>2. /\ <<b1, b2, b3, b4, b5>> \in Seq(0..255)
      /\ Len(<<b1, b2, b3, b4, b5>>) = 5 /\ <<b1, b2, b3, b4, b5>>[1] = b1
      /\ <<b1, b2, b3, b4, b5>>[2] = b2 /\ <<b1, b2, b3, b4, b5>>[3] = b3
      /\ <<b1, b2, b3, b4, b5>>[4] = b4 /\ <<b1, b2, b3, b4, b5>>[5] = b5
  BY <1>0
<1>3. c.bytes = <<b1, b2, b3, b4, b5>> /\ c.last = 5
  BY DEF Code
<1>4. /\ c.bytes \in Seq(0..255) /\ Len(c.bytes) = 5 /\ c.bytes[1] = b1
      /\ c.bytes[2] = b2 /\ c.bytes[3] = b3 /\ c.bytes[4] = b4
      /\ c.bytes[5] = b5
  BY <1>2, <1>3, Zenon
<1>5. /\ d \in [0..5 -> DecoderStates] /\ d[0] = Start /\ d[1] = s1
      /\ d[2] = s2 /\ d[3] = s3 /\ d[4] = s4 /\ d[5] = Start
  BY <1>0
<1> HIDE DEF c, d
<1>6. CodePath(set, c, e, d)
  BY <1>0, <1>3, <1>4, <1>5 DEF CodePath
<1> QED
  BY <1>6 DEF c


\* The release of PrtSc is the only sequence of six bytes, and the only one
\* that goes on after the byte that completes it.
LEMMA Path6 ==
    ASSUME NEW set, NEW e, NEW b1, NEW b2, NEW b3, NEW b4, NEW b5, NEW b6,
           NEW s1, NEW s2, NEW s3, NEW s4, NEW s5,
           Step(set, Start, b1, s1, NoEvent),
           Step(set, s1, b2, s2, NoEvent),
           Step(set, s2, b3, s3, e),
           Step(set, s3, b4, s4, NoEvent),
           Step(set, s4, b5, s5, NoEvent),
           Step(set, s5, b6, Start, NoEvent)
    PROVE  \E d : CodePath(set, Code(<<b1, b2, b3, b4, b5, b6>>, 3), e, d)
<1> DEFINE c == Code(<<b1, b2, b3, b4, b5, b6>>, 3)
           d == [k \in 0..6 |-> IF k = 1 THEN s1 ELSE IF k = 2 THEN s2 ELSE
                                IF k = 3 THEN s3 ELSE IF k = 4 THEN s4 ELSE
                                IF k = 5 THEN s5 ELSE Start]
<1>0. /\ b1 \in 0..255 /\ s1 \in DecoderStates
      /\ s1 = After(set, Start, b1) /\ EventOf(set, Start, b1) = NoEvent
      /\ b2 \in 0..255 /\ s2 \in DecoderStates
      /\ s2 = After(set, s1, b2) /\ EventOf(set, s1, b2) = NoEvent
      /\ b3 \in 0..255 /\ s3 \in DecoderStates
      /\ s3 = After(set, s2, b3) /\ EventOf(set, s2, b3) = e
      /\ b4 \in 0..255 /\ s4 \in DecoderStates
      /\ s4 = After(set, s3, b4) /\ EventOf(set, s3, b4) = NoEvent
      /\ b5 \in 0..255 /\ s5 \in DecoderStates
      /\ s5 = After(set, s4, b5) /\ EventOf(set, s4, b5) = NoEvent
      /\ b6 \in 0..255 /\ Start \in DecoderStates
      /\ Start = After(set, s5, b6) /\ EventOf(set, s5, b6) = NoEvent
  BY DEF Step
<1>2. /\ <<b1, b2, b3, b4, b5, b6>> \in Seq(0..255)
      /\ Len(<<b1, b2, b3, b4, b5, b6>>) = 6
      /\ <<b1, b2, b3, b4, b5, b6>>[1] = b1
      /\ <<b1, b2, b3, b4, b5, b6>>[2] = b2
      /\ <<b1, b2, b3, b4, b5, b6>>[3] = b3
      /\ <<b1, b2, b3, b4, b5, b6>>[4] = b4
      /\ <<b1, b2, b3, b4, b5, b6>>[5] = b5
      /\ <<b1, b2, b3, b4, b5, b6>>[6] = b6
  BY <1>0
<1>3. c.bytes = <<b1, b2, b3, b4, b5, b6>> /\ c.last = 3
  BY DEF Code
<1>4. /\ c.bytes \in Seq(0..255) /\ Len(c.bytes) = 6 /\ c.bytes[1] = b1
      /\ c.bytes[2] = b2 /\ c.bytes[3] = b3 /\ c.bytes[4] = b4
      /\ c.bytes[5] = b5 /\ c.bytes[6] = b6
  BY <1>2, <1>3, Zenon
<1>5. /\ d \in [0..6 -> DecoderStates] /\ d[0] = Start /\ d[1] = s1
      /\ d[2] = s2 /\ d[3] = s3 /\ d[4] = s4 /\ d[5] = s5 /\ d[6] = Start
  BY <1>0
<1> HIDE DEF c, d
<1>6. CodePath(set, c, e, d)
  BY <1>0, <1>3, <1>4, <1>5 DEF CodePath
<1> QED
  BY <1>6 DEF c

\* The states inside a sequence: after F0, after E0, after E0 F0, and while
\* the bytes of the Pause sequence are counted, without and with F0.
Rel     == State(TRUE, 0, 0)
Ext     == State(FALSE, 0, 1)
RelExt  == State(TRUE, 0, 1)
Two     == State(FALSE, 2, 0)
RelTwo  == State(TRUE, 2, 0)
One     == State(FALSE, 1, 0)
RelOne  == State(TRUE, 1, 0)

\* The states inside a sequence are states of the decoder.
LEMMA InnerStates ==
    /\ Start \in DecoderStates /\ Rel \in DecoderStates /\ Ext \in DecoderStates
    /\ RelExt \in DecoderStates /\ Two \in DecoderStates
    /\ RelTwo \in DecoderStates /\ One \in DecoderStates
    /\ RelOne \in DecoderStates
  BY DEF Start, Rel, Ext, RelExt, Two, RelTwo, One, RelOne, State, DecoderStates

\* A prefix byte is remembered and reports nothing.
LEMMA PrefixBytes ==
    /\ \A set \in {2, 3} : Step(set, Start, \hF0, Rel, NoEvent)
    /\ Step(2, Start, \hE0, Ext, NoEvent)
    /\ Step(2, Start, \hE1, Two, NoEvent)
    /\ Step(2, Ext, \hF0, RelExt, NoEvent)
    /\ Step(2, Two, \hF0, RelTwo, NoEvent)
    /\ Step(2, One, \hF0, RelOne, NoEvent)
<1>1. \A set \in {2, 3} : \hF0 \in Prefixes(set)
  BY DEF Prefixes
<1>2. \hE0 \in Prefixes(2) /\ \hE1 \in Prefixes(2)
  BY DEF Prefixes
<1>3. /\ \A set \in {2, 3} : After(set, Start, \hF0) = Rel
      /\ After(2, Ext, \hF0) = RelExt
      /\ After(2, Two, \hF0) = RelTwo
      /\ After(2, One, \hF0) = RelOne
  BY DEF After, State, Start, Rel, Ext, RelExt, Two, RelTwo, One, RelOne
<1>4. After(2, Start, \hE0) = Ext /\ After(2, Start, \hE1) = Two
  BY DEF After, State, Start, Ext, Two
<1>5. \A set, s, byte : byte \in Prefixes(set) => EventOf(set, s, byte) = NoEvent
  BY DEF EventOf
<1>6. /\ \A set \in {2, 3} : EventOf(set, Start, \hF0) = NoEvent
      /\ EventOf(2, Start, \hE0) = NoEvent /\ EventOf(2, Start, \hE1) = NoEvent
      /\ EventOf(2, Ext, \hF0) = NoEvent /\ EventOf(2, Two, \hF0) = NoEvent
      /\ EventOf(2, One, \hF0) = NoEvent
  BY <1>1, <1>2, <1>5
<1>7. \hF0 \in 0..255 /\ \hE0 \in 0..255 /\ \hE1 \in 0..255
  OBVIOUS
<1> QED
  BY <1>3, <1>4, <1>6, <1>7, InnerStates DEF Step

\* What a byte that is no prefix reports, before and after F0.
LEMMA KeyEvents ==
    ASSUME NEW set, NEW byte, byte \notin Prefixes(set), NEW s, NEW key,
           key = KeycodeIn(set, s, byte)
    PROVE  /\ key = Skip => EventOf(set, s, byte) = NoEvent
           /\ key # Skip /\ ~s.rel => EventOf(set, s, byte) = Event("press", key)
           /\ key # Skip /\ s.rel => EventOf(set, s, byte) = Event("release", key)
<1>1. EventOf(set, s, byte) =
          IF key \in {NoKey, Skip} THEN NoEvent
          ELSE [kind |-> IF s.rel THEN "release" ELSE "press", key |-> key]
  BY DEF EventOf
<1>2. key = Skip => EventOf(set, s, byte) = NoEvent
  BY <1>1
<1>3. ASSUME key # Skip, ~s.rel
      PROVE  EventOf(set, s, byte) = Event("press", key)
  <2>1. CASE key = NoKey
    BY <1>1, <2>1 DEF Event
  <2>2. CASE key # NoKey
    BY <1>1, <1>3, <2>2, Zenon DEF Event
  <2> QED
    BY <2>1, <2>2
<1>4. ASSUME key # Skip, s.rel
      PROVE  EventOf(set, s, byte) = Event("release", key)
  <2>1. CASE key = NoKey
    BY <1>1, <2>1 DEF Event
  <2>2. CASE key # NoKey
    BY <1>1, <1>4, <2>2, Zenon DEF Event
  <2> QED
    BY <2>1, <2>2
<1> QED
  BY <1>2, <1>3, <1>4, Zenon

\* A byte of set 3 that is no prefix ends its sequence.
LEMMA KeyBytesSet3 ==
    ASSUME NEW byte \in 0..255, byte # \hF0, NEW key, key = scs3_keycodes(byte)
    PROVE  /\ Step(3, Start, byte, Start, Event("press", key))
           /\ Step(3, Rel, byte, Start, Event("release", key))
<1>1. After(3, Start, byte) = Start /\ After(3, Rel, byte) = Start
  BY DEF After, State, Start, Rel
<1>2. key # Skip
  BY DEF scs3_keycodes, Skip, CapsKey, NoKey, KeyPrtSc, KeyPause
<1>3. byte \notin Prefixes(3) /\ ~Start.rel /\ Rel.rel
  BY DEF Prefixes, Start, Rel, State
<1>4. key = KeycodeIn(3, Start, byte) /\ key = KeycodeIn(3, Rel, byte)
  BY DEF KeycodeIn
<1>5. /\ EventOf(3, Start, byte) = Event("press", key)
      /\ EventOf(3, Rel, byte) = Event("release", key)
  BY <1>2, <1>3, <1>4, KeyEvents
<1> QED
  BY <1>1, <1>5, InnerStates DEF Step

\* A byte of set 2 that is no prefix ends its sequence, unless it is the
\* first of the two that follow E1.
LEMMA KeyBytesSet2 ==
    ASSUME NEW byte \in 0..255, byte \notin {\hF0, \hE0, \hE1},
           NEW key, NEW xkey,
           key = scs2_keycodes(0, byte), xkey = scs2_keycodes(1, byte)
    PROVE  /\ Step(2, Start, byte, Start, Event("press", key))
           /\ Step(2, Rel, byte, Start, Event("release", key))
           /\ xkey = Skip => /\ Step(2, Ext, byte, Start, NoEvent)
                             /\ Step(2, RelExt, byte, Start, NoEvent)
           /\ xkey # Skip => /\ Step(2, Ext, byte, Start, Event("press", xkey))
                             /\ Step(2, RelExt, byte, Start, Event("release", xkey))
           /\ Step(2, Two, byte, One, NoEvent)
           /\ Step(2, RelTwo, byte, One, NoEvent)
           /\ Step(2, One, byte, Start, Event("press", KeyPause))
           /\ Step(2, RelOne, byte, Start, Event("release", KeyPause))
<1>1. /\ After(2, Start, byte) = Start /\ After(2, Rel, byte) = Start
      /\ After(2, Ext, byte) = Start /\ After(2, RelExt, byte) = Start
  BY DEF After, State, Start, Rel, Ext, RelExt
<1>2. /\ After(2, Two, byte) = One /\ After(2, RelTwo, byte) = One
      /\ After(2, One, byte) = Start /\ After(2, RelOne, byte) = Start
  BY DEF After, State, Start, Two, RelTwo, One, RelOne
<1>3. key # Skip /\ KeyPause # Skip
  BY DEF scs2_keycodes, Skip, CapsKey, NoKey, KeyPause
<1>4. byte \notin Prefixes(2)
  BY DEF Prefixes
<1>5. /\ ~Start.rel /\ ~Ext.rel /\ ~Two.rel /\ ~One.rel
      /\ Rel.rel /\ RelExt.rel /\ RelTwo.rel /\ RelOne.rel
  BY DEF Start, Ext, Two, One, Rel, RelExt, RelTwo, RelOne, State
<1>6. /\ Start.ign = 0 /\ Rel.ign = 0 /\ Ext.ign = 0 /\ RelExt.ign = 0
      /\ Start.plane = 0 /\ Rel.plane = 0 /\ Ext.plane = 1 /\ RelExt.plane = 1
      /\ Two.ign = 2 /\ RelTwo.ign = 2 /\ One.ign = 1 /\ RelOne.ign = 1
  BY DEF Start, Ext, Two, One, Rel, RelExt, RelTwo, RelOne, State
<1>7. /\ key = KeycodeIn(2, Start, byte) /\ key = KeycodeIn(2, Rel, byte)
      /\ xkey = KeycodeIn(2, Ext, byte) /\ xkey = KeycodeIn(2, RelExt, byte)
      /\ Skip = KeycodeIn(2, Two, byte) /\ Skip = KeycodeIn(2, RelTwo, byte)
      /\ KeyPause = KeycodeIn(2, One, byte) /\ KeyPause = KeycodeIn(2, RelOne, byte)
  BY <1>6 DEF KeycodeIn
<1>8. /\ EventOf(2, Start, byte) = Event("press", key)
      /\ EventOf(2, Rel, byte) = Event("release", key)
  BY <1>3, <1>4, <1>5, <1>7, KeyEvents
<1>9. /\ xkey = Skip => /\ EventOf(2, Ext, byte) = NoEvent
                        /\ EventOf(2, RelExt, byte) = NoEvent
      /\ xkey # Skip => /\ EventOf(2, Ext, byte) = Event("press", xkey)
                        /\ EventOf(2, RelExt, byte) = Event("release", xkey)
  BY <1>4, <1>5, <1>7, KeyEvents
<1>10. EventOf(2, Two, byte) = NoEvent /\ EventOf(2, RelTwo, byte) = NoEvent
  BY <1>4, <1>5, <1>7, KeyEvents
<1>11. /\ EventOf(2, One, byte) = Event("press", KeyPause)
       /\ EventOf(2, RelOne, byte) = Event("release", KeyPause)
  BY <1>3, <1>4, <1>5, <1>7, KeyEvents
<1> QED
  BY <1>1, <1>2, <1>8, <1>9, <1>10, <1>11, InnerStates DEF Step

\* Putting a byte before a byte.
LEMMA TwoBytes ==
    ASSUME NEW a \in 0..255, NEW b \in 0..255
    PROVE  <<a>> \o <<b>> = <<a, b>>
<1>1. <<a>> \in Seq(0..255) /\ <<b>> \in Seq(0..255) /\ <<a, b>> \in Seq(0..255)
  OBVIOUS
<1>2. Len(<<a>>) = 1 /\ Len(<<b>>) = 1 /\ Len(<<a, b>>) = 2
  OBVIOUS
<1>3. PICK s, t : s = <<a>> \o <<b>> /\ t = <<a, b>>
  OBVIOUS
<1>4. s \in Seq(0..255) /\ Len(s) = 2 /\ s[1] = a /\ s[2] = b
  BY <1>1, <1>2, <1>3, ConcatProperties
<1>5. t \in Seq(0..255) /\ Len(t) = 2 /\ t[1] = a /\ t[2] = b
  BY <1>1, <1>2, <1>3
<1>6. \A k \in 1..2 : s[k] = t[k]
  BY <1>4, <1>5
<1>7. s = t
  BY <1>4, <1>5, <1>6, SeqEqual
<1> QED
  BY <1>3, <1>7

\* The sequences of set 3 are one byte, and the same byte after F0.
LEMMA SequencesSet3 ==
    ASSUME NEW key \in Keycodes
    PROVE  /\ \E d : CodePath(3, MakeSet3(key), Event("press", key), d)
           /\ \E d : CodePath(3, BreakSet3(key), Event("release", key), d)
<1>1. \E b \in 0..255 : /\ MakeSet3(key) = Code(<<b>>, 1)
                        /\ b # \hF0 /\ scs3_keycodes(b) = key
  <2>1. key \in {\h21, \h61, CapsKey, \h80, \hA7, KeyPrtSc, KeyPause, NoKey}
    BY SentKeysAssumption
  <2>2. CASE key = \h21
    <3>1. /\ MakeSet3(key) = Code(<<\h16>>, 1) /\ \h16 \in 0..255
        /\ \h16 # \hF0 /\ scs3_keycodes(\h16) = key
      BY <2>2 DEF MakeSet3, scs3_keycodes, CapsKey, KeyPrtSc, KeyPause, NoKey
    <3> QED
      BY <3>1
  <2>3. CASE key = \h61
    <3>1. /\ MakeSet3(key) = Code(<<\h1C>>, 1) /\ \h1C \in 0..255
        /\ \h1C # \hF0 /\ scs3_keycodes(\h1C) = key
      BY <2>3 DEF MakeSet3, scs3_keycodes, CapsKey, KeyPrtSc, KeyPause, NoKey
    <3> QED
      BY <3>1
  <2>4. CASE key = CapsKey
    <3>1. /\ MakeSet3(key) = Code(<<\h14>>, 1) /\ \h14 \in 0..255
        /\ \h14 # \hF0 /\ scs3_keycodes(\h14) = key
      BY <2>4 DEF MakeSet3, scs3_keycodes, CapsKey, KeyPrtSc, KeyPause, NoKey
    <3> QED
      BY <3>1
  <2>5. CASE key = \h80
    <3>1. /\ MakeSet3(key) = Code(<<\h12>>, 1) /\ \h12 \in 0..255
        /\ \h12 # \hF0 /\ scs3_keycodes(\h12) = key
      BY <2>5 DEF MakeSet3, scs3_keycodes, CapsKey, KeyPrtSc, KeyPause, NoKey
    <3> QED
      BY <3>1
  <2>6. CASE key = \hA7
    <3>1. /\ MakeSet3(key) = Code(<<\h58>>, 1) /\ \h58 \in 0..255
        /\ \h58 # \hF0 /\ scs3_keycodes(\h58) = key
      BY <2>6 DEF MakeSet3, scs3_keycodes, CapsKey, KeyPrtSc, KeyPause, NoKey
    <3> QED
      BY <3>1
  <2>7. CASE key = KeyPrtSc
    <3>1. /\ MakeSet3(key) = Code(<<\h57>>, 1) /\ \h57 \in 0..255
        /\ \h57 # \hF0 /\ scs3_keycodes(\h57) = key
      BY <2>7 DEF MakeSet3, scs3_keycodes, CapsKey, KeyPrtSc, KeyPause, NoKey
    <3> QED
      BY <3>1
  <2>8. CASE key = KeyPause
    <3>1. /\ MakeSet3(key) = Code(<<\h62>>, 1) /\ \h62 \in 0..255
        /\ \h62 # \hF0 /\ scs3_keycodes(\h62) = key
      BY <2>8 DEF MakeSet3, scs3_keycodes, CapsKey, KeyPrtSc, KeyPause, NoKey
    <3> QED
      BY <3>1
  <2>9. CASE key = NoKey
    <3>1. /\ MakeSet3(key) = Code(<<\h5D>>, 1) /\ \h5D \in 0..255
        /\ \h5D # \hF0 /\ scs3_keycodes(\h5D) = key
      BY <2>9 DEF MakeSet3, scs3_keycodes, CapsKey, KeyPrtSc, KeyPause, NoKey
    <3> QED
      BY <3>1
  <2> QED
    BY <2>1, <2>2, <2>3, <2>4, <2>5, <2>6, <2>7, <2>8, <2>9
<1>2. PICK b \in 0..255 : /\ MakeSet3(key) = Code(<<b>>, 1)
                          /\ b # \hF0 /\ scs3_keycodes(b) = key
  BY <1>1
<1>3. /\ Step(3, Start, b, Start, Event("press", key))
      /\ Step(3, Rel, b, Start, Event("release", key))
  BY <1>2, KeyBytesSet3
<1>4. \E d : CodePath(3, MakeSet3(key), Event("press", key), d)
  BY <1>2, <1>3, Path1
<1>5. BreakSet3(key) = Code(<<\hF0, b>>, 2)
  <2>1. MakeSet3(key).bytes = <<b>>
    BY <1>2 DEF Code
  <2>2. <<\hF0>> \o <<b>> = <<\hF0, b>>
    <3>1. \hF0 \in 0..255
      OBVIOUS
    <3> QED
      BY <3>1, TwoBytes
  <2> QED
    BY <2>1, <2>2 DEF BreakSet3
<1>6. \E d : CodePath(3, Code(<<\hF0, b>>, 2), Event("release", key), d)
  <2>1. Step(3, Start, \hF0, Rel, NoEvent)
    BY PrefixBytes
  <2> QED
    BY <1>3, <2>1, Path2
<1> QED
  BY <1>4, <1>5, <1>6

\* The sequences of set 2: one byte, or a byte after E0, each with F0 before
\* it for a release, and the sequences of PrtSc and Pause.
LEMMA SequencesSet2 ==
    ASSUME NEW key \in Keycodes
    PROVE  /\ \E d : CodePath(2, MakeSet2(key), Event("press", key), d)
           /\ \E d : CodePath(2, BreakSet2(key), Event("release", key), d)
<1>1. key \in {\h21, \h61, CapsKey, \h80, \hA7, KeyPrtSc, KeyPause, NoKey}
  BY SentKeysAssumption
<1>2. PICK f0, e0, e1 : f0 = \hF0 /\ e0 = \hE0 /\ e1 = \hE1
  OBVIOUS
<1>0. /\ Step(2, Start, f0, Rel, NoEvent) /\ Step(2, Start, e0, Ext, NoEvent)
      /\ Step(2, Start, e1, Two, NoEvent) /\ Step(2, Ext, f0, RelExt, NoEvent)
      /\ Step(2, Two, f0, RelTwo, NoEvent) /\ Step(2, One, f0, RelOne, NoEvent)
  BY <1>2, PrefixBytes
<1>3. CASE key \in {\h21, \h61, CapsKey, \h80}
  <2>1. \E b \in 0..255 : /\ MakeSet2(key) = Code(<<b>>, 1)
                          /\ BreakSet2(key) = Code(<<\hF0, b>>, 2)
                          /\ b \notin {\hF0, \hE0, \hE1} /\ scs2_keycodes(0, b) = key
    <3>2. CASE key = \h21
      <4>1. /\ MakeSet2(key) = Code(<<\h16>>, 1) /\ \h16 \in 0..255
            /\ BreakSet2(key) = Code(<<\hF0, \h16>>, 2)
            /\ \h16 \notin {\hF0, \hE0, \hE1} /\ scs2_keycodes(0, \h16) = key
        BY <3>2 DEF MakeSet2, BreakSet2, scs2_keycodes, CapsKey, KeyPrtSc,
                   KeyPause, NoKey, Skip
      <4> QED
        BY <4>1
    <3>3. CASE key = \h61
      <4>1. /\ MakeSet2(key) = Code(<<\h1C>>, 1) /\ \h1C \in 0..255
            /\ BreakSet2(key) = Code(<<\hF0, \h1C>>, 2)
            /\ \h1C \notin {\hF0, \hE0, \hE1} /\ scs2_keycodes(0, \h1C) = key
        BY <3>3 DEF MakeSet2, BreakSet2, scs2_keycodes, CapsKey, KeyPrtSc,
                   KeyPause, NoKey, Skip
      <4> QED
        BY <4>1
    <3>4. CASE key = CapsKey
      <4>1. /\ MakeSet2(key) = Code(<<\h58>>, 1) /\ \h58 \in 0..255
            /\ BreakSet2(key) = Code(<<\hF0, \h58>>, 2)
            /\ \h58 \notin {\hF0, \hE0, \hE1} /\ scs2_keycodes(0, \h58) = key
        BY <3>4 DEF MakeSet2, BreakSet2, scs2_keycodes, CapsKey, KeyPrtSc,
                   KeyPause, NoKey, Skip
      <4> QED
        BY <4>1
    <3>5. CASE key = \h80
      <4>1. /\ MakeSet2(key) = Code(<<\h12>>, 1) /\ \h12 \in 0..255
            /\ BreakSet2(key) = Code(<<\hF0, \h12>>, 2)
            /\ \h12 \notin {\hF0, \hE0, \hE1} /\ scs2_keycodes(0, \h12) = key
        BY <3>5 DEF MakeSet2, BreakSet2, scs2_keycodes, CapsKey, KeyPrtSc,
                   KeyPause, NoKey, Skip
      <4> QED
        BY <4>1
    <3> QED
      BY <1>3, <3>2, <3>3, <3>4, <3>5
  <2>2. PICK b \in 0..255 : /\ MakeSet2(key) = Code(<<b>>, 1)
                            /\ BreakSet2(key) = Code(<<\hF0, b>>, 2)
                            /\ b \notin {\hF0, \hE0, \hE1}
                            /\ scs2_keycodes(0, b) = key
    BY <2>1
  <2>3. /\ Step(2, Start, b, Start, Event("press", key))
        /\ Step(2, Rel, b, Start, Event("release", key))
    BY <2>2, KeyBytesSet2
  <2>4. \E d : CodePath(2, Code(<<b>>, 1), Event("press", key), d)
    BY <2>3, Path1, Zenon
  <2>5. \E d : CodePath(2, Code(<<f0, b>>, 2), Event("release", key), d)
    BY <1>0, <2>3, Path2, Zenon
  <2> QED
    BY <1>2, <2>2, <2>4, <2>5
<1>4. CASE key \in {\hA7, NoKey}
  <2>1. \E b \in 0..255 : /\ MakeSet2(key) = Code(<<\hE0, b>>, 2)
                          /\ BreakSet2(key) = Code(<<\hE0, \hF0, b>>, 3)
                          /\ b \notin {\hF0, \hE0, \hE1} /\ scs2_keycodes(1, b) = key
    <3>2. CASE key = \hA7
      <4>1. /\ MakeSet2(key) = Code(<<\hE0, \h14>>, 2) /\ \h14 \in 0..255
            /\ BreakSet2(key) = Code(<<\hE0, \hF0, \h14>>, 3)
            /\ \h14 \notin {\hF0, \hE0, \hE1} /\ scs2_keycodes(1, \h14) = key
        BY <3>2 DEF MakeSet2, BreakSet2, scs2_keycodes, CapsKey, KeyPrtSc,
                   KeyPause, NoKey, Skip
      <4> QED
        BY <4>1
    <3>3. CASE key = NoKey
      <4>1. /\ MakeSet2(key) = Code(<<\hE0, \h21>>, 2) /\ \h21 \in 0..255
            /\ BreakSet2(key) = Code(<<\hE0, \hF0, \h21>>, 3)
            /\ \h21 \notin {\hF0, \hE0, \hE1} /\ scs2_keycodes(1, \h21) = key
        BY <3>3 DEF MakeSet2, BreakSet2, scs2_keycodes, CapsKey, KeyPrtSc,
                   KeyPause, NoKey, Skip
      <4> QED
        BY <4>1
    <3> QED
      BY <1>4, <3>2, <3>3
  <2>2. PICK b \in 0..255 : /\ MakeSet2(key) = Code(<<\hE0, b>>, 2)
                            /\ BreakSet2(key) = Code(<<\hE0, \hF0, b>>, 3)
                            /\ b \notin {\hF0, \hE0, \hE1}
                            /\ scs2_keycodes(1, b) = key
    BY <2>1
  <2>3. key # Skip
    BY <1>4 DEF Skip, NoKey
  <2>4. /\ Step(2, Ext, b, Start, Event("press", key))
        /\ Step(2, RelExt, b, Start, Event("release", key))
    BY <2>2, <2>3, KeyBytesSet2
  <2>5. \E d : CodePath(2, Code(<<e0, b>>, 2), Event("press", key), d)
    BY <1>0, <2>4, Path2, Zenon
  <2>6. \E d : CodePath(2, Code(<<e0, f0, b>>, 3), Event("release", key), d)
    BY <1>0, <2>4, Path3, Zenon
  <2> QED
    BY <1>2, <2>2, <2>5, <2>6
<1>5. CASE key = KeyPrtSc
  <2>1. /\ MakeSet2(key) = Code(<<\hE0, \h12, \hE0, \h7C>>, 4)
        /\ BreakSet2(key) = Code(<<\hE0, \hF0, \h7C, \hE0, \hF0, \h12>>, 3)
    BY <1>5 DEF MakeSet2, BreakSet2, CapsKey, KeyPrtSc, KeyPause, NoKey
  <2>2. PICK b, c : b = \h12 /\ c = \h7C
    OBVIOUS
  <2>7. b \in 0..255 /\ c \in 0..255
    BY <2>2
  <2>3. /\ b \notin {\hF0, \hE0, \hE1} /\ c \notin {\hF0, \hE0, \hE1}
        /\ scs2_keycodes(1, b) = Skip /\ scs2_keycodes(1, c) = key /\ key # Skip
    BY <1>5, <2>2 DEF scs2_keycodes, KeyPrtSc, Skip
  <2>4. /\ Step(2, Ext, b, Start, NoEvent) /\ Step(2, RelExt, b, Start, NoEvent)
        /\ Step(2, Ext, c, Start, Event("press", key))
        /\ Step(2, RelExt, c, Start, Event("release", key))
    BY <2>3, <2>7, KeyBytesSet2
  <2>5. \E d : CodePath(2, Code(<<e0, b, e0, c>>, 4), Event("press", key), d)
    BY <1>0, <2>4, Path4, Zenon
  <2>6. \E d : CodePath(2, Code(<<e0, f0, c, e0, f0, b>>, 3),
                        Event("release", key), d)
    BY <1>0, <2>4, Path6, Zenon
  <2> QED
    BY <1>2, <2>1, <2>2, <2>5, <2>6
<1>6. CASE key = KeyPause
  <2>1. /\ MakeSet2(key) = Code(<<\hE1, \h14, \h77>>, 3)
        /\ BreakSet2(key) = Code(<<\hE1, \hF0, \h14, \hF0, \h77>>, 5)
    BY <1>6 DEF MakeSet2, BreakSet2, CapsKey, KeyPrtSc, KeyPause, NoKey
  <2>2. PICK b, c : b = \h14 /\ c = \h77
    OBVIOUS
  <2>7. b \in 0..255 /\ c \in 0..255
    BY <2>2
  <2>3. /\ b \notin {\hF0, \hE0, \hE1} /\ c \notin {\hF0, \hE0, \hE1}
    BY <2>2
  <2>4. /\ Step(2, Two, b, One, NoEvent) /\ Step(2, RelTwo, b, One, NoEvent)
        /\ Step(2, One, c, Start, Event("press", key))
        /\ Step(2, RelOne, c, Start, Event("release", key))
    BY <1>6, <2>3, <2>7, KeyBytesSet2
  <2>5. \E d : CodePath(2, Code(<<e1, b, c>>, 3), Event("press", key), d)
    BY <1>0, <2>4, Path3, Zenon
  <2>6. \E d : CodePath(2, Code(<<e1, f0, b, f0, c>>, 5),
                        Event("release", key), d)
    BY <1>0, <2>4, Path5, Zenon
  <2> QED
    BY <1>2, <2>1, <2>2, <2>5, <2>6
<1> QED
  BY <1>1, <1>3, <1>4, <1>5, <1>6

\* Whatever key goes down or up, its sequence has a path.
LEMMA SequencesDecode ==
    ASSUME Supported, NEW key \in Keycodes
    PROVE  /\ \E d : CodePath(scancode_set, Make(key), Event("press", key), d)
           /\ \E d : CodePath(scancode_set, Break(key), Event("release", key), d)
<1>1. CASE scancode_set = 2
  BY <1>1, SequencesSet2 DEF Make, Break
<1>2. CASE scancode_set = 3
  BY <1>2, SequencesSet3 DEF Make, Break
<1> QED
  BY <1>1, <1>2 DEF Supported
-----------------------------------------------------------------------------
(***************************************************************************)
(* What the user means: the modifiers of the keys that are down.           *)
(***************************************************************************)

\* The event of a key is one that may be on the wire.
LEMMA EventOnWire ==
    ASSUME NEW key \in Keycodes, NEW kind \in {"press", "release"}
    PROVE  /\ Event(kind, key) \in Events
           /\ key = NoKey => Event(kind, key) = NoEvent
           /\ key # NoKey => Event(kind, key).kind = kind /\ Event(kind, key).key = key
<1>1. key = NoKey => Event(kind, key) = NoEvent
  BY DEF Event
<1>2. ASSUME key # NoKey
      PROVE  /\ Event(kind, key) \in Events
             /\ Event(kind, key).kind = kind /\ Event(kind, key).key = key
  <2>1. Event(kind, key) = [kind |-> kind, key |-> key]
    BY <1>2 DEF Event
  <2> QED
    BY <1>2, <2>1 DEF Events
<1> QED
  BY <1>1, <1>2 DEF Events

\* No two keys set the same modifier, and none but caps lock sets CAPS.
LEMMA ModifierKeyFacts ==
    /\ \A k, l : ModifierKey(k) = ModifierKey(l) /\ ModifierKey(k) # "none" => k = l
    /\ \A k : ModifierKey(k) # "CAPS"
    /\ ModifierKey(NoKey) = "none" /\ ModifierKey(CapsKey) = "none"
    /\ NoKey # CapsKey
<1>1. \A k : ModifierKey(k) # "CAPS"
  BY DEF ModifierKey
<1>2. /\ ModifierKey(NoKey) = "none" /\ ModifierKey(CapsKey) = "none"
      /\ NoKey # CapsKey
  BY DEF ModifierKey, NoKey, CapsKey
<1>3. ASSUME NEW k, NEW l, ModifierKey(k) = ModifierKey(l), ModifierKey(k) # "none"
      PROVE  k = l
  BY <1>3 DEF ModifierKey
<1> QED
  BY <1>1, <1>2, <1>3

\* A key that goes down changes the modifiers the user means as its press
\* changes those of the handler.
LEMMA MeantAfterDown ==
    ASSUME NEW key \in Keycodes, caps \in BOOLEAN,
           held' = held \cup {key},
           caps' = IF key = CapsKey THEN ~caps ELSE caps
    PROVE  MeantMods' = ModsAfter(MeantMods, Event("press", key))
<1>1. HeldModifiers' = HeldModifiers \cup ({ModifierKey(key)} \ {"none"})
  BY DEF HeldModifiers
<1>2. "CAPS" \notin HeldModifiers
  BY ModifierKeyFacts DEF HeldModifiers
<1>3. CASE key = NoKey
  <2>1. HeldModifiers' = HeldModifiers /\ caps' = caps
    BY <1>1, <1>3, ModifierKeyFacts
  <2>2. Event("press", key) = NoEvent
    BY <1>3 DEF Event
  <2> QED
    BY <2>1, <2>2, NoEventEffect DEF MeantMods
<1>4. CASE key # NoKey
  <2>1. PICK e : e = Event("press", key)
    OBVIOUS
  <2>2. e.kind = "press" /\ e.key = key
    BY <1>4, <2>1, EventOnWire
  <2>3. CASE ModifierKey(key) # "none"
    <3>1. ModsAfter(MeantMods, e) = MeantMods \cup {ModifierKey(key)}
      <4>1. key # CapsKey
        BY <2>3, ModifierKeyFacts
      <4> QED
        BY <2>2, <2>3, <4>1 DEF ModsAfter
    <3>2. caps' = caps
      BY <2>3, ModifierKeyFacts
    <3> QED
      BY <1>1, <2>1, <2>3, <3>1, <3>2 DEF MeantMods
  <2>4. CASE key = CapsKey
    <3>1. ModsAfter(MeantMods, e) = IF "CAPS" \in MeantMods
                                    THEN MeantMods \ {"CAPS"}
                                    ELSE MeantMods \cup {"CAPS"}
      BY <2>2, <2>4, ModifierKeyFacts DEF ModsAfter
    <3>2. HeldModifiers' = HeldModifiers /\ caps' = ~caps
      BY <1>1, <2>4, ModifierKeyFacts
    <3>3. CASE caps
      BY <1>2, <2>1, <3>1, <3>2, <3>3 DEF MeantMods
    <3>4. CASE ~caps
      BY <1>2, <2>1, <3>1, <3>2, <3>4 DEF MeantMods
    <3> QED
      BY <3>3, <3>4
  <2>5. CASE ModifierKey(key) = "none" /\ key # CapsKey
    <3>1. ModsAfter(MeantMods, e) = MeantMods
      BY <2>2, <2>5 DEF ModsAfter
    <3>2. HeldModifiers' = HeldModifiers /\ caps' = caps
      BY <1>1, <2>5
    <3> QED
      BY <2>1, <3>1, <3>2 DEF MeantMods
  <2> QED
    BY <2>3, <2>4, <2>5
<1> QED
  BY <1>3, <1>4

\* The same for a key that goes up.
LEMMA MeantAfterUp ==
    ASSUME NEW key \in Keycodes, held' = held \ {key}, UNCHANGED caps
    PROVE  MeantMods' = ModsAfter(MeantMods, Event("release", key))
<1>1. HeldModifiers' = HeldModifiers \ {ModifierKey(key)}
  <2>1. ASSUME NEW x \in HeldModifiers' PROVE x \in HeldModifiers \ {ModifierKey(key)}
    <3>1. PICK k \in held' : x = ModifierKey(k) /\ x # "none"
      BY <2>1 DEF HeldModifiers
    <3>2. k \in held /\ k # key
      BY <3>1
    <3> QED
      BY <3>1, <3>2, ModifierKeyFacts DEF HeldModifiers
  <2>2. ASSUME NEW x \in HeldModifiers \ {ModifierKey(key)} PROVE x \in HeldModifiers'
    BY <2>2 DEF HeldModifiers
  <2> QED
    BY <2>1, <2>2
<1>2. ModifierKey(key) # "CAPS"
  BY ModifierKeyFacts
<1>3. CASE key = NoKey
  <2>1. HeldModifiers' = HeldModifiers
    BY <1>1, <1>3, ModifierKeyFacts DEF HeldModifiers
  <2>2. Event("release", key) = NoEvent
    BY <1>3 DEF Event
  <2> QED
    BY <2>1, <2>2, NoEventEffect DEF MeantMods
<1>4. CASE key # NoKey
  <2>1. PICK e : e = Event("release", key)
    OBVIOUS
  <2>2. e.kind = "release" /\ e.key = key
    BY <1>4, <2>1, EventOnWire
  <2>3. CASE ModifierKey(key) # "none"
    <3>1. ModsAfter(MeantMods, e) = MeantMods \ {ModifierKey(key)}
      BY <2>2, <2>3 DEF ModsAfter
    <3> QED
      BY <1>1, <1>2, <2>1, <3>1 DEF MeantMods
  <2>4. CASE ModifierKey(key) = "none"
    <3>1. ModsAfter(MeantMods, e) = MeantMods
      BY <2>2, <2>4 DEF ModsAfter
    <3>2. HeldModifiers' = HeldModifiers
      BY <1>1, <2>4 DEF HeldModifiers
    <3> QED
      BY <2>1, <3>1, <3>2 DEF MeantMods
  <2> QED
    BY <2>3, <2>4
<1> QED
  BY <1>3, <1>4

\* The character the user means is the one a press types under the modifiers
\* the user means.
LEMMA MeantCharTyped ==
    ASSUME NEW key \in Keycodes, caps \in BOOLEAN
    PROVE  MeantChar(key) = CharTyped(MeantMods, Event("press", key))
<1>1. "CAPS" \notin HeldModifiers
  BY ModifierKeyFacts DEF HeldModifiers
<1>2. /\ MeantMods \cap SHIFT = HeldModifiers \cap SHIFT
      /\ MeantMods \cap CTRL = HeldModifiers \cap CTRL
  BY DEF MeantMods, SHIFT, CTRL
<1>3. (MeantMods \cap {"CAPS"} # {}) = caps
  <2>1. CASE caps
    BY <2>1 DEF MeantMods
  <2>2. CASE ~caps
    BY <1>1, <2>2 DEF MeantMods
  <2> QED
    BY <2>1, <2>2
<1> DEFINE sh == (HeldModifiers \cap SHIFT # {}) # caps
<1>4. \A shift \in BOOLEAN : /\ keycode_to_char(shift, key) \in 0..127
                             /\ keycode_to_char(shift, NoKey) = 0
  BY DEF keycode_to_char, NoKey
<1>5. sh \in BOOLEAN
  OBVIOUS
<1>6. PICK ch : ch = keycode_to_char(sh, key)
  OBVIOUS
<1>7. ch \in 0..127 /\ (key = NoKey => ch = 0)
  BY <1>4, <1>5, <1>6
<1>8. CharUnder(MeantMods, key) =
          IF ch # 0 /\ HeldModifiers \cap CTRL # {} THEN ch % 32 ELSE ch
  BY <1>2, <1>3, <1>6, Zenon DEF CharUnder
<1>9. MeantChar(key) = IF HeldModifiers \cap CTRL # {} THEN ch % 32 ELSE ch
  BY <1>6 DEF MeantChar
<1>10. 0 % 32 = 0
  OBVIOUS
<1>11. MeantChar(key) = CharUnder(MeantMods, key) /\ (key = NoKey => MeantChar(key) = 0)
  BY <1>7, <1>8, <1>9, <1>10
<1>12. CASE key = NoKey
  <2>1. Event("press", key) = NoEvent
    BY <1>12 DEF Event
  <2> QED
    BY <1>11, <1>12, <2>1, NoEventEffect
<1>13. CASE key # NoKey
  BY <1>11, <1>13, EventOnWire DEF CharTyped
<1> QED
  BY <1>12, <1>13
-----------------------------------------------------------------------------
(***************************************************************************)
(* The presses on the wire, which bound how much may still be typed.       *)
(***************************************************************************)

Presses(w) == {k \in 1..Len(w) : w[k].event.kind = "press"}

\* There are finitely many of them.
LEMMA PressesFinite ==
    ASSUME NEW w \in Seq(WireBytes)
    PROVE  IsFiniteSet(Presses(w)) /\ Cardinality(Presses(w)) \in Nat
<1>1. Len(w) \in Nat
  BY LenProperties
<1>2. IsFiniteSet(1..Len(w)) /\ Presses(w) \in SUBSET (1..Len(w))
  BY <1>1, FS_Interval DEF Presses
<1>3. IsFiniteSet(Presses(w))
  BY <1>2, FS_Subset
<1> QED
  BY <1>3, FS_CardinalityType

\* Handling a press takes it off the wire.
LEMMA PressesTail ==
    ASSUME NEW w \in Seq(WireBytes), w # <<>>
    PROVE  Cardinality(Presses(Tail(w)))
             + (IF w[1].event.kind = "press" THEN 1 ELSE 0)
             <= Cardinality(Presses(w))
<1>1. /\ Len(w) \in Nat /\ Len(w) > 0 /\ Len(Tail(w)) = Len(w) - 1
      /\ Tail(w) \in Seq(WireBytes)
      /\ \A k \in 1..(Len(w) - 1) : Tail(w)[k] = w[k + 1]
  <2>1. Len(w) \in Nat /\ Len(w) # 0
    BY EmptySeq, LenProperties
  <2> QED
    BY <2>1, HeadTailProperties
<1>2. PICK P, Q : P = Presses(Tail(w)) /\ Q = Presses(w)
  OBVIOUS
<1>3. /\ IsFiniteSet(Q) /\ Cardinality(Q) \in Nat
      /\ IsFiniteSet(P) /\ Cardinality(P) \in Nat
  BY <1>1, <1>2, PressesFinite
<1> DEFINE f == [k \in P |-> k + 1]
<1>4. f \in Injection(P, Q \ {1})
  <2>1. ASSUME NEW k \in P PROVE k \in Nat /\ k + 1 \in Q \ {1}
    <3>1. k \in 1..(Len(w) - 1) /\ w[k + 1].event.kind = "press"
      BY <1>1, <1>2 DEF Presses
    <3>2. k + 1 \in 1..Len(w) /\ k + 1 # 1 /\ k \in Nat
      BY <1>1, <3>1
    <3> QED
      BY <1>2, <3>1, <3>2 DEF Presses
  <2>2. f \in [P -> Q \ {1}]
    BY <2>1
  <2>3. \A k, l \in P : k + 1 = l + 1 => k = l
    BY <2>1
  <2> QED
    BY <2>2, <2>3 DEF Injection, IsInjective
<1>5. /\ IsFiniteSet(Q \ {1})
      /\ Cardinality(Q \ {1}) = IF 1 \in Q THEN Cardinality(Q) - 1 ELSE Cardinality(Q)
  BY <1>3, FS_RemoveElement
<1> HIDE DEF f
<1>6. Cardinality(P) <= Cardinality(Q \ {1})
  BY <1>4, <1>5, FS_Injection
<1>7. 1 \in Q <=> w[1].event.kind = "press"
  BY <1>1, <1>2 DEF Presses
<1> QED
  BY <1>2, <1>3, <1>5, <1>6, <1>7

\* Sending a sequence adds at most one press, and none if it is a release.
LEMMA PressesSent ==
    ASSUME NEW u \in Seq(WireBytes), NEW code, NEW event \in Events,
           NEW ch \in 0..255, code.bytes \in Seq(0..255)
    PROVE  LET w == u \o SentBytes(code, event, ch)
           IN  /\ Cardinality(Presses(w)) <= Cardinality(Presses(u)) + 1
               /\ event.kind # "press" =>
                      Cardinality(Presses(w)) <= Cardinality(Presses(u))
<1>1. PICK v, w : v = SentBytes(code, event, ch) /\ w = u \o v
  OBVIOUS
<1>2. PICK a, b, last : a = Len(u) /\ b = Len(v) /\ last = code.last
  OBVIOUS
<1>3. /\ v \in Seq(WireBytes) /\ b = Len(code.bytes)
      /\ \A k \in 1..b : v[k].event = IF k = last THEN event ELSE NoEvent
  <2>1. SentAs(v, code, event, ch)
    BY <1>1, SentTypes
  <2> QED
    BY <1>2, <2>1, Zenon DEF SentAs
<1>4. /\ a \in Nat /\ b \in Nat /\ w \in Seq(WireBytes) /\ Len(w) = a + b
      /\ \A k \in 1..(a + b) : w[k] = IF k <= a THEN u[k] ELSE v[k - a]
  <2>1. a \in Nat /\ b \in Nat
    BY <1>2, <1>3, LenProperties
  <2>2. /\ u \o v \in Seq(WireBytes) /\ Len(u \o v) = Len(u) + Len(v)
        /\ \A k \in 1..(Len(u) + Len(v)) :
               (u \o v)[k] = IF k <= Len(u) THEN u[k] ELSE v[k - Len(u)]
    BY <1>3, ConcatProperties
  <2> QED
    BY <1>1, <1>2, <2>1, <2>2, Zenon
<1>5. ASSUME NEW k \in Presses(w), k \notin Presses(u)
      PROVE  k = a + last /\ event.kind = "press"
  <2>1. k \in 1..(a + b) /\ w[k].event.kind = "press"
    BY <1>4 DEF Presses
  <2>2. ~(k <= a)
    BY <1>2, <1>4, <1>5, <2>1 DEF Presses
  <2>3. PICK j : j = k - a
    OBVIOUS
  <2>4. j \in 1..b /\ w[k] = v[j] /\ k = a + j
    BY <1>4, <2>1, <2>2, <2>3
  <2>5. NoEvent.kind # "press"
    BY DEF NoEvent
  <2>6. j = last /\ event.kind = "press"
    BY <1>3, <2>1, <2>4, <2>5
  <2> QED
    BY <2>4, <2>6
<1>6. IsFiniteSet(Presses(u))
  BY PressesFinite
<1>7. Presses(w) \in SUBSET (Presses(u) \cup {a + last})
  BY <1>5
<1>8. Cardinality(Presses(w)) <= Cardinality(Presses(u)) + 1
  BY <1>6, <1>7, OneMore
<1>9. ASSUME event.kind # "press"
      PROVE  Cardinality(Presses(w)) <= Cardinality(Presses(u))
  <2>1. Presses(w) \in SUBSET Presses(u)
    BY <1>5, <1>9
  <2> QED
    BY <1>6, <2>1, FS_Subset
<1> QED
  BY <1>1, <1>8, <1>9
-----------------------------------------------------------------------------
(***************************************************************************)
(* The invariant of the decoder is inductive.                              *)
(***************************************************************************)

\* The modifiers the user means are modifiers.
LEMMA MeantModsType == MeantMods \in SUBSET Modifiers
<1>1. \A k : ModifierKey(k) # "none" => ModifierKey(k) \in Modifiers
  BY DEF ModifierKey, Modifiers
<1>2. HeldModifiers \subseteq Modifiers
  BY <1>1 DEF HeldModifiers
<1> QED
  BY <1>2 DEF MeantMods, Modifiers

\* The bytes of every sequence are bytes.
LEMMA SequenceBytes ==
    ASSUME Ps2TypeOK, NEW key \in Keycodes
    PROVE  Make(key).bytes \in Seq(0..255) /\ Break(key).bytes \in Seq(0..255)
<1>1. CASE Supported
  BY <1>1, SequencesDecode DEF CodePath
<1>2. CASE ~Supported
  <2>1. scancode_set = 1
    BY <1>2, ScancodeSetsAssumption DEF Ps2TypeOK, Supported
  <2>2. Make(key).bytes = <<\h1E>> /\ Break(key).bytes = <<\h9E>>
    BY <2>1 DEF Make, Break, MakeSet1, BreakSet1, Code
  <2>3. <<\h1E>> \in Seq(0..255) /\ <<\h9E>> \in Seq(0..255)
    OBVIOUS
  <2> QED
    BY <2>2, <2>3
<1> QED
  BY <1>1, <1>2

\* Sending the sequence of an event keeps the invariant.
LEMMA SendKeeps ==
    ASSUME Ps2Inv, NEW code, NEW event \in Events, NEW ch \in 0..255,
           code.bytes \in Seq(0..255), HasRoom(code), Send(code, event, ch),
           UNCHANGED <<vars, scancode_set, decoderVars, in_service>>,
           held' \subseteq Keycodes, caps' \in BOOLEAN,
           ch = CharTyped(MeantMods, event),
           MeantMods' = ModsAfter(MeantMods, event),
           Supported => \E d : CodePath(scancode_set, code, event, d),
           event.kind = "press" => Len(typed) + PressesOnWire < MaxTyped
    PROVE  Ps2Inv'
<1>1. PICK v : v = SentBytes(code, event, ch)
  OBVIOUS
<1>2. wire' = wire \o v
  BY <1>1 DEF Send, SentBytes
<1>3. v \in Seq(WireBytes) /\ Len(v) = Len(code.bytes)
  <2>1. SentAs(v, code, event, ch)
    BY <1>1, SentTypes
  <2> QED
    BY <2>1 DEF SentAs
<1>4. wire \in Seq(WireBytes) /\ Len(wire) \in Nat /\ Len(v) \in Nat
  BY <1>3, LenProperties DEF Ps2Inv
<1>5. wire' \in Seq(WireBytes) /\ Len(wire') = Len(wire) + Len(v)
  BY <1>2, <1>3, <1>4, ConcatProperties
<1>6. /\ UNCHANGED vars /\ UNCHANGED <<scancode_set, in_service>>
      /\ UNCHANGED <<release_next, ignore_next, scancode_plane>>
      /\ UNCHANGED <<modifiers, typed>>
  BY DEF decoderVars, vars, histVars
<1>7. Bounds'
  BY <1>6, BoundsInductive DEF Ps2Inv
<1>8. Ps2TypeOK'
  <2>1. TypeOK'
    BY <1>7 DEF Bounds
  <2>2. Len(wire') <= MaxWire[scancode_set]'
    BY <1>3, <1>5, <1>6 DEF HasRoom
  <2> QED
    BY <1>6, <2>1, <2>2 DEF Ps2TypeOK, Ps2Inv
<1>9. ASSUME Supported PROVE PressesFit'
  <2>1. PICK p, q : p = Cardinality(Presses(wire)) /\ q = Cardinality(Presses(wire'))
    OBVIOUS
  <2>2. p \in Nat /\ q \in Nat
    BY <1>4, <1>5, <2>1, PressesFinite
  <2>3. q <= p + 1 /\ (event.kind # "press" => q <= p)
    BY <1>1, <1>2, <1>4, <2>1, PressesSent
  <2>4. PressesOnWire = p /\ PressesOnWire' = q
    BY <2>1 DEF PressesOnWire, Presses
  <2>5. Len(typed) + p <= MaxTyped /\ Len(typed) \in Nat
    BY <1>9, <2>4 DEF Ps2Inv, PressesFit, Bounds, TypeOK
  <2>6. Len(typed) + q <= MaxTyped
    BY <2>2, <2>3, <2>4, <2>5, MaxTypedAssumption
  <2> QED
    BY <1>6, <2>4, <2>6 DEF PressesFit
<1>10. ASSUME Supported PROVE (\E d, m : OnPath(d, m))'
  <2>1. PICK d1, m1 : OnPath(d1, m1)
    BY <1>10 DEF Ps2Inv
  <2>2. PICK d2 : CodePath(scancode_set, code, event, d2)
    BY <1>10
  <2>3. \E m : /\ Decodes(scancode_set, v, d2, m)
               /\ m[0] = MeantMods /\ m[Len(v)] = ModsAfter(MeantMods, event)
    BY <1>1, <2>2, MeantModsType, SequenceDecodes
  <2>4. PICK m2 : /\ Decodes(scancode_set, v, d2, m2)
                  /\ m2[0] = MeantMods /\ m2[Len(v)] = MeantMods'
    BY <2>3
  <2>5. /\ Decodes(scancode_set, wire, d1, m1)
        /\ d1[Len(wire)] = d2[0] /\ m1[Len(wire)] = m2[0]
        /\ d2[Len(v)] = Start
    BY <1>3, <2>1, <2>2, <2>4 DEF OnPath, CodePath
  <2>6. PICK d, m : /\ Decodes(scancode_set, wire \o v, d, m)
                    /\ d[0] = d1[0] /\ d[Len(wire \o v)] = d2[Len(v)]
                    /\ m[0] = m1[0] /\ m[Len(wire \o v)] = m2[Len(v)]
    BY <1>3, <1>4, <2>4, <2>5, DecodesConcat
  <2>7. /\ d1[0] = State(release_next, ignore_next, scancode_plane)
        /\ m1[0] = modifiers
    BY <2>1 DEF OnPath
  <2>8. OnPath(d, m)'
    BY <1>2, <1>6, <2>4, <2>5, <2>6, <2>7 DEF OnPath
  <2> QED
    BY <2>8
<1> QED
  BY <1>5, <1>6, <1>7, <1>8, <1>9, <1>10 DEF Ps2Inv, Supported

\* A key that goes down keeps the invariant.
LEMMA KeyDownKeeps ==
    ASSUME Ps2Inv, NEW key \in Keycodes, KeyDown(key)
    PROVE  Ps2Inv'
<1>1. held \subseteq Keycodes /\ caps \in BOOLEAN /\ Ps2TypeOK
  BY DEF Ps2Inv, Ps2TypeOK
<1>2. PICK event, ch : event = Event("press", key) /\ ch = MeantChar(key)
  OBVIOUS
<1>3. event \in Events
  BY <1>2, EventOnWire
<1>4. ch = CharTyped(MeantMods, event) /\ ch \in 0..255
  BY <1>1, <1>2, MeantCharTyped, MeantModsType, EventTypes
<1>5. /\ held' = held \cup {key}
      /\ caps' = IF key = CapsKey THEN ~caps ELSE caps
      /\ HasRoom(Make(key)) /\ Send(Make(key), event, ch)
      /\ Len(typed) + PressesOnWire < MaxTyped
      /\ UNCHANGED <<vars, scancode_set, decoderVars, in_service>>
  BY <1>2 DEF KeyDown
<1>6. MeantMods' = ModsAfter(MeantMods, event)
  BY <1>1, <1>2, <1>5, MeantAfterDown
<1>7. held' \subseteq Keycodes /\ caps' \in BOOLEAN
  BY <1>1, <1>5
<1>8. Make(key).bytes \in Seq(0..255)
  BY <1>1, SequenceBytes
<1>9. Supported => \E d : CodePath(scancode_set, Make(key), event, d)
  BY <1>2, SequencesDecode
<1> QED
  BY <1>3, <1>4, <1>5, <1>6, <1>7, <1>8, <1>9, SendKeeps

\* A key that goes up keeps the invariant.
LEMMA KeyUpKeeps ==
    ASSUME Ps2Inv, NEW key \in Keycodes, KeyUp(key)
    PROVE  Ps2Inv'
<1>1. held \subseteq Keycodes /\ caps \in BOOLEAN /\ Ps2TypeOK
  BY DEF Ps2Inv, Ps2TypeOK
<1>2. PICK event, ch : event = Event("release", key) /\ ch = 0
  OBVIOUS
<1>3. event \in Events /\ event.kind # "press"
  <2>1. NoEvent.kind # "press"
    BY DEF NoEvent
  <2> QED
    BY <1>2, <2>1, EventOnWire
<1>4. ch = CharTyped(MeantMods, event) /\ ch \in 0..255
  BY <1>2, <1>3 DEF CharTyped
<1>5. /\ held' = held \ {key} /\ UNCHANGED caps
      /\ HasRoom(Break(key)) /\ Send(Break(key), event, ch)
      /\ UNCHANGED <<vars, scancode_set, decoderVars, in_service>>
  BY <1>2 DEF KeyUp
<1>6. MeantMods' = ModsAfter(MeantMods, event)
  BY <1>2, <1>5, MeantAfterUp
<1>7. held' \subseteq Keycodes /\ caps' \in BOOLEAN
  BY <1>1, <1>5
<1>8. Break(key).bytes \in Seq(0..255)
  BY <1>1, SequenceBytes
<1>9. Supported => \E d : CodePath(scancode_set, Break(key), event, d)
  BY <1>2, SequencesDecode
<1> QED
  BY <1>3, <1>4, <1>5, <1>6, <1>7, <1>8, <1>9, SendKeeps

\* What an interrupt does: its byte is decoded to the event it carries, types
\* the character it carries, and the rest of the wire has the rest of the
\* paths.
LEMMA InterruptDecodes ==
    ASSUME Ps2Inv, Supported, ps2_key_pressed
    PROVE  /\ report' = Head(wire).event
           /\ typed' = IF Head(wire).ch = 0 THEN typed
                                            ELSE Append(typed, Head(wire).ch)
           /\ Called(Head(wire).event)
           /\ Head(wire).event \in Events
           /\ State(release_next', ignore_next', scancode_plane') \in DecoderStates
           /\ (\E d, m : OnPath(d, m))'
<1>1. PICK d, m : OnPath(d, m)
  BY DEF Ps2Inv
<1>2. /\ wire \in Seq(WireBytes) /\ wire # <<>> /\ wire' = Tail(wire)
      /\ UNCHANGED <<scancode_set, held, caps>>
      /\ Ps2TypeOK /\ TypeOK
  BY DEF Ps2Inv, ps2_key_pressed, deviceVars, Ps2TypeOK
<1>3. Len(wire) \in Nat /\ Len(wire) # 0 /\ Head(wire) = wire[1]
  BY <1>2, EmptySeq, HeadTailProperties
<1>4. PICK byte, e, ch : byte = wire[1].byte /\ e = wire[1].event /\ ch = wire[1].ch
  OBVIOUS
<1>5. PICK s, t : s = d[0] /\ t = d[1]
  OBVIOUS
<1>6. 1 \in 1..Len(wire) /\ 1 \in 0..Len(wire) /\ 1 - 1 = 0
  BY <1>3
<1>7. /\ t = After(scancode_set, s, byte) /\ e = EventOf(scancode_set, s, byte)
      /\ m[1] = ModsAfter(m[0], e) /\ ch = CharTyped(m[0], e)
      /\ t \in DecoderStates
      /\ s = State(release_next, ignore_next, scancode_plane) /\ m[0] = modifiers
  <2>1. Decodes(scancode_set, wire, d, m)
    BY <1>1 DEF OnPath
  <2>2. /\ d[1] = After(scancode_set, d[1 - 1], wire[1].byte)
        /\ wire[1].event = EventOf(scancode_set, d[1 - 1], wire[1].byte)
        /\ m[1] = ModsAfter(m[1 - 1], wire[1].event)
        /\ wire[1].ch = CharTyped(m[1 - 1], wire[1].event)
        /\ d[1] \in DecoderStates
    BY <1>6, <2>1 DEF Decodes
  <2> QED
    BY <1>1, <1>4, <1>5, <1>6, <2>2 DEF OnPath
<1>8. wire[1] \in WireBytes
  BY <1>2, <1>6, ElementOfSeq
<1>9. e \in Events
  BY <1>4, <1>8 DEF WireBytes
<1>10. e = NoEvent \/ e.kind \in {"press", "release"}
  BY <1>9 DEF Events
<1>11. /\ State(release_next', ignore_next', scancode_plane') = t
       /\ report' = e /\ Called(e)
  <2>1. byte = Head(wire).byte
    BY <1>3, <1>4
  <2> QED
    BY <1>2, <1>7, <2>1, HandlerDecodes
<1>12. /\ modifiers' = m[1]
       /\ typed' = IF ch = 0 THEN typed ELSE Append(typed, ch)
  BY <1>2, <1>7, <1>10, <1>11, CallEffect
<1>13. (\E d2, m2 : OnPath(d2, m2))'
  <2>1. PICK d2, m2 : /\ Decodes(scancode_set, Tail(wire), d2, m2)
                      /\ d2[0] = d[1] /\ d2[Len(Tail(wire))] = d[Len(wire)]
                      /\ m2[0] = m[1] /\ m2[Len(Tail(wire))] = m[Len(wire)]
    BY <1>1, <1>2, DecodesTail DEF OnPath
  <2>2. MeantMods' = MeantMods
    BY <1>2 DEF MeantMods, HeldModifiers
  <2>3. d[Len(wire)] = Start /\ m[Len(wire)] = MeantMods
    BY <1>1 DEF OnPath
  <2>4. OnPath(d2, m2)'
    BY <1>2, <1>5, <1>11, <1>12, <2>1, <2>2, <2>3 DEF OnPath
  <2> QED
    BY <2>4
<1> QED
  BY <1>3, <1>4, <1>7, <1>9, <1>11, <1>12, <1>13

\* An interrupt makes the calls Keyboard allows, and no others: a press is
\* reported only of a key that exists and while there is room for it.
LEMMA InterruptCalls ==
    ASSUME Ps2Inv, ps2_key_pressed
    PROVE  [Next]_vars
<1>1. CASE ~Supported
  BY <1>1 DEF ps2_key_pressed, DecodeOther, ReportNothing, Supported
<1>2. CASE Supported
  <2>1. PICK e : e = Head(wire).event
    OBVIOUS
  <2>2. Called(e) /\ e \in Events
    BY <1>2, <2>1, InterruptDecodes
  <2>3. /\ wire \in Seq(WireBytes) /\ wire # <<>> /\ Head(wire) = wire[1]
    BY EmptySeq, HeadTailProperties DEF Ps2Inv, ps2_key_pressed
  <2>4. e = NoEvent \/ (e.kind \in {"press", "release"} /\ e.key \in Keycodes)
    BY <2>2 DEF Events
  <2>5. CASE e = NoEvent
    BY <2>2, <2>5 DEF Called, NoEvent
  <2>6. CASE e.kind = "press" /\ e.key \in Keycodes
    <3>1. PICK p, q : /\ p = Cardinality(Presses(wire))
                      /\ q = Cardinality(Presses(Tail(wire)))
      OBVIOUS
    <3>2. p \in Nat /\ q \in Nat
      <4>1. Tail(wire) \in Seq(WireBytes)
        BY <2>3, HeadTailProperties
      <4> QED
        BY <2>3, <3>1, <4>1, PressesFinite
    <3>3. q + 1 <= p
      BY <2>1, <2>3, <2>6, <3>1, PressesTail
    <3>4. Len(typed) + p <= MaxTyped /\ Len(typed) \in Nat
      BY <1>2, <3>1 DEF Ps2Inv, PressesFit, PressesOnWire, Presses, Bounds, TypeOK
    <3>5. Len(typed) < MaxTyped
      BY <3>2, <3>3, <3>4, MaxTypedAssumption
    <3>6. kb_key_pressed(e.key)
      BY <2>2, <2>6 DEF Called
    <3> QED
      BY <2>6, <3>5, <3>6 DEF Next, Press
  <2>7. CASE e.kind = "release" /\ e.key \in Keycodes
    BY <2>2, <2>7 DEF Called, Next, Release
  <2> QED
    BY <2>4, <2>5, <2>6, <2>7
<1> QED
  BY <1>1, <1>2

\* An interrupt keeps the invariant.
LEMMA InterruptKeeps ==
    ASSUME Ps2Inv, ps2_key_pressed
    PROVE  Ps2Inv'
<1>1. Bounds'
  BY InterruptCalls, BoundsInductive DEF Ps2Inv
<1>2. /\ wire \in Seq(WireBytes) /\ wire # <<>> /\ wire' = Tail(wire)
      /\ UNCHANGED <<scancode_set, held, caps>> /\ in_service' = FALSE
  BY DEF Ps2Inv, ps2_key_pressed, deviceVars, pic_eoi
<1>3. /\ wire' \in Seq(WireBytes) /\ Len(wire') = Len(wire) - 1
      /\ Len(wire) \in Nat
  BY <1>2, EmptySeq, LenProperties, HeadTailProperties
<1>4. release_next' \in BOOLEAN /\ ignore_next' \in 0..2 /\ scancode_plane' \in {0, 1}
  <2>1. CASE Supported
    <3>1. State(release_next', ignore_next', scancode_plane') \in DecoderStates
      BY <2>1, InterruptDecodes
    <3> QED
      BY <3>1 DEF State, DecoderStates
  <2>2. CASE ~Supported
    <3>1. UNCHANGED <<release_next, ignore_next, scancode_plane>>
      BY <2>2 DEF ps2_key_pressed, DecodeOther, decoderVars, Supported
    <3> QED
      BY <3>1 DEF Ps2Inv, Ps2TypeOK
  <2> QED
    BY <2>1, <2>2
<1>5. Len(wire') <= MaxWire[scancode_set]'
  <2>1. Len(wire) <= MaxWire[scancode_set] /\ scancode_set \in {1, 2, 3}
    BY ScancodeSetsAssumption DEF Ps2Inv, Ps2TypeOK
  <2>2. MaxWire[scancode_set] \in Nat
    BY <2>1, MaxWireAssumption
  <2> QED
    BY <1>2, <1>3, <2>1, <2>2
<1>6. Ps2TypeOK'
  <2>1. TypeOK'
    BY <1>1 DEF Bounds
  <2> QED
    BY <1>2, <1>4, <1>5, <2>1 DEF Ps2Inv, Ps2TypeOK
<1>7. ASSUME Supported PROVE PressesFit'
  <2>1. PICK e, ch : e = Head(wire).event /\ ch = Head(wire).ch
    OBVIOUS
  <2>2. /\ typed' = IF ch = 0 THEN typed ELSE Append(typed, ch)
        /\ Head(wire) = wire[1]
    BY <1>2, <1>7, <2>1, InterruptDecodes, HeadTailProperties
  <2>3. wire[1].event.kind # "press" => ch = 0
    <3>1. PICK d, m : OnPath(d, m)
      BY <1>7 DEF Ps2Inv
    <3>2. 1 \in 1..Len(wire)
      BY <1>2, <1>3, EmptySeq
    <3>3. wire[1].ch = CharTyped(m[1 - 1], wire[1].event)
      BY <3>1, <3>2 DEF OnPath, Decodes
    <3> QED
      BY <2>1, <2>2, <3>3 DEF CharTyped
  <2>4. PICK p, q : p = Cardinality(Presses(wire)) /\ q = Cardinality(Presses(wire'))
    OBVIOUS
  <2>5. p \in Nat /\ q \in Nat
    BY <1>2, <1>3, <2>4, PressesFinite
  <2>6. q + (IF wire[1].event.kind = "press" THEN 1 ELSE 0) <= p
    BY <1>2, <2>4, PressesTail
  <2>7. PressesOnWire = p /\ PressesOnWire' = q
    BY <2>4 DEF PressesOnWire, Presses
  <2>8. Len(typed) + p <= MaxTyped /\ Len(typed) \in Nat /\ typed \in Seq(0..255)
    BY <1>7, <2>7 DEF Ps2Inv, PressesFit, Bounds, TypeOK
  <2>9. Len(typed') = IF ch = 0 THEN Len(typed) ELSE Len(typed) + 1
    <3>1. typed' \in Seq(0..255)
      BY <1>6 DEF Ps2TypeOK, TypeOK
    <3> QED
      BY <2>2, <2>8, <3>1
  <2>10. Len(typed') + q <= MaxTyped
    BY <2>3, <2>5, <2>6, <2>8, <2>9, MaxTypedAssumption
  <2> QED
    BY <2>7, <2>10 DEF PressesFit
<1>8. Supported' <=> Supported
  BY <1>2 DEF Supported
<1> QED
  BY <1>1, <1>3, <1>6, <1>7, <1>8, InterruptDecodes DEF Ps2Inv

\* A step that moves neither the wire nor what was typed.
DecoderIdle ==
    UNCHANGED <<scancode_set, release_next, ignore_next, scancode_plane,
                in_service, wire, held, caps, modifiers, typed>>

\* A step of the main loop, or none, keeps the invariant.
LEMMA IdleKeeps ==
    ASSUME Ps2Inv, DecoderIdle, [Next]_vars
    PROVE  Ps2Inv'
<1>1. Bounds'
  BY BoundsInductive DEF Ps2Inv
<1>2. Ps2TypeOK'
  BY <1>1 DEF Ps2Inv, Ps2TypeOK, DecoderIdle, Bounds
<1>3. Supported' = Supported /\ PressesFit' = PressesFit
  BY DEF DecoderIdle, Supported, PressesFit, PressesOnWire
<1>4. \A d, m : OnPath(d, m)' <=> OnPath(d, m)
  <2>1. MeantMods' = MeantMods
    BY DEF DecoderIdle, MeantMods, HeldModifiers
  <2> QED
    BY <2>1 DEF DecoderIdle, OnPath
<1>5. (\E d, m : OnPath(d, m))' <=> \E d, m : OnPath(d, m)
  BY <1>4
<1>6. wire' \in Seq(WireBytes)
  BY DEF Ps2Inv, DecoderIdle
<1> QED
  BY <1>1, <1>2, <1>3, <1>5, <1>6 DEF Ps2Inv

\* Ps2Inv holds when no key was pressed yet.
LEMMA Ps2InitInv == Ps2Init => Ps2Inv
<1> SUFFICES ASSUME Ps2Init PROVE Ps2Inv
  OBVIOUS
<1>1. Init /\ Bounds /\ TypeOK
  BY BoundsInductive DEF Ps2Init, Bounds
<1>2. /\ wire = <<>> /\ Len(wire) = 0 /\ wire \in Seq(WireBytes)
      /\ modifiers = {} /\ typed = <<>> /\ Len(typed) = 0
  BY <1>1, EmptySeq DEF Ps2Init, Init
<1>3. scancode_set \in ScancodeSets /\ MaxWire[scancode_set] \in Nat
  BY ScancodeSetsAssumption, MaxWireAssumption DEF Ps2Init
<1>4. Ps2TypeOK
  <2>1. Len(wire) <= MaxWire[scancode_set]
    BY <1>2, <1>3
  <2>2. ignore_next \in 0..2 /\ scancode_plane \in {0, 1} /\ held \subseteq Keycodes
    BY DEF Ps2Init
  <2>3. release_next = FALSE /\ in_service = FALSE /\ caps = FALSE
    BY Zenon DEF Ps2Init
  <2>4. release_next \in BOOLEAN /\ in_service \in BOOLEAN /\ caps \in BOOLEAN
    BY <2>3, Zenon
  <2> QED
    BY <1>1, <1>3, <2>1, <2>2, <2>4 DEF Ps2TypeOK
<1>5. PressesFit
  <2>1. 1..Len(wire) = {}
    BY <1>2
  <2>2. PressesOnWire = 0
    BY <2>1, FS_EmptySet DEF PressesOnWire
  <2> QED
    BY <1>2, <2>2, MaxTypedAssumption DEF PressesFit
<1>6. \E d, m : OnPath(d, m)
  <2>1. PICK d, m : d = [k \in 0..0 |-> Start] /\ m = [k \in 0..0 |-> {}]
    OBVIOUS
  <2>2. Start \in DecoderStates /\ Start = State(release_next, ignore_next, scancode_plane)
    <3>1. Start = State(release_next, ignore_next, scancode_plane)
      BY Zenon DEF Start, Ps2Init
    <3>2. Start \in DecoderStates
      BY DEF Start, State, DecoderStates
    <3> QED
      BY <3>1, <3>2
  <2>3. MeantMods = {}
    BY DEF MeantMods, HeldModifiers, Ps2Init
  <2>4. d[0] = Start /\ m[0] = {}
    BY <2>1
  <2>5. d \in [0..0 -> DecoderStates] /\ m \in [0..0 -> SUBSET Modifiers]
    BY <2>1, <2>2
  <2>6. 1..0 = {}
    OBVIOUS
  <2>7. Decodes(scancode_set, wire, d, m)
    BY <1>2, <2>5, <2>6 DEF Decodes
  <2>8. OnPath(d, m)
    BY <1>2, <2>2, <2>3, <2>4, <2>7 DEF OnPath
  <2> QED
    BY <2>8
<1> QED
  BY <1>1, <1>2, <1>4, <1>5, <1>6 DEF Ps2Inv

\* A key that goes down or up touches nothing Keyboard knows of, and only
\* lengthens the wire.
LEMMA KeySends ==
    ASSUME Ps2Inv, NEW key \in Keycodes, KeyDown(key) \/ KeyUp(key)
    PROVE  UNCHANGED vars /\ ~Interrupt
<1>1. UNCHANGED vars
  BY DEF KeyDown, KeyUp
<1>2. PICK code : /\ code \in {Make(key), Break(key)}
                  /\ \E event, ch : Send(code, event, ch)
  BY DEF KeyDown, KeyUp
<1>3. code.bytes \in Seq(0..255) /\ Len(code.bytes) \in Nat
  BY <1>2, SequenceBytes, LenProperties DEF Ps2Inv
<1>4. PICK w : w = [k \in 1..Len(code.bytes) |-> w[k]] /\ wire' = wire \o w
  BY <1>2 DEF Send
<1>5. Len(w) = Len(code.bytes) /\ Len(wire) \in Nat /\ Len(wire') = Len(wire) + Len(w)
  <2>1. wire \in Seq(WireBytes)
    BY DEF Ps2Inv
  <2>2. w \in Seq({w[k] : k \in 1..Len(code.bytes)})
    BY <1>3, <1>4
  <2> QED
    BY <1>3, <1>4, <2>1, <2>2
<1>6. ~Interrupt
  BY <1>3, <1>5 DEF Interrupt
<1> QED
  BY <1>1, <1>6

\* A step of vconsole_read leaves the decoder alone.
LEMMA ReadIsIdle ==
    ASSUME vconsole_read,
           UNCHANGED <<scancode_set, decoderVars, in_service, wire, deviceVars>>
    PROVE  DecoderIdle
<1>1. UNCHANGED <<modifiers, typed>>
  BY DEF vconsole_read, ReadStart, ReadCopy, ReadRest, ReadMove, ReadStore,
         ReadDone, histVars
<1> QED
  BY <1>1 DEF DecoderIdle, decoderVars, deviceVars

\* Every step of the decoder and its environment is a step Keyboard allows,
\* and keeps the invariant.
LEMMA Ps2Steps ==
    ASSUME Ps2Inv, [Ps2Next]_allVars
    PROVE  Ps2Inv' /\ [Next]_vars
<1>1. ASSUME NEW key \in Keycodes, KeyDown(key) \/ KeyUp(key)
      PROVE  Ps2Inv' /\ [Next]_vars
  BY <1>1, KeyDownKeeps, KeyUpKeeps, KeySends
<1>2. ASSUME ps2_key_pressed PROVE Ps2Inv' /\ [Next]_vars
  BY <1>2, InterruptKeeps, InterruptCalls
<1>3. ASSUME vconsole_read,
             UNCHANGED <<scancode_set, decoderVars, in_service, wire, deviceVars>>
      PROVE  Ps2Inv' /\ [Next]_vars
  <2>1. [Next]_vars
    BY <1>3 DEF Next
  <2> QED
    BY <1>3, <2>1, ReadIsIdle, IdleKeeps
<1>4. ASSUME UNCHANGED allVars PROVE Ps2Inv' /\ [Next]_vars
  <2>1. UNCHANGED vars /\ UNCHANGED ps2Vars
    BY <1>4 DEF allVars
  <2>2. DecoderIdle
    BY <2>1 DEF vars, ps2Vars, decoderVars, deviceVars, histVars, DecoderIdle
  <2> QED
    BY <2>1, <2>2, IdleKeeps
<1> QED
  BY <1>1, <1>2, <1>3, <1>4 DEF Ps2Next

\* The steps on which Len(wire) shrinks are the interrupts.
LEMMA InterruptSteps ==
    ASSUME Ps2Inv, [Ps2Next]_allVars, Interrupt
    PROVE  ps2_key_pressed
<1>1. Len(wire) \in Nat
  BY LenProperties DEF Ps2Inv
<1>2. ASSUME UNCHANGED wire PROVE FALSE
  BY <1>1, <1>2 DEF Interrupt
<1>3. UNCHANGED allVars => UNCHANGED wire
  BY DEF allVars, ps2Vars
<1> QED
  BY <1>2, <1>3, KeySends DEF Ps2Next

\* The specification of the PS/2 driver implements that of the queue: the
\* calls of the decoder are the ones Keyboard lets any driver make, so what
\* is proved of the queue holds under this driver.
THEOREM Ps2ImplementsKeyboard == Ps2Spec => Spec
<1>1. Ps2Init => Init
  BY DEF Ps2Init
<1>2. Ps2Inv /\ [Ps2Next]_allVars => Ps2Inv' /\ [Next]_vars
  BY Ps2Steps
<1> QED
  BY <1>1, <1>2, Ps2InitInv, PTL DEF Ps2Spec, Spec

\* When the wire is empty the modifiers are those of the keys that are down
\* and of caps lock, and the decoder is between two sequences.
THEOREM ModifiersAlwaysMatch == Ps2Spec => []ModifiersMatchKeys
<1>1. Ps2Inv => ModifiersMatchKeys
  <2> SUFFICES ASSUME Ps2Inv, wire = <<>>, Supported
               PROVE  /\ modifiers = MeantMods
                      /\ ~release_next /\ ignore_next = 0 /\ scancode_plane = 0
    BY DEF Ps2Inv, ModifiersMatchKeys, MeantMods
  <2>1. PICK d, m : OnPath(d, m)
    BY DEF Ps2Inv
  <2>2. Len(wire) = 0
    OBVIOUS
  <2>3. modifiers = MeantMods /\ State(release_next, ignore_next, scancode_plane) = Start
    BY <2>1, <2>2 DEF OnPath
  <2>4. ~release_next /\ ignore_next = 0 /\ scancode_plane = 0
    BY <2>3 DEF State, Start, Ps2Inv, Ps2TypeOK
  <2> QED
    BY <2>3, <2>4
<1>2. Ps2Inv /\ [Ps2Next]_allVars => Ps2Inv'
  BY Ps2Steps
<1> QED
  BY <1>1, <1>2, Ps2InitInv, PTL DEF Ps2Spec

\* What an interrupt does to the histories, as the action properties say it.
ReportsTheEvent == Interrupt /\ Supported => report' = Head(wire).event

TypesTheCharacter ==
    Interrupt /\ Supported =>
        typed' = IF Head(wire).ch = 0 THEN typed ELSE Append(typed, Head(wire).ch)

\* Every interrupt reports the event that its byte completes and no other.
THEOREM AllReportedAsSent == Ps2Spec => ReportedAsSent
<1>1. Ps2Inv /\ [Ps2Next]_allVars => Ps2Inv' /\ [ReportsTheEvent]_allVars
  BY Ps2Steps, InterruptSteps, InterruptDecodes DEF ReportsTheEvent
<1>2. Ps2Spec => [][ReportsTheEvent]_allVars
  BY <1>1, Ps2InitInv, PTL DEF Ps2Spec
<1> QED
  BY <1>2 DEF ReportsTheEvent, ReportedAsSent

\* Every key types the character that was meant when it was pressed.
THEOREM AllTypedAsMeant == Ps2Spec => TypedAsMeant
<1>1. Ps2Inv /\ [Ps2Next]_allVars => Ps2Inv' /\ [TypesTheCharacter]_allVars
  BY Ps2Steps, InterruptSteps, InterruptDecodes DEF TypesTheCharacter
<1>2. Ps2Spec => [][TypesTheCharacter]_allVars
  BY <1>1, Ps2InitInv, PTL DEF Ps2Spec
<1> QED
  BY <1>2 DEF TypesTheCharacter, TypedAsMeant
=============================================================================
