---------------------------- MODULE Ps2Keyboard ----------------------------
(***************************************************************************)
(* The interrupt handler of kernel/arch/i686/drivers/ps2_kb.c on top of    *)
(* Keyboard: it turns the bytes a PS/2 keyboard sends into calls of        *)
(* kb_key_pressed and kb_key_released.                                     *)
(*                                                                         *)
(* A key event is several bytes on the wire, one interrupt each, and the   *)
(* handler keeps what it saw of an unfinished sequence in release_next,    *)
(* ignore_next and scancode_plane.  The user and the keyboard are the      *)
(* environment: they put whole sequences on the wire, of any key at any    *)
(* time, and vconsole_read of the main loop is interrupted anywhere.  Each *)
(* byte of the wire carries, for the properties, the event that the        *)
(* handler ought to report when it gets that byte.                         *)
(***************************************************************************)
EXTENDS Keyboard

CONSTANTS
    ScancodeSets,   \* the sets the keyboard may have been left in by setup
    MaxWire,        \* bound, for each set: bytes on the wire not handled yet
    MaxHeld         \* bound: keys that are down at the same time

ASSUME ScancodeSetsAssumption == ScancodeSets \subseteq {1, 2, 3}
ASSUME MaxWireAssumption == MaxWire \in [1..3 -> Nat]
ASSUME MaxHeldAssumption == MaxHeld \in Nat

VARIABLES
    scancode_set,
    release_next,
    ignore_next,
    scancode_plane,
    in_service,     \* the interrupt controller awaits the end of interrupt
    wire,           \* bytes sent by the keyboard and not handled yet
    held,           \* the keys that are down
    caps,           \* an odd number of caps lock make codes was sent
    report          \* history: what this step reported, if it was an interrupt

decoderVars == <<release_next, ignore_next, scancode_plane>>
deviceVars  == <<held, caps>>
ps2Vars == <<scancode_set, decoderVars, in_service, wire, deviceVars, report>>
allVars == <<vars, ps2Vars>>

KeyPause == \h0F
KeyPrtSc == \h0D
NoKey    == \hFF    \* a key the tables do not know
Skip     == \hFE    \* part of a sequence that does not identify it

\* The keys whose sequences are given below.
ASSUME SentKeysAssumption ==
    Keycodes \subseteq
        {\h21, \h61, CapsKey, \h80, \hA7, KeyPrtSc, KeyPause, NoKey}
-----------------------------------------------------------------------------
(***************************************************************************)
(* The keyboard: what it sends for each key.  last is the index of the     *)
(* byte that completes the identification of the key.                      *)
(***************************************************************************)

Code(bytes, last) == [bytes |-> bytes, last |-> last]

MakeSet2(key) ==
    CASE key = \h21     -> Code(<<\h16>>, 1)
      [] key = \h61     -> Code(<<\h1C>>, 1)
      [] key = CapsKey  -> Code(<<\h58>>, 1)
      [] key = \h80     -> Code(<<\h12>>, 1)
      [] key = \hA7     -> Code(<<\hE0, \h14>>, 2)
      [] key = KeyPrtSc -> Code(<<\hE0, \h12, \hE0, \h7C>>, 4)
      [] key = KeyPause -> Code(<<\hE1, \h14, \h77>>, 3)
      [] key = NoKey    -> Code(<<\hE0, \h21>>, 2)

BreakSet2(key) ==
    CASE key = \h21     -> Code(<<\hF0, \h16>>, 2)
      [] key = \h61     -> Code(<<\hF0, \h1C>>, 2)
      [] key = CapsKey  -> Code(<<\hF0, \h58>>, 2)
      [] key = \h80     -> Code(<<\hF0, \h12>>, 2)
      [] key = \hA7     -> Code(<<\hE0, \hF0, \h14>>, 3)
      [] key = KeyPrtSc -> Code(<<\hE0, \hF0, \h7C, \hE0, \hF0, \h12>>, 3)
      [] key = KeyPause -> Code(<<\hE1, \hF0, \h14, \hF0, \h77>>, 5)
      [] key = NoKey    -> Code(<<\hE0, \hF0, \h21>>, 3)

MakeSet3(key) ==
    CASE key = \h21     -> Code(<<\h16>>, 1)
      [] key = \h61     -> Code(<<\h1C>>, 1)
      [] key = CapsKey  -> Code(<<\h14>>, 1)
      [] key = \h80     -> Code(<<\h12>>, 1)
      [] key = \hA7     -> Code(<<\h58>>, 1)
      [] key = KeyPrtSc -> Code(<<\h57>>, 1)
      [] key = KeyPause -> Code(<<\h62>>, 1)
      [] key = NoKey    -> Code(<<\h5D>>, 1)

BreakSet3(key) == Code(<<\hF0>> \o MakeSet3(key).bytes, 2)

\* In set 1 a break code is the make code with bit 7 set; one byte stands
\* for all of them, since the handler does not look at it.
MakeSet1(key)  == Code(<<\h1E>>, 1)
BreakSet1(key) == Code(<<\h9E>>, 1)

Make(key) ==
    CASE scancode_set = 1 -> MakeSet1(key)
      [] scancode_set = 2 -> MakeSet2(key)
      [] scancode_set = 3 -> MakeSet3(key)

Break(key) ==
    CASE scancode_set = 1 -> BreakSet1(key)
      [] scancode_set = 2 -> BreakSet2(key)
      [] scancode_set = 3 -> BreakSet3(key)

NoEvent == [kind |-> "none", key |-> 0]

\* The sequence as it goes on the wire, with the event it stands for and the
\* character the user means.
Send(code, event, ch) ==
    wire' = wire \o [k \in 1..Len(code.bytes) |->
                        [byte  |-> code.bytes[k],
                         event |-> IF k = code.last THEN event ELSE NoEvent,
                         ch    |-> IF k = code.last THEN ch ELSE 0]]

Event(kind, key) == IF key = NoKey THEN NoEvent ELSE [kind |-> kind, key |-> key]

\* The modifier keys that are down, and the character of a key under them.
HeldModifiers == {ModifierKey(key) : key \in held} \ {"none"}

MeantChar(key) ==
    LET ch == keycode_to_char((HeldModifiers \cap SHIFT # {}) # caps, key)
    IN  IF HeldModifiers \cap CTRL # {} THEN ch % 32 ELSE ch

HasRoom(code) == Len(wire) + Len(code.bytes) <= MaxWire[scancode_set]

PressesOnWire ==
    Cardinality({k \in 1..Len(wire) : wire[k].event.kind = "press"})

\* A key goes down, or is held and repeats.
KeyDown(key) ==
    /\ HasRoom(Make(key))
    /\ Cardinality(held \cup {key}) <= MaxHeld
    /\ Len(typed) + PressesOnWire < MaxTyped
    /\ Send(Make(key), Event("press", key), MeantChar(key))
    /\ held' = held \cup {key}
    /\ caps' = IF key = CapsKey THEN ~caps ELSE caps
    /\ report' = NoEvent
    /\ UNCHANGED <<vars, scancode_set, decoderVars, in_service>>

KeyUp(key) ==
    /\ key \in held
    /\ HasRoom(Break(key))
    /\ Send(Break(key), Event("release", key), 0)
    /\ held' = held \ {key}
    /\ report' = NoEvent
    /\ UNCHANGED <<vars, caps, scancode_set, decoderVars, in_service>>
-----------------------------------------------------------------------------
(***************************************************************************)
(* The interrupt handler.                                                  *)
(***************************************************************************)

\* The entries of the translation tables for the bytes above.
scs2_keycodes(plane, scancode) ==
    IF plane = 0
    THEN CASE scancode = \h16 -> \h21
           [] scancode = \h1C -> \h61
           [] scancode = \h58 -> CapsKey
           [] scancode = \h12 -> \h80
           [] scancode = \h14 -> \hA0
           [] scancode = \h77 -> \h31
           [] scancode = \h7C -> \h33
           [] scancode = \h21 -> \h83
           [] OTHER           -> NoKey
    ELSE CASE scancode = \h12 -> Skip
           [] scancode = \h14 -> \hA7
           [] scancode = \h7C -> KeyPrtSc
           [] OTHER           -> NoKey

scs3_keycodes(scancode) ==
    CASE scancode = \h16 -> \h21
      [] scancode = \h1C -> \h61
      [] scancode = \h14 -> CapsKey
      [] scancode = \h12 -> \h80
      [] scancode = \h58 -> \hA7
      [] scancode = \h57 -> KeyPrtSc
      [] scancode = \h62 -> KeyPause
      [] OTHER           -> NoKey

Report(keycode) ==
    IF release_next
    THEN /\ kb_key_released(keycode)
         /\ report' = [kind |-> "release", key |-> keycode]
    ELSE /\ kb_key_pressed(keycode)
         /\ report' = [kind |-> "press", key |-> keycode]

ReportNothing == report' = NoEvent /\ UNCHANGED vars

\* Mutant: an unknown scancode leaves without clearing release_next.
DecodeSet3Sticky(scancode) ==
    \/ /\ scancode = \hF0
       /\ release_next' = TRUE
       /\ ReportNothing
       /\ UNCHANGED <<ignore_next, scancode_plane>>
    \/ /\ scancode # \hF0
       /\ IF scs3_keycodes(scancode) = NoKey
          THEN ReportNothing /\ UNCHANGED release_next
          ELSE Report(scs3_keycodes(scancode)) /\ release_next' = FALSE
       /\ UNCHANGED <<ignore_next, scancode_plane>>

DecodeSet3(scancode) ==
    \/ /\ scancode = \hF0
       /\ release_next' = TRUE
       /\ ReportNothing
       /\ UNCHANGED <<ignore_next, scancode_plane>>
    \/ /\ scancode # \hF0
       /\ IF scs3_keycodes(scancode) = NoKey THEN ReportNothing
                                            ELSE Report(scs3_keycodes(scancode))
       /\ release_next' = FALSE
       /\ UNCHANGED <<ignore_next, scancode_plane>>

\* Mutant: the bytes of the Pause sequence are looked up in the table.
KeycodeSet2NoPause(scancode) == scs2_keycodes(scancode_plane, scancode)

\* While ignore_next counts down, the byte is part of the Pause sequence.
KeycodeSet2(scancode) ==
    CASE ignore_next = 0 -> scs2_keycodes(scancode_plane, scancode)
      [] ignore_next = 1 -> KeyPause
      [] ignore_next = 2 -> Skip

\* Mutant: the plane is not reset after a key of plane 1.
SequenceEndsPlaneKept ==
    /\ ignore_next' = IF ignore_next = 0 THEN 0 ELSE ignore_next - 1
    /\ release_next' = FALSE
    /\ UNCHANGED scancode_plane

\* What is left of the sequence after a byte that is not a prefix.
SequenceEnds ==
    /\ ignore_next' = IF ignore_next = 0 THEN 0 ELSE ignore_next - 1
    /\ release_next' = FALSE
    /\ scancode_plane' = 0

DecodeSet2(scancode) ==
    \/ /\ scancode = \hF0
       /\ release_next' = TRUE
       /\ ReportNothing
       /\ UNCHANGED <<ignore_next, scancode_plane>>
    \/ /\ scancode = \hE0
       /\ scancode_plane' = 1
       /\ ReportNothing
       /\ UNCHANGED <<release_next, ignore_next>>
    \/ /\ scancode = \hE1
       /\ ignore_next' = 2
       /\ ReportNothing
       /\ UNCHANGED <<release_next, scancode_plane>>
    \/ /\ scancode \notin {\hF0, \hE0, \hE1}
       /\ IF KeycodeSet2(scancode) \in {NoKey, Skip}
          THEN ReportNothing
          ELSE Report(KeycodeSet2(scancode))
       /\ SequenceEnds

DecodeOther == ReportNothing /\ UNCHANGED decoderVars

\* Mutant: the handler returns without the end of interrupt.
pic_eoiMissing == in_service' = TRUE

\* pic_eoi: the controller may deliver the next interrupt.
pic_eoi == in_service' = FALSE

ps2_key_pressed ==
    /\ wire # <<>> /\ ~in_service
    /\ \/ scancode_set = 3 /\ DecodeSet3(Head(wire).byte)
       \/ scancode_set = 2 /\ DecodeSet2(Head(wire).byte)
       \/ scancode_set \notin {2, 3} /\ DecodeOther
    /\ wire' = Tail(wire)
    /\ pic_eoi
    /\ UNCHANGED <<scancode_set, deviceVars>>
-----------------------------------------------------------------------------
Ps2Init ==
    /\ Init
    /\ scancode_set \in ScancodeSets
    /\ release_next = FALSE /\ ignore_next = 0 /\ scancode_plane = 0
    /\ in_service = FALSE
    /\ wire = <<>> /\ held = {} /\ caps = FALSE
    /\ report = NoEvent

Ps2Next ==
    \/ \E key \in Keycodes : KeyDown(key)
    \/ \E key \in Keycodes : KeyUp(key)
    \/ ps2_key_pressed
    \/ /\ vconsole_read
       /\ report' = NoEvent
       /\ UNCHANGED <<scancode_set, decoderVars, in_service, wire, deviceVars>>

\* An interrupt that is pending is delivered, since the main loop runs with
\* interrupts enabled; nothing is assumed of the user.
Ps2Spec == Ps2Init /\ [][Ps2Next]_allVars /\ WF_allVars(ps2_key_pressed)
-----------------------------------------------------------------------------
(***************************************************************************)
(* Properties.  A keyboard left in set 1 is not supported: the handler     *)
(* ignores what it sends.                                                  *)
(***************************************************************************)
Supported == scancode_set \in {2, 3}

\* Type invariant: in particular scancode_plane stays an index of the two
\* planes of scs2_keycodes.
Ps2TypeOK ==
    /\ TypeOK
    /\ scancode_set \in ScancodeSets
    /\ release_next \in BOOLEAN
    /\ ignore_next \in 0..2
    /\ scancode_plane \in {0, 1}
    /\ in_service \in BOOLEAN
    /\ Len(wire) <= MaxWire[scancode_set]
    /\ held \subseteq Keycodes
    /\ caps \in BOOLEAN

Interrupt == Len(wire') < Len(wire)

\* Every interrupt reports exactly the event that its byte completes: no key
\* fires on a prefix or on the filler bytes of a sequence, twice, as another
\* key, or as a press when it was a release.
ReportedAsSent ==
    [][Interrupt /\ Supported => report' = Head(wire).event]_allVars

\* Every character typed is the one the user meant, under the modifiers that
\* were down when the key was pressed, however late its bytes are handled.
TypedAsMeant ==
    [][Interrupt /\ Supported =>
          typed' = IF Head(wire).ch = 0 THEN typed
                                        ELSE Append(typed, Head(wire).ch)]_allVars

\* The statics have their types, and once the wire is empty the modifiers are those of the keys that are down
\* and of caps lock, and no state of an unfinished sequence is left over.
ModifiersMatchKeys ==
    /\ Ps2TypeOK
    /\ wire = <<>> /\ Supported =>
           /\ modifiers = HeldModifiers \cup (IF caps THEN {"CAPS"} ELSE {})
           /\ ~release_next /\ ignore_next = 0 /\ scancode_plane = 0

\* A modifier never sticks: it is cleared some time after its key is let go,
\* unless the key is pressed again.
NoStuckModifier ==
    \A mod \in {ModifierKey(key) : key \in Keycodes} \ {"none"} :
        (mod \notin HeldModifiers) ~> (mod \notin modifiers \/ mod \in HeldModifiers)
=============================================================================
