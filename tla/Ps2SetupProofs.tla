--------------------------- MODULE Ps2SetupProofs ---------------------------
(***************************************************************************)
(* Proofs about Ps2Setup and the operations of Interrupts, for every set   *)
(* of interrupt lines, key bytes, and numbers of keys, requests to send    *)
(* again and interrupts of other devices.                                  *)
(*                                                                         *)
(* That handlers do not nest and that no line finds its gate absent depend *)
(* on each other, and both on the order in which setup_interrupts and the  *)
(* drivers set gates and masks: GatesInv and ServiceInv are inductive only *)
(* together.  What setup concludes from the answers depends on the whole   *)
(* conversation: QuietTalk and ShiftedTalk say which bytes wait to be read *)
(* at each of its points, without a key and with one.                      *)
(***************************************************************************)
EXTENDS Ps2Setup, SequenceTheorems, TLAPS

Byte == 0..255

TypeInv ==
    /\ TypeOK
    /\ hardware \in [controller : BOOLEAN, device : BOOLEAN, set3 : BOOLEAN]
    /\ early + keys <= MaxKeys

\* Before load_enable_interrupts.
BeforeEnable == {"init_pic", "init_table", "enable_interrupts"}

\* The points at which the driver talks to the controller.
Talking ==
    {"self_test", "self_test_in", "disable1", "disable2", "clear", "clear_in", "send",
     "send_in", "device_test_in", "set_in", "enable", "enable_in", "enable1"}

GatePresent(line) == gates[IRQ_OFFSET + line].present

\* A line that is not masked has a gate, and the gate disables interrupts.
GatesInv ==
    /\ \A line \in Lines : gates[IRQ_OFFSET + line].type = "INTERRUPT"
    /\ pc \in BeforeEnable => ~enabled
    /\ pc \in {"init_table", "enable_interrupts"} => masks = Bits \ {<<"MS", Cascade>>}
    /\ pc # "init_pic" =>
           \A line \in Lines \ {Cascade} : BitOf(line) \notin masks => GatePresent(line)
    /\ pc \notin {"init_pic", "done"} => BitOf(IRQ1_KEYBOARD_DATA_READY) \in masks
    /\ pc \in {"unmask", "done"} => GatePresent(IRQ1_KEYBOARD_DATA_READY)
    /\ \A line \in OtherLines :
           others[line] # "none" => GatePresent(line) /\ pc \in {"done", "failed"}

\* The bits of the controllers that the handler of a line serves.
Serves(line) == {BitOf(line)} \cup IF Slave(line) THEN {<<"MS", Cascade>>} ELSE {}

\* One handler runs at most, and the keyboard's only once setup is done and if
\* there is a byte to read.
ServiceInv ==
    /\ ~panicked
    /\ \/ running = <<>> /\ in_service = {}
       \/ /\ ~enabled /\ pc \notin BeforeEnable
          /\ \E line \in Lines :
                /\ running = <<line>> /\ in_service = Serves(line)
                /\ line = IRQ1_KEYBOARD_DATA_READY => pc = "done" /\ out # <<>>

IInv == TypeInv /\ GatesInv /\ ServiceInv

\* What the self tests and the command to change the set are answered with.
ControllerReply ==
    IF hardware.controller THEN PS2_KB_CONTROLLER_SELF_TEST_PASSED ELSE SelfTestFailed
DeviceReply == IF hardware.device THEN PS2_KB_SELF_TEST_PASSED ELSE SelfTestFailed
SetReplies == {PS2_KB_ACK, SelfTestFailed}

\* Both commands that take an argument have been accepted before it is sent.
ArgumentExpected == cmd \in {3, 5} => dev_arg

\* The configuration byte: as the firmware left it, with the keyboard's port
\* and then both ports disabled, and when the keyboard is talked to.
Config0 == ENABLE_IRQ1 + TRANSLATE
Config1 == Config0 + DisableKb
Config2 == Config1 + DisableAux
Config3 == DisableKb + DisableAux

\* The driver has not disabled the keyboard's port.
PortOpen == BeforeEnable \cup {"self_test", "self_test_in", "disable1"}

\* The conversation as long as no key is pressed: every answer that waits is
\* the answer to the last command.
QuietTalk ==
    early = 0 =>
        /\ pc \in PortOpen => config = Config0 /\ cmd = 1
        /\ pc \in PortOpen \ {"self_test_in"} => out = <<>>
        /\ pc = "self_test_in" => out = <<ControllerReply>>
        /\ pc = "disable2" => out = <<>> /\ config = Config1 /\ cmd = 1
        /\ pc = "clear" => out = <<>> /\ config = Config2 /\ cmd = 1
        /\ pc = "clear_in" => out = <<Config2>> /\ config = Config2 /\ cmd = 1
        /\ pc \in {"send", "send_in", "device_test_in", "set_in", "enable"} => config = Config3
        /\ pc = "send" => out = <<>> /\ ArgumentExpected
        /\ pc = "send_in" =>
              \/ out = <<PS2_KB_RESEND>> /\ ArgumentExpected
              \/ cmd = 1 /\ out = <<PS2_KB_ACK, DeviceReply>>
              \/ cmd \in {2, 4} /\ out = <<PS2_KB_ACK>> /\ dev_arg
              \/ cmd = 3 /\ \E r \in SetReplies : out = <<r>>
              \/ cmd = 5 /\ out = <<PS2_KB_ACK, dev_set>>
        /\ pc = "device_test_in" => out = <<DeviceReply>> /\ cmd = 2
        /\ pc = "set_in" => out = <<dev_set>>
        /\ pc \in {"enable", "enable_in", "enable1"} \cup SetupReturned => scancode_set = dev_set
        /\ pc = "enable" => out = <<>>
        /\ pc = "enable_in" => out = <<Config3>> /\ config = Config3
        /\ pc = "enable1" => config = Config3 + ENABLE_IRQ1
        /\ pc \in SetupReturned => config = DisableAux + ENABLE_IRQ1
        /\ pc = "failed" => ~hardware.controller \/ ~hardware.device

\* The conversation after one key, if the keyboard never asks for a byte
\* again: every answer is read one command too late, so that the driver takes
\* an acknowledgement for the scancode set and fails.
ShiftedTalk ==
    early = 1 /\ resends = MaxResend =>
        /\ pc \in PortOpen => config = Config0 /\ cmd = 1
        /\ pc \in PortOpen \ {"self_test_in"} => \E x \in Byte : out = <<x>>
        /\ pc = "self_test_in" =>
              \E x \in Byte : out \in {<<x, ControllerReply>>, <<ControllerReply, x>>}
        /\ pc = "disable2" => config = Config1 /\ cmd = 1 /\ \E x \in Byte : out = <<x>>
        /\ pc = "clear" => config = Config2 /\ cmd = 1 /\ \E x \in Byte : out = <<x>>
        /\ pc = "clear_in" => cmd = 1 /\ \E x \in Byte : out = <<x, Config2>>
        /\ pc = "send" =>
              \/ cmd = 1 /\ out = <<Config2>>
              \/ cmd = 2 /\ out = <<PS2_KB_ACK, DeviceReply>>
              \/ cmd = 3 /\ out = <<DeviceReply, PS2_KB_ACK>> /\ dev_arg
              \/ cmd = 4 /\ \E r \in SetReplies : out = <<PS2_KB_ACK, r>>
              \/ cmd = 5 /\ \E r \in SetReplies : out = <<r, PS2_KB_ACK>> /\ dev_arg
        /\ pc = "send_in" =>
              \/ cmd = 1 /\ out = <<Config2, PS2_KB_ACK, DeviceReply>>
              \/ cmd = 2 /\ out = <<PS2_KB_ACK, DeviceReply, PS2_KB_ACK>> /\ dev_arg
              \/ cmd = 3 /\ \E r \in SetReplies : out = <<DeviceReply, PS2_KB_ACK, r>>
              \/ cmd = 4 /\ \E r \in SetReplies : out = <<PS2_KB_ACK, r, PS2_KB_ACK>> /\ dev_arg
              \/ cmd = 5 /\ \E r \in SetReplies : out = <<r, PS2_KB_ACK, PS2_KB_ACK, dev_set>>
        /\ pc = "set_in" => out = <<PS2_KB_ACK, PS2_KB_ACK, dev_set>>
        /\ pc \notin {"device_test_in", "enable", "enable_in", "enable1"} \cup SetupReturned
-----------------------------------------------------------------------------
(***************************************************************************)
(* Types.                                                                  *)
(***************************************************************************)

\* The flags that the driver sets and clears keep the configuration a byte.
LEMMA FlagsKeepByte ==
    ASSUME NEW b \in Byte
    PROVE  /\ With(b, ENABLE_IRQ1) \in Byte
           /\ With(b, DisableKb) \in Byte
           /\ With(b, DisableAux) \in Byte
           /\ Without(b, ENABLE_IRQ1) \in Byte
           /\ Without(b, ENABLE_IRQ2) \in Byte
           /\ Without(b, DisableKb) \in Byte
           /\ Without(b, TRANSLATE) \in Byte
  BY DEF Byte, With, Without, Has, ENABLE_IRQ1, ENABLE_IRQ2, DisableKb, DisableAux, TRANSLATE

\* A step that polls leaves everything but the conversation alone.
LEMMA TypeOfTalk ==
    ASSUME TypeInv,
           UNCHANGED <<interruptVars, keys, early, hardware, otherVars>>,
           pc' \in Labels, cmd' \in 1..Len(DeviceCommands), scancode_set' \in 0..255,
           out' \in Seq(0..255), config' \in 0..255,
           dev_set' \in {2, 3}, dev_arg' \in BOOLEAN, resends' \in 0..MaxResend
    PROVE  TypeInv'
  BY DEF TypeInv, TypeOK, InterruptsTypeOK, interruptVars, otherVars

\* The steps of the conversation by polling.
Talk ==
    \/ SelfTest \/ SelfTestResult
    \/ Disable1 \/ Disable2
    \/ ClearGet \/ ClearPut
    \/ SendByte \/ SendResult \/ DeviceTestResult \/ GetSet
    \/ EnableGet \/ EnablePut \/ Enable1

\* What all of them have in common.
LEMMA TalkFrame ==
    ASSUME Talk
    PROVE  /\ UNCHANGED <<interruptVars, keys, early, hardware, otherVars>>
           /\ MainRuns
           /\ pc \in Talking /\ pc' \in Talking \cup {"set_isr", "failed"}
  BY DEF Talk, SelfTest, SelfTestResult, Disable1, Disable2, ClearGet, ClearPut, SendByte,
         SendResult, DeviceTestResult, GetSet, EnableGet, EnablePut, Enable1, wait_out,
         wait_in, Talking

\* Commands and replies are bytes.
LEMMA TalkType ==
    ASSUME TypeInv, Talk
    PROVE  TypeInv'
<1> USE DEF driverVars, deviceVars
<1>1. /\ UNCHANGED <<interruptVars, keys, early, hardware, otherVars>>
      /\ pc' \in Labels
  BY TalkFrame DEF Talking, Labels
<1>2. /\ cmd \in 1..5 /\ scancode_set \in 0..255 /\ config \in 0..255 /\ config \in Byte
      /\ dev_set \in {2, 3} /\ dev_arg \in BOOLEAN /\ resends \in 0..MaxResend
      /\ out \in Seq(0..255) /\ scancode_set \in Byte
  BY DEF TypeInv, TypeOK, DeviceCommands, Byte
<1>3. Len(DeviceCommands) = 5
  BY DEF DeviceCommands
<1>4. out # <<>> => Head(out) \in 0..255 /\ Tail(out) \in Seq(0..255)
  BY <1>2, HeadTailProperties
<1>5. CASE SelfTest \/ Disable1 \/ Disable2 \/ ClearGet \/ EnableGet \/ Enable1
  <2>1. UNCHANGED <<cmd, scancode_set, dev_set, dev_arg, resends>>
    BY <1>5
    DEF SelfTest, Disable1, Disable2, ClearGet, EnableGet, Enable1, wait_out
  <2>2. config' \in Byte
    BY <1>2, <1>5, FlagsKeepByte
    DEF SelfTest, Disable1, Disable2, ClearGet, EnableGet, Enable1, wait_out
  <2>3. out' \in Seq(0..255)
    <3>1. \E reply \in Seq(0..255) : out' = out \o reply
      <4>1. <<>> \in Seq(0..255) /\ <<config>> \in Seq(0..255)
        BY <1>2
      <4>2. <<IF hardware.controller THEN PS2_KB_CONTROLLER_SELF_TEST_PASSED
                                     ELSE SelfTestFailed>> \in Seq(0..255)
        BY DEF PS2_KB_CONTROLLER_SELF_TEST_PASSED, SelfTestFailed
      <4> QED
        BY <1>5, <4>1, <4>2
        DEF SelfTest, Disable1, Disable2, ClearGet, EnableGet, Enable1, wait_out
    <3> QED
      BY <1>2, <3>1, ConcatProperties
  <2> QED
    BY <1>1, <1>2, <1>3, <2>1, <2>2, <2>3, TypeOfTalk DEF Byte
<1>6. CASE SelfTestResult \/ ClearPut \/ SendResult \/ DeviceTestResult \/ GetSet \/ EnablePut
  <2>1. out # <<>> /\ out' = Tail(out) /\ UNCHANGED <<dev_set, dev_arg, resends>>
    BY <1>6
    DEF SelfTestResult, ClearPut, SendResult, DeviceTestResult, GetSet, EnablePut, wait_in
  <2>2. Head(out) \in Byte /\ Tail(out) \in Seq(0..255)
    BY <1>4, <2>1 DEF Byte
  <2>3. config' \in Byte
    BY <1>2, <1>6, <2>2, FlagsKeepByte
    DEF SelfTestResult, ClearPut, SendResult, DeviceTestResult, GetSet, EnablePut
  <2>4. cmd' \in 1..5
    BY <1>2, <1>6
    DEF SelfTestResult, ClearPut, SendResult, DeviceTestResult, GetSet, EnablePut
  <2>5. scancode_set' \in Byte
    <3>1. scancode_set' \in {scancode_set, Head(out)}
      BY <1>6
      DEF SelfTestResult, ClearPut, SendResult, DeviceTestResult, GetSet, EnablePut
    <3> QED
      BY <1>2, <2>2, <3>1
  <2> QED
    BY <1>1, <1>2, <1>3, <2>1, <2>2, <2>3, <2>4, <2>5, TypeOfTalk DEF Byte
<1>7. CASE SendByte
  <2>1. UNCHANGED <<cmd, scancode_set, config>>
    BY <1>7 DEF SendByte
  <2>2. CASE AsksAgain
    <3>1. out' \in Seq(0..255)
      BY <1>2, <2>2 DEF AsksAgain, PS2_KB_RESEND
    <3>2. resends' \in 0..MaxResend
      BY <1>2, <2>2, MaxResendAssumption DEF AsksAgain
    <3> QED
      BY <1>1, <1>2, <1>3, <2>1, <2>2, <3>1, <3>2, TypeOfTalk DEF AsksAgain
  <2>3. CASE Answers(DeviceCommands[cmd])
    <3>1. dev_set' \in {2, 3} /\ dev_arg' \in BOOLEAN /\ resends' = resends
      BY <1>2, <2>3 DEF Answers
    <3>2. out' \in Seq(0..255)
      <4>1. \E a, b \in 0..255 : \/ out' = Append(out, a)
                                 \/ out' = out \o <<a, b>>
        <5>1. /\ dev_set \in 0..255
              /\ {PS2_KB_ACK, PS2_KB_SELF_TEST_PASSED, SelfTestFailed, PS2_KB_RESEND}
                     \subseteq 0..255
          BY <1>2 DEF PS2_KB_ACK, PS2_KB_SELF_TEST_PASSED, SelfTestFailed, PS2_KB_RESEND
        <5> QED
          BY <2>3, <5>1 DEF Answers
      <4>2. PICK a \in 0..255, b \in 0..255 : \/ out' = Append(out, a)
                                              \/ out' = out \o <<a, b>>
        BY <4>1
      <4>3. <<a, b>> \in Seq(0..255)
        OBVIOUS
      <4>4. Append(out, a) \in Seq(0..255)
        BY <1>2, AppendProperties
      <4>5. out \o <<a, b>> \in Seq(0..255)
        BY <1>2, <4>3, ConcatProperties
      <4> QED
        BY <4>2, <4>4, <4>5
    <3> QED
      BY <1>1, <1>2, <1>3, <2>1, <3>1, <3>2, TypeOfTalk
  <2> QED
    BY <1>7, <2>2, <2>3 DEF SendByte
<1> QED
  BY <1>5, <1>6, <1>7 DEF Talk
-----------------------------------------------------------------------------
(***************************************************************************)
(* Bits, gates and the end of interrupt.                                   *)
(***************************************************************************)

\* Different lines have different bits, no device has the bit of the cascade,
\* and the mask functions touch no other line's bit.
LEMMA BitFacts ==
    ASSUME NEW line \in Lines
    PROVE  /\ line \in 0..15
           /\ BitOf(line) \in Bits
           /\ line # Cascade => BitOf(line) # <<"MS", Cascade>>
           /\ \A other \in Lines : BitOf(line) = BitOf(other) => line = other
           /\ MaskBit(line) \subseteq {BitOf(line)}
           /\ MaskBit(line) \subseteq Bits
<1>1. Lines \subseteq 0..15
  BY LinesAssumption
<1> QED
  BY <1>1 DEF BitOf, Bits, Cascade, MaskBit

\* The line of the keyboard is on the right side of that comparison.
LEMMA KeyboardBit ==
    /\ IRQ1_KEYBOARD_DATA_READY \in Lines /\ IRQ1_KEYBOARD_DATA_READY # Cascade
    /\ IRQ1_KEYBOARD_DATA_READY \notin OtherLines
  BY KeyboardLineAssumption DEF IRQ1_KEYBOARD_DATA_READY, Cascade, OtherLines

\* pic_eoi ends all that a single handler serves, at both controllers.
LEMMA EoiEndsAll ==
    ASSUME NEW line \in Lines, in_service = Serves(line), pic_eoi(line)
    PROVE  in_service' = {}
<1>1. line \in 0..15
  BY BitFacts
<1>2. CASE line < 8
  <2>1. in_service = {<<"MS", line>>}
    BY <1>1, <1>2 DEF Serves, BitOf, Slave
  <2>2. Ended("MS", in_service) = in_service
    BY <1>1, <2>1 DEF Ended
  <2> QED
    BY <2>2 DEF pic_eoi
<1>3. CASE line >= 8
  <2>1. in_service = {<<"SL", line - 8>>, <<"MS", Cascade>>}
    BY <1>1, <1>3 DEF Serves, BitOf, Slave
  <2>2. <<"MS", Cascade>> \in Ended("MS", in_service)
    BY <2>1 DEF Ended, Cascade
  <2>3. <<"SL", line - 8>> \in Ended("SL", in_service)
    BY <1>1, <2>1 DEF Ended
  <2> QED
    BY <1>3, <2>1, <2>2, <2>3 DEF pic_eoi
<1> QED
  BY <1>1, <1>2, <1>3

\* The vectors of the lines come after those of the exceptions.
LEMMA VectorFacts ==
    \A line \in Lines : IRQ_OFFSET + line \in Vectors /\ ~(IRQ_OFFSET + line < IRQ_OFFSET)
<1>1. \A line \in Lines : IRQ_OFFSET + line \in Vectors
  BY DEF Vectors
<1>2. \A line \in 0..15 : ~(IRQ_OFFSET + line < IRQ_OFFSET)
  BY DEF IRQ_OFFSET
<1> QED
  BY <1>1, <1>2, LinesAssumption

\* set_isr marks one gate as present and changes nothing else in the table.
LEMMA WithIsrFacts ==
    ASSUME InterruptsTypeOK, NEW line \in Lines
    PROVE  /\ WithIsr(line) \in [Vectors -> [present : BOOLEAN, type : {"INTERRUPT", "TRAP"}]]
           /\ WithIsr(line)[IRQ_OFFSET + line].present
           /\ \A k \in Lines :
                 /\ WithIsr(line)[IRQ_OFFSET + k].type = gates[IRQ_OFFSET + k].type
                 /\ gates[IRQ_OFFSET + k].present => WithIsr(line)[IRQ_OFFSET + k].present
<1>1. \A k \in Lines : IRQ_OFFSET + k \in Vectors
  BY VectorFacts
<1>2. gates \in [Vectors -> [present : BOOLEAN, type : {"INTERRUPT", "TRAP"}]]
  BY DEF InterruptsTypeOK
<1>3. PICK v \in Vectors : v = IRQ_OFFSET + line
  BY <1>1
<1>4. WithIsr(line) = [gates EXCEPT ![v] = [gates[v] EXCEPT !.present = TRUE]]
  BY <1>2, <1>3 DEF WithIsr
<1>5. PICK g \in [present : BOOLEAN, type : {"INTERRUPT", "TRAP"}] : g = gates[v]
  BY <1>2
<1>6. /\ [gates[v] EXCEPT !.present = TRUE] \in [present : BOOLEAN, type : {"INTERRUPT", "TRAP"}]
      /\ [gates[v] EXCEPT !.present = TRUE].present = TRUE
      /\ [gates[v] EXCEPT !.present = TRUE].type = gates[v].type
  BY <1>5
<1> QED
  BY <1>1, <1>2, <1>3, <1>4, <1>6
-----------------------------------------------------------------------------
(***************************************************************************)
(* The steps.                                                              *)
(***************************************************************************)

\* What setup_interrupts and the drivers do in the main loop keeps the order
\* of gates and masks.
LEMMA SetupStep ==
    ASSUME IInv, SetupPic \/ SetupTable \/ SetupDone \/ SetIsr \/ Unmask
    PROVE  IInv'
<1> USE KeyboardBit, BitFacts
    DEF deviceVars, otherVars, MainRuns, GatePresent, BeforeEnable
<1>1. /\ UNCHANGED <<cmd, scancode_set, out, config, dev_set, dev_arg, resends, keys, early,
                     hardware, others, raised, raises>>
      /\ running = <<>> /\ UNCHANGED running /\ ~panicked /\ UNCHANGED panicked
      /\ pc' \in Labels
  BY DEF SetupPic, SetupTable, SetupDone, SetIsr, Unmask, Call, init_pic, init_table,
         load_enable_interrupts, set_isr, pic_clear_mask, Labels
<1>2. in_service = {} /\ in_service' = {}
  BY <1>1
  DEF IInv, ServiceInv, SetupPic, SetupTable, SetupDone, SetIsr, Unmask, Call, init_pic,
      init_table, load_enable_interrupts, set_isr, pic_clear_mask
<1>3. ServiceInv'
  BY <1>1, <1>2 DEF ServiceInv
<1>4. InterruptsTypeOK' => TypeInv'
  BY <1>1 DEF IInv, TypeInv, TypeOK
<1>5. InterruptsTypeOK /\ \A line \in OtherLines : line \in Lines /\ line # Cascade
  BY DEF IInv, TypeInv, TypeOK, OtherLines
<1>6. CASE SetupPic
  <2>1. /\ pc = "init_pic" /\ pc' = "init_table"
        /\ masks' = Bits \ {<<"MS", Cascade>>} /\ UNCHANGED <<gates, enabled>>
    BY <1>6 DEF SetupPic, Call, init_pic
  <2>2. InterruptsTypeOK'
    BY <1>1, <1>2, <1>5, <2>1 DEF InterruptsTypeOK
  <2>3. GatesInv'
    BY <1>1, <2>1 DEF IInv, GatesInv
  <2> QED
    BY <1>3, <1>4, <2>2, <2>3 DEF IInv
<1>7. CASE SetupTable
  <2>1. /\ pc = "init_table" /\ pc' = "enable_interrupts" /\ UNCHANGED <<masks, enabled>>
        /\ gates' = [v \in Vectors |-> IF v < IRQ_OFFSET
                                       THEN [present |-> TRUE, type |-> "TRAP"]
                                       ELSE [present |-> FALSE, type |-> "INTERRUPT"]]
    BY <1>7 DEF SetupTable, Call, init_table, BaseType
  <2>2. gates' \in [Vectors -> [present : BOOLEAN, type : {"INTERRUPT", "TRAP"}]]
    BY <2>1
  <2>3. InterruptsTypeOK'
    BY <1>1, <1>2, <1>5, <2>1, <2>2 DEF InterruptsTypeOK
  <2>4. \A line \in Lines : gates'[IRQ_OFFSET + line].type = "INTERRUPT"
    BY <2>1, VectorFacts
  <2>5. GatesInv'
    BY <1>1, <2>1, <2>4 DEF IInv, GatesInv
  <2> QED
    BY <1>3, <1>4, <2>3, <2>5 DEF IInv
<1>8. CASE SetupDone
  <2>1. /\ pc = "enable_interrupts" /\ pc' = "self_test" /\ UNCHANGED <<masks, gates>>
        /\ enabled' = TRUE
    BY <1>8 DEF SetupDone, Call, load_enable_interrupts
  <2>2. InterruptsTypeOK'
    BY <1>1, <1>2, <1>5, <2>1 DEF InterruptsTypeOK
  <2>3. GatesInv'
    BY <1>1, <2>1 DEF IInv, GatesInv
  <2> QED
    BY <1>3, <1>4, <2>2, <2>3 DEF IInv
<1>9. CASE SetIsr
  <2>1. /\ pc = "set_isr" /\ pc' = "unmask" /\ UNCHANGED <<masks, enabled>>
        /\ gates' = WithIsr(IRQ1_KEYBOARD_DATA_READY)
    BY <1>9 DEF SetIsr, Call, set_isr
  <2>2. /\ gates' \in [Vectors -> [present : BOOLEAN, type : {"INTERRUPT", "TRAP"}]]
        /\ gates'[IRQ_OFFSET + IRQ1_KEYBOARD_DATA_READY].present
        /\ \A k \in Lines :
              /\ gates'[IRQ_OFFSET + k].type = gates[IRQ_OFFSET + k].type
              /\ gates[IRQ_OFFSET + k].present => gates'[IRQ_OFFSET + k].present
    BY <1>5, <2>1, WithIsrFacts
  <2>3. InterruptsTypeOK'
    BY <1>1, <1>2, <1>5, <2>1, <2>2 DEF InterruptsTypeOK
  <2>4. GatesInv'
    BY <1>1, <1>5, <2>1, <2>2 DEF IInv, GatesInv
  <2> QED
    BY <1>3, <1>4, <2>3, <2>4 DEF IInv
<1>10. CASE Unmask
  <2>1. /\ pc = "unmask" /\ pc' = "done" /\ UNCHANGED <<gates, enabled>>
        /\ masks' = masks \ MaskBit(IRQ1_KEYBOARD_DATA_READY)
    BY <1>10 DEF Unmask, Call, pic_clear_mask
  <2>2. InterruptsTypeOK'
    BY <1>1, <1>2, <1>5, <2>1 DEF InterruptsTypeOK
  <2>3. ASSUME NEW line \in Lines \ {Cascade}, BitOf(line) \notin masks'
        PROVE  GatePresent(line)'
    BY <2>1, <2>3 DEF IInv, GatesInv
  <2>4. GatesInv'
    BY <1>1, <2>1, <2>3 DEF IInv, GatesInv
  <2> QED
    BY <1>3, <1>4, <2>2, <2>4 DEF IInv
<1> QED
  BY <1>6, <1>7, <1>8, <1>9, <1>10

\* A key press, a device that raises its line and the conversation leave
\* gates and masks alone, and only the main loop talks.
LEMMA TalkStep ==
    ASSUME IInv, KeyPress \/ Talk \/ \E line \in OtherLines : Raise(line)
    PROVE  IInv'
<1>1. UNCHANGED <<interruptVars, others>>
  BY TalkFrame DEF KeyPress, Raise, otherVars
<1>2. TypeInv'
  <2>1. CASE KeyPress
    <3>1. PICK byte \in KeyBytes : out' = Append(out, byte)
      BY <2>1 DEF KeyPress
    <3>2. out' \in Seq(0..255)
      BY <3>1, KeyBytesAssumption, AppendProperties DEF IInv, TypeInv, TypeOK
    <3>3. /\ keys' \in 0..MaxKeys /\ early' \in 0..MaxKeys
          /\ early' + keys' <= MaxKeys
      BY <2>1, MaxKeysAssumption DEF IInv, TypeInv, TypeOK, KeyPress
    <3> QED
      BY <2>1, <3>2, <3>3
      DEF KeyPress, IInv, TypeInv, TypeOK, InterruptsTypeOK, interruptVars, driverVars,
          deviceVars, otherVars
  <2>2. CASE Talk
    BY <2>2, TalkType DEF IInv
  <2>3. CASE \E line \in OtherLines : Raise(line)
    <3>1. raised' \subseteq OtherLines /\ raises' \in 0..MaxRaises
      BY <2>3, MaxRaisesAssumption DEF Raise, IInv, TypeInv, TypeOK
    <3> QED
      BY <2>3, <3>1
      DEF Raise, IInv, TypeInv, TypeOK, InterruptsTypeOK, interruptVars, driverVars, deviceVars
  <2> QED
    BY <2>1, <2>2, <2>3
<1>3. pc' = pc \/ (pc \in Talking /\ pc' \in Talking \cup {"set_isr", "failed"} /\ running = <<>>)
  BY TalkFrame DEF KeyPress, Raise, driverVars, MainRuns
<1>4. GatesInv'
  BY <1>1, <1>3 DEF IInv, GatesInv, GatePresent, interruptVars, BeforeEnable, Talking
<1>5. ServiceInv'
  <2>1. CASE pc' # pc
    BY <1>1, <1>3, <2>1 DEF IInv, ServiceInv, interruptVars
  <2>2. CASE pc' = pc
    <3>1. running # <<>> => (out # <<>> => out' # <<>>)
      <4>1. CASE KeyPress
        BY <4>1, KeyBytesAssumption, AppendProperties DEF KeyPress, IInv, TypeInv, TypeOK
      <4> QED
        BY <4>1, TalkFrame DEF Raise, MainRuns
    <3> QED
      BY <1>1, <2>2, <3>1 DEF IInv, ServiceInv, interruptVars
  <2> QED
    BY <2>1, <2>2
<1> QED
  BY <1>2, <1>4, <1>5 DEF IInv

\* The drivers of other lines keep the order of gates and masks, too.
LEMMA OtherDriverStep ==
    ASSUME IInv, NEW line \in OtherLines, OtherDriver(line)
    PROVE  IInv'
<1> USE KeyboardBit, BitFacts DEF MainRuns, GatePresent, BeforeEnable
<1>1. /\ UNCHANGED <<pc, cmd, scancode_set, out, config, dev_set, dev_arg, resends, keys, early,
                     hardware, raised, raises>>
      /\ UNCHANGED <<in_service, running, enabled, panicked>>
      /\ running = <<>> /\ pc \in {"done", "failed"}
  BY DEF OtherDriver, OtherCall, set_isr, pic_clear_mask, pic_set_mask, driverVars, deviceVars
<1>2. ServiceInv'
  BY <1>1 DEF IInv, ServiceInv
<1>3. InterruptsTypeOK /\ line \in Lines /\ line # Cascade
      /\ line # IRQ1_KEYBOARD_DATA_READY /\ OtherLines \subseteq Lines
      /\ others \in [OtherLines -> {"none", "gate", "on", "off"}]
  BY DEF IInv, TypeInv, TypeOK, OtherLines
<1>4. ASSUME NEW to \in {"gate", "on", "off"}, others' = [others EXCEPT ![line] = to],
             InterruptsTypeOK'
      PROVE  /\ TypeInv'
             /\ others'[line] # "none"
             /\ \A k \in OtherLines : k # line => others'[k] = others[k]
  BY <1>1, <1>3, <1>4 DEF IInv, TypeInv, TypeOK
<1>5. CASE OtherCall(line, "none", "gate", set_isr(line))
  <2>1. /\ UNCHANGED masks /\ gates' = WithIsr(line)
        /\ others' = [others EXCEPT ![line] = "gate"]
    BY <1>5 DEF OtherCall, set_isr
  <2>2. /\ gates' \in [Vectors -> [present : BOOLEAN, type : {"INTERRUPT", "TRAP"}]]
        /\ gates'[IRQ_OFFSET + line].present
        /\ \A k \in Lines :
              /\ gates'[IRQ_OFFSET + k].type = gates[IRQ_OFFSET + k].type
              /\ gates[IRQ_OFFSET + k].present => gates'[IRQ_OFFSET + k].present
    BY <1>3, <2>1, WithIsrFacts
  <2>3. InterruptsTypeOK'
    BY <1>1, <1>3, <2>1, <2>2 DEF InterruptsTypeOK
  <2>4. /\ TypeInv' /\ \A k \in OtherLines : k # line => others'[k] = others[k]
    BY <1>4, <2>1, <2>3
  <2>5. GatesInv'
    BY <1>1, <1>3, <2>1, <2>2, <2>4 DEF IInv, GatesInv
  <2> QED
    BY <1>2, <2>4, <2>5 DEF IInv
<1>6. CASE OtherCall(line, "gate", "on", pic_clear_mask(line))
  <2>1. /\ UNCHANGED gates /\ masks' = masks \ MaskBit(line)
        /\ others[line] = "gate" /\ others' = [others EXCEPT ![line] = "on"]
    BY <1>6 DEF OtherCall, pic_clear_mask
  <2>2. InterruptsTypeOK'
    BY <1>1, <1>3, <2>1 DEF InterruptsTypeOK
  <2>3. TypeInv' /\ \A k \in OtherLines : k # line => others'[k] = others[k]
    BY <1>4, <2>1, <2>2
  <2>4. GatePresent(line)
    BY <2>1 DEF IInv, GatesInv
  <2>5. \A k \in Lines \ {line} : BitOf(k) \in masks' <=> BitOf(k) \in masks
    BY <1>3, <2>1
  <2>6. GatesInv'
    BY <1>1, <1>3, <2>1, <2>3, <2>4, <2>5 DEF IInv, GatesInv
  <2> QED
    BY <1>2, <2>3, <2>6 DEF IInv
<1>7. CASE OtherCall(line, "on", "off", pic_set_mask(line))
  <2>1. /\ UNCHANGED gates /\ masks' = masks \cup MaskBit(line)
        /\ others[line] = "on" /\ others' = [others EXCEPT ![line] = "off"]
    BY <1>7 DEF OtherCall, pic_set_mask
  <2>2. InterruptsTypeOK'
    BY <1>1, <1>3, <2>1 DEF InterruptsTypeOK
  <2>3. TypeInv' /\ \A k \in OtherLines : k # line => others'[k] = others[k]
    BY <1>4, <2>1, <2>2
  <2>4. GatesInv'
    BY <1>1, <1>3, <2>1, <2>3 DEF IInv, GatesInv
  <2> QED
    BY <1>2, <2>3, <2>4 DEF IInv
<1> QED
  BY <1>5, <1>6, <1>7 DEF OtherDriver

\* No line that wants to interrupt and may do so lacks its gate.
LEMMA ReadyWhenDelivered ==
    ASSUME IInv, NEW line \in Lines, Wants(line), Deliverable(line)
    PROVE  /\ GatePresent(line) /\ pc \notin BeforeEnable
           /\ line = IRQ1_KEYBOARD_DATA_READY => pc = "done" /\ out # <<>>
<1>1. line # Cascade
  BY KeyboardBit DEF Wants, IInv, TypeInv, TypeOK, OtherLines
<1>2. enabled /\ BitOf(line) \notin masks
  BY DEF Deliverable, Blocked
<1>3. pc \notin BeforeEnable
  BY <1>2 DEF IInv, GatesInv
<1> QED
  BY <1>1, <1>2, <1>3 DEF IInv, GatesInv, BeforeEnable, Wants

\* An interrupt finds no handler running, and starts one behind its gate.
LEMMA InterruptStep ==
    ASSUME IInv, NEW line \in Lines, Interrupt(line)
    PROVE  IInv'
<1>1. /\ UNCHANGED <<pc, cmd, scancode_set, out, config, dev_set, dev_arg, resends, keys, early,
                     hardware, others, raised, raises>>
      /\ UNCHANGED <<gates, masks>>
  BY DEF Interrupt, Deliver, driverVars, deviceVars, otherVars
<1>2. /\ GatePresent(line) /\ pc \notin BeforeEnable
      /\ line = IRQ1_KEYBOARD_DATA_READY => pc = "done" /\ out # <<>>
  BY ReadyWhenDelivered DEF Interrupt, Deliver
<1>3. enabled /\ running = <<>> /\ in_service = {} /\ ~panicked
  BY DEF Interrupt, Deliver, Deliverable, IInv, ServiceInv
<1>4. gates[IRQ_OFFSET + line].type = "INTERRUPT"
  BY DEF IInv, GatesInv
<1>5. /\ running' = <<line>> /\ enabled' = FALSE /\ panicked' = panicked
      /\ in_service' = Serves(line)
  <2>1. /\ running' = Append(running, line)
        /\ enabled' = (gates[IRQ_OFFSET + line].type = "TRAP")
        /\ UNCHANGED panicked
    BY <1>2 DEF Interrupt, Deliver, GatePresent
  <2>2. in_service' = in_service \cup Serves(line)
    BY DEF Interrupt, Deliver, Serves
  <2>3. Append(<<>>, line) = <<line>>
    OBVIOUS
  <2> QED
    BY <1>3, <1>4, <2>1, <2>2, <2>3
<1>6. ServiceInv'
  BY <1>1, <1>2, <1>3, <1>5 DEF ServiceInv
<1>7. GatesInv'
  BY <1>1, <1>2, <1>5 DEF IInv, GatesInv, GatePresent
<1>8. TypeInv'
  <2>1. Serves(line) \subseteq Bits
    BY BitFacts DEF Serves, Bits, Cascade
  <2>2. <<line>> \in Seq(Lines)
    OBVIOUS
  <2> QED
    BY <1>1, <1>3, <1>5, <2>1, <2>2 DEF IInv, TypeInv, TypeOK, InterruptsTypeOK
<1> QED
  BY <1>6, <1>7, <1>8 DEF IInv

\* The end of a handler leaves nothing in service.
LEMMA HandlerStep ==
    ASSUME IInv, Handler
    PROVE  IInv'
<1>1. PICK line \in Lines : HandlerReturns(line)
  BY KeyboardBit DEF Handler, ps2_key_pressed, OtherHandler, OtherLines
<1>2. /\ UNCHANGED <<pc, cmd, scancode_set, config, dev_set, dev_arg, resends, keys, early,
                     hardware, others, raises, gates, masks, panicked>>
      /\ enabled' = TRUE
  BY <1>1
  DEF Handler, ps2_key_pressed, OtherHandler, HandlerReturns, driverVars, deviceVars, otherVars
<1>3. /\ running = <<line>> /\ in_service = Serves(line) /\ ~panicked
      /\ pc \notin BeforeEnable /\ (line = IRQ1_KEYBOARD_DATA_READY => out # <<>>)
  <2>1. running # <<>> /\ running[Len(running)] = line
    BY <1>1 DEF HandlerReturns
  <2>2. PICK k \in Lines :
            /\ running = <<k>> /\ in_service = Serves(k) /\ ~panicked
            /\ pc \notin BeforeEnable /\ (k = IRQ1_KEYBOARD_DATA_READY => out # <<>>)
    BY <2>1 DEF IInv, ServiceInv
  <2> QED
    BY <2>1, <2>2
<1>4. running' = <<>> /\ in_service' = {}
  <2>1. in_service' = {}
    BY <1>1, <1>3, EoiEndsAll DEF HandlerReturns
  <2>2. running' = SubSeq(<<line>>, 1, 0)
    BY <1>1, <1>3 DEF HandlerReturns
  <2> QED
    BY <2>1, <2>2
<1>5. ServiceInv'
  BY <1>2, <1>3, <1>4 DEF ServiceInv
<1>6. GatesInv'
  BY <1>2, <1>3 DEF IInv, GatesInv, GatePresent
<1>7. InterruptsTypeOK'
  BY <1>2, <1>4 DEF IInv, TypeInv, TypeOK, InterruptsTypeOK
<1>8. TypeInv'
  <2>1. CASE ps2_key_pressed
    <3>1. line = IRQ1_KEYBOARD_DATA_READY
      BY <1>3, <2>1 DEF ps2_key_pressed, HandlerReturns
    <3>2. out \in Seq(0..255) /\ out # <<>>
      BY <1>3, <3>1 DEF IInv, TypeInv, TypeOK
    <3>3. out' \in Seq(0..255)
      BY <2>1, <3>2, HeadTailProperties DEF ps2_key_pressed
    <3>4. UNCHANGED raised
      BY <2>1 DEF ps2_key_pressed, otherVars
    <3> QED
      BY <1>2, <1>7, <3>3, <3>4 DEF IInv, TypeInv, TypeOK
  <2>2. CASE \E k \in OtherLines : OtherHandler(k)
    <3>1. raised' \subseteq raised /\ UNCHANGED out
      BY <2>2 DEF OtherHandler
    <3> QED
      BY <1>2, <1>7, <3>1 DEF IInv, TypeInv, TypeOK
  <2> QED
    BY <2>1, <2>2 DEF Handler
<1> QED
  BY <1>5, <1>6, <1>8 DEF IInv

\* IInv holds when setup_interrupts starts, and every step keeps it.
LEMMA Inductive ==
    /\ Init => IInv
    /\ IInv /\ [Next]_vars => IInv'
<1>1. Init => IInv
  <2> SUFFICES ASSUME Init PROVE IInv
    OBVIOUS
  <2>1. InterruptsTypeOK
    <3>1. gates \in [Vectors -> [present : BOOLEAN, type : {"INTERRUPT", "TRAP"}]]
      BY DEF Init, InterruptsInit
    <3>2. masks \subseteq Bits /\ in_service \subseteq Bits /\ running \in Seq(Lines)
      BY DEF Init, InterruptsInit
    <3>3. enabled \in BOOLEAN /\ panicked \in BOOLEAN
      BY DEF Init, InterruptsInit
    <3> QED
      BY <3>1, <3>2, <3>3 DEF InterruptsTypeOK
  <2>2. others \in [OtherLines -> {"none", "gate", "on", "off"}]
    BY DEF Init
  <2>3. TypeInv
    <3>1. /\ keys \in 0..MaxKeys /\ early \in 0..MaxKeys /\ early + keys <= MaxKeys
          /\ resends \in 0..MaxResend /\ raises \in 0..MaxRaises
      BY MaxKeysAssumption, MaxResendAssumption, MaxRaisesAssumption DEF Init
    <3>2. /\ pc \in Labels /\ cmd \in 1..Len(DeviceCommands) /\ scancode_set \in 0..255
          /\ config \in 0..255 /\ dev_set \in {2, 3}
      BY DEF Init, Labels, DeviceCommands, ENABLE_IRQ1, TRANSLATE
    <3>3. out \in Seq(0..255) /\ raised \subseteq OtherLines
      BY DEF Init
    <3>4. dev_arg \in BOOLEAN
      BY DEF Init
    <3>5. hardware \in [controller : BOOLEAN, device : BOOLEAN, set3 : BOOLEAN]
      BY DEF Init
    <3> QED
      BY <2>1, <2>2, <3>1, <3>2, <3>3, <3>4, <3>5 DEF TypeInv, TypeOK
  <2>4. GatesInv
    BY VectorFacts DEF Init, InterruptsInit, GatesInv, BeforeEnable
  <2>5. ServiceInv
    BY DEF Init, InterruptsInit, ServiceInv
  <2> QED
    BY <2>3, <2>4, <2>5 DEF IInv
<1>2. IInv /\ UNCHANGED vars => IInv'
  <2> SUFFICES ASSUME IInv, UNCHANGED vars PROVE IInv'
    OBVIOUS
  <2> USE DEF vars, driverVars, interruptVars, deviceVars, otherVars
  <2>1. TypeInv'
    BY DEF IInv, TypeInv, TypeOK, InterruptsTypeOK
  <2>2. GatesInv' /\ ServiceInv'
    BY DEF IInv, GatesInv, GatePresent, ServiceInv
  <2> QED
    BY <2>1, <2>2 DEF IInv
<1> QED
  BY <1>1, <1>2, SetupStep, TalkStep, OtherDriverStep, InterruptStep, HandlerStep
  DEF Next, Driver, Talk

\* Handlers never nest, and the end of interrupt of each reaches every
\* controller involved, for all lines of both controllers.
THEOREM InServiceHolds == Spec => []InServiceMatchesHandlers
<1>1. IInv => InServiceMatchesHandlers
  <2> SUFFICES ASSUME IInv PROVE InServiceMatchesHandlers
    OBVIOUS
  <2> DEFINE S(k) == {BitOf(running[k])} \cup (IF Slave(running[k]) THEN {<<"MS", Cascade>>}
                                                                   ELSE {})
  <2>1. CASE running = <<>> /\ in_service = {}
    BY <2>1 DEF IInv, TypeInv, InServiceMatchesHandlers
  <2>2. CASE \E line \in Lines : running = <<line>> /\ in_service = Serves(line)
    <3>1. PICK line \in Lines : running = <<line>> /\ in_service = Serves(line)
      BY <2>2
    <3>2. Len(running) = 1 /\ DOMAIN running = {1} /\ running[1] = line
      BY <3>1
    <3>3. UNION {S(k) : k \in {1}} = S(1)
      OBVIOUS
    <3>4. S(1) = Serves(line)
      BY <3>2 DEF Serves
    <3> QED
      BY <3>1, <3>2, <3>3, <3>4 DEF IInv, TypeInv, InServiceMatchesHandlers
  <2> QED
    BY <2>1, <2>2 DEF IInv, ServiceInv
<1> QED
  BY <1>1, Inductive, PTL DEF Spec

\* Whichever lines are raised and whenever, none interrupts before its gate is
\* set: setup_interrupts masks them all before it enables interrupts, and the
\* drivers unmask theirs after set_isr.
THEOREM HandlerReadyHolds == Spec => []HandlerReady
<1>1. IInv => HandlerReady
  BY ReadyWhenDelivered DEF HandlerReady, GatePresent
<1> QED
  BY <1>1, Inductive, PTL DEF Spec
-----------------------------------------------------------------------------
(***************************************************************************)
(* The conversation.                                                       *)
(***************************************************************************)

\* The configuration byte on its way through cfg_clear and cfg_set.
LEMMA ConfigFacts ==
    /\ Config0 \in Byte /\ Config1 \in Byte /\ Config2 \in Byte /\ Config3 \in Byte
    /\ With(Config0, DisableKb) = Config1
    /\ With(Config1, DisableAux) = Config2
    /\ Without(Without(Without(Config2, ENABLE_IRQ1), ENABLE_IRQ2), TRANSLATE) = Config3
    /\ With(Config3, ENABLE_IRQ1) = Config3 + ENABLE_IRQ1
    /\ Without(Config3 + ENABLE_IRQ1, DisableKb) = DisableAux + ENABLE_IRQ1
  BY DEF Byte, Config0, Config1, Config2, Config3, With, Without, Has, ENABLE_IRQ1, ENABLE_IRQ2,
         DisableKb, DisableAux, TRANSLATE

\* No key reaches the output buffer while the keyboard's port is disabled, and
\* at the end the controller is set up as the driver meant it to be.
LEMMA PortFacts ==
    /\ Has(Config1, DisableKb) /\ Has(Config2, DisableKb) /\ Has(Config3, DisableKb)
    /\ Has(Config3 + ENABLE_IRQ1, DisableKb)
    /\ Has(DisableAux + ENABLE_IRQ1, ENABLE_IRQ1)
    /\ ~Has(DisableAux + ENABLE_IRQ1, TRANSLATE)
    /\ ~Has(DisableAux + ENABLE_IRQ1, DisableKb)
  BY DEF Config0, Config1, Config2, Config3, Has, ENABLE_IRQ1, DisableKb, DisableAux, TRANSLATE

\* Answers are told apart by their values.
LEMMA ReplyFacts ==
    /\ PS2_KB_ACK \in Byte /\ PS2_KB_RESEND \in Byte /\ DeviceReply \in Byte
    /\ ControllerReply \in Byte /\ SetReplies \subseteq Byte
    /\ PS2_KB_ACK # PS2_KB_RESEND /\ PS2_KB_ACK \notin 1..3
    /\ DeviceReply \notin {PS2_KB_ACK, PS2_KB_RESEND}
    /\ Config2 \notin {PS2_KB_ACK, PS2_KB_RESEND}
    /\ PS2_KB_RESEND \notin SetReplies
    /\ hardware.controller <=> ControllerReply = PS2_KB_CONTROLLER_SELF_TEST_PASSED
    /\ hardware.device <=> DeviceReply = PS2_KB_SELF_TEST_PASSED
  BY DEF PS2_KB_ACK, PS2_KB_RESEND, DeviceReply, ControllerReply, SetReplies, Byte, SelfTestFailed,
         PS2_KB_SELF_TEST_PASSED, PS2_KB_CONTROLLER_SELF_TEST_PASSED, Config2, Config1, Config0,
         ENABLE_IRQ1, TRANSLATE, DisableKb, DisableAux

\* The bytes the driver sends to the keyboard.
LEMMA CommandFacts ==
    /\ DeviceCommands[1] = PS2_KB_RESET /\ DeviceCommands[3] = 3 /\ DeviceCommands[5] = 0
    /\ DeviceCommands[2] = PS2_KB_SETSCANCODESET /\ DeviceCommands[4] = PS2_KB_SETSCANCODESET
    /\ PS2_KB_RESET \notin {0, 3, PS2_KB_SETSCANCODESET}
    /\ PS2_KB_SETSCANCODESET \notin {0, 3}
  BY DEF DeviceCommands, PS2_KB_RESET, PS2_KB_SETSCANCODESET

\* An output buffer of up to two bytes after more bytes arrive.
LEMMA Grow ==
    /\ \A a \in Byte : /\ Append(<<>>, a) = <<a>>
                       /\ <<>> \o <<a>> = <<a>>
                       /\ <<a>> \o <<>> = <<a>>
    /\ \A a, b \in Byte : /\ Append(<<a>>, b) = <<a, b>>
                          /\ <<>> \o <<a, b>> = <<a, b>>
                          /\ <<a>> \o <<b>> = <<a, b>>
    /\ \A a, b, c \in Byte : /\ Append(<<a, b>>, c) = <<a, b, c>>
                             /\ <<a>> \o <<b, c>> = <<a, b, c>>
    /\ \A a, b, c, d \in Byte : <<a, b>> \o <<c, d>> = <<a, b, c, d>>
<1>1. ASSUME NEW a \in Byte, NEW b \in Byte
      PROVE  /\ Append(<<>>, a) = <<a>> /\ <<>> \o <<a>> = <<a>> /\ <<a>> \o <<>> = <<a>>
             /\ <<>> \o <<a, b>> = <<a, b>>
  OBVIOUS
<1>2. ASSUME NEW a \in Byte, NEW b \in Byte
      PROVE  Append(<<a>>, b) = <<a, b>>
  <2> DEFINE s == Append(<<a>>, b)
             t == <<a, b>>
  <2>1. s \in Seq(Byte) /\ t \in Seq(Byte) /\ Len(s) = 2 /\ Len(t) = 2
    OBVIOUS
  <2>2. s[1] = t[1] /\ s[2] = t[2]
    OBVIOUS
  <2> HIDE DEF s, t
  <2>3. s = t
    BY <2>1, <2>2, SeqEqual
  <2> QED
    BY <2>3 DEF s, t
<1>3. ASSUME NEW a \in Byte, NEW b \in Byte
      PROVE  <<a>> \o <<b>> = <<a, b>>
  <2> DEFINE s == <<a>> \o <<b>>
             t == <<a, b>>
  <2>1. s \in Seq(Byte) /\ t \in Seq(Byte) /\ Len(s) = 2 /\ Len(t) = 2
    OBVIOUS
  <2>2. s[1] = t[1] /\ s[2] = t[2]
    OBVIOUS
  <2> HIDE DEF s, t
  <2>3. s = t
    BY <2>1, <2>2, SeqEqual
  <2> QED
    BY <2>3 DEF s, t
<1>4. ASSUME NEW a \in Byte, NEW b \in Byte, NEW c \in Byte
      PROVE  Append(<<a, b>>, c) = <<a, b, c>>
  <2> DEFINE s == Append(<<a, b>>, c)
             t == <<a, b, c>>
  <2>1. s \in Seq(Byte) /\ t \in Seq(Byte) /\ Len(s) = 3 /\ Len(t) = 3
    OBVIOUS
  <2>2. s[1] = t[1] /\ s[2] = t[2] /\ s[3] = t[3]
    OBVIOUS
  <2> HIDE DEF s, t
  <2>3. s = t
    BY <2>1, <2>2, SeqEqual
  <2> QED
    BY <2>3 DEF s, t
<1>5. ASSUME NEW a \in Byte, NEW b \in Byte, NEW c \in Byte
      PROVE  <<a>> \o <<b, c>> = <<a, b, c>>
  <2> DEFINE s == <<a>> \o <<b, c>>
             t == <<a, b, c>>
  <2>1. s \in Seq(Byte) /\ t \in Seq(Byte) /\ Len(s) = 3 /\ Len(t) = 3
    OBVIOUS
  <2>2. s[1] = t[1] /\ s[2] = t[2] /\ s[3] = t[3]
    OBVIOUS
  <2> HIDE DEF s, t
  <2>3. s = t
    BY <2>1, <2>2, SeqEqual
  <2> QED
    BY <2>3 DEF s, t
<1>6. ASSUME NEW a \in Byte, NEW b \in Byte, NEW c \in Byte, NEW d \in Byte
      PROVE  <<a, b>> \o <<c, d>> = <<a, b, c, d>>
  <2> DEFINE s == <<a, b>> \o <<c, d>>
             t == <<a, b, c, d>>
  <2>1. s \in Seq(Byte) /\ t \in Seq(Byte) /\ Len(s) = 4 /\ Len(t) = 4
    OBVIOUS
  <2>2. s[1] = t[1] /\ s[2] = t[2] /\ s[3] = t[3] /\ s[4] = t[4]
    OBVIOUS
  <2> HIDE DEF s, t
  <2>3. s = t
    BY <2>1, <2>2, SeqEqual
  <2> QED
    BY <2>3 DEF s, t
<1> QED
  BY <1>1, <1>2, <1>3, <1>4, <1>5, <1>6

\* The first byte is read, the others stay.
LEMMA Shrink ==
    ASSUME NEW a, NEW b, NEW c, NEW d
    PROVE  /\ <<a>> # <<>> /\ Head(<<a>>) = a /\ Tail(<<a>>) = <<>>
           /\ <<a, b>> # <<>> /\ Head(<<a, b>>) = a /\ Tail(<<a, b>>) = <<b>>
           /\ Head(<<a, b, c>>) = a /\ Tail(<<a, b, c>>) = <<b, c>>
           /\ Head(<<a, b, c, d>>) = a /\ Tail(<<a, b, c, d>>) = <<b, c, d>>
  OBVIOUS

\* Without a key each step of the conversation finds the answer it expects.
LEMMA QuietTalkStep ==
    ASSUME IInv, QuietTalk, Talk
    PROVE  QuietTalk'
<1> SUFFICES ASSUME early' = 0 PROVE QuietTalk'
  BY DEF QuietTalk
<1>1. early = 0 /\ hardware' = hardware
  BY TalkFrame
<1>2. ControllerReply' = ControllerReply /\ DeviceReply' = DeviceReply
  BY <1>1 DEF ControllerReply, DeviceReply
<1>3. dev_set \in {2, 3} /\ cmd \in 1..5
  BY DEF IInv, TypeInv, TypeOK, DeviceCommands
<1> USE DEF PortOpen, BeforeEnable, SetupReturned, deviceVars
<1>4. CASE SelfTest
  <2>1. /\ pc = "self_test" /\ pc' = "self_test_in" /\ UNCHANGED <<config, cmd>>
        /\ out' = out \o <<ControllerReply>>
    BY <1>4 DEF SelfTest, wait_out, ControllerReply
  <2>2. out' = <<ControllerReply>>
    BY <1>1, <2>1, Grow, ReplyFacts DEF QuietTalk
  <2> QED
    BY <1>1, <1>2, <2>1, <2>2 DEF QuietTalk
<1>5. CASE SelfTestResult
  <2>1. /\ pc = "self_test_in" /\ out' = Tail(out) /\ UNCHANGED <<config, cmd>>
        /\ pc' = IF Head(out) = PS2_KB_CONTROLLER_SELF_TEST_PASSED
                 THEN "disable1" ELSE "failed"
    BY <1>5 DEF SelfTestResult, wait_in
  <2>2. out' = <<>> /\ Head(out) = ControllerReply
    BY <1>1, <2>1, Shrink DEF QuietTalk
  <2>3. pc' = IF hardware.controller THEN "disable1" ELSE "failed"
    BY <2>1, <2>2, ReplyFacts
  <2> QED
    BY <1>1, <2>1, <2>2, <2>3 DEF QuietTalk
<1>6. CASE Disable1
  <2>1. /\ pc = "disable1" /\ pc' = "disable2" /\ out' = out \o <<>> /\ UNCHANGED cmd
        /\ config' = With(config, DisableKb)
    BY <1>6 DEF Disable1, wait_out
  <2>2. out' = <<>> /\ config' = Config1
    BY <1>1, <2>1, ConfigFacts DEF QuietTalk
  <2> QED
    BY <1>1, <2>1, <2>2 DEF QuietTalk
<1>7. CASE Disable2
  <2>1. /\ pc = "disable2" /\ pc' = "clear" /\ out' = out \o <<>> /\ UNCHANGED cmd
        /\ config' = With(config, DisableAux)
    BY <1>7 DEF Disable2, wait_out
  <2>2. out' = <<>> /\ config' = Config2
    BY <1>1, <2>1, ConfigFacts DEF QuietTalk
  <2> QED
    BY <1>1, <2>1, <2>2 DEF QuietTalk
<1>8. CASE ClearGet
  <2>1. /\ pc = "clear" /\ pc' = "clear_in" /\ out' = out \o <<config>>
        /\ UNCHANGED <<cmd, config>>
    BY <1>8 DEF ClearGet, wait_out
  <2>2. out' = <<Config2>>
    BY <1>1, <2>1, Grow, ConfigFacts DEF QuietTalk
  <2> QED
    BY <1>1, <2>1, <2>2 DEF QuietTalk
<1>9. CASE ClearPut
  <2>1. /\ pc = "clear_in" /\ pc' = "send" /\ out' = Tail(out) /\ UNCHANGED cmd
        /\ config' = Without(Without(Without(Head(out), ENABLE_IRQ1), ENABLE_IRQ2), TRANSLATE)
    BY <1>9 DEF ClearPut, wait_in
  <2>2. out' = <<>> /\ Head(out) = Config2
    BY <1>1, <2>1, Shrink DEF QuietTalk
  <2>3. config' = Config3 /\ cmd' = 1
    BY <1>1, <2>1, <2>2, ConfigFacts DEF QuietTalk
  <2> QED
    BY <1>1, <2>1, <2>2, <2>3 DEF QuietTalk, ArgumentExpected
<1>10. CASE SendByte
  <2>1. pc = "send" /\ pc' = "send_in" /\ UNCHANGED <<cmd, config, scancode_set>>
    BY <1>10 DEF SendByte
  <2>2. out = <<>> /\ ArgumentExpected /\ config = Config3
    BY <1>1, <2>1 DEF QuietTalk
  <2>3. CASE AsksAgain
    <3>1. out' = <<PS2_KB_RESEND>> /\ UNCHANGED dev_arg
      BY <2>2, <2>3, Grow, ReplyFacts DEF AsksAgain
    <3> QED
      BY <1>1, <2>1, <2>2, <3>1 DEF QuietTalk, ArgumentExpected
  <2>4. CASE Answers(DeviceCommands[cmd])
    <3>1. \/ cmd = 1 /\ out' = <<PS2_KB_ACK, DeviceReply>>
          \/ cmd \in {2, 4} /\ out' = <<PS2_KB_ACK>> /\ dev_arg' = TRUE
          \/ cmd = 3 /\ \E r \in SetReplies : out' = <<r>>
          \/ cmd = 5 /\ out' = <<PS2_KB_ACK, dev_set>> /\ dev_set' = dev_set
      <4>1. CASE cmd = 1
        BY <2>2, <2>4, <4>1, CommandFacts DEF Answers, DeviceReply
      <4>2. CASE cmd \in {2, 4}
        BY <2>2, <2>4, <4>2, CommandFacts DEF Answers
      <4>3. CASE cmd = 3
        <5>1. \E r \in SetReplies : out' = Append(out, r)
          BY <2>2, <2>4, <4>3, CommandFacts DEF Answers, ArgumentExpected, SetReplies
        <5> QED
          BY <2>2, <4>3, <5>1
      <4>4. CASE cmd = 5
        <5>1. out' = out \o <<PS2_KB_ACK, dev_set>> /\ dev_set' = dev_set
          BY <2>2, <2>4, <4>4, CommandFacts DEF Answers, ArgumentExpected
        <5>2. <<>> \o <<PS2_KB_ACK, dev_set>> = <<PS2_KB_ACK, dev_set>>
          OBVIOUS
        <5> QED
          BY <2>2, <4>4, <5>1, <5>2
      <4>5. cmd = 1 \/ cmd \in {2, 4} \/ cmd = 3 \/ cmd = 5
        BY <1>3
      <4> QED
        BY <4>1, <4>2, <4>3, <4>4, <4>5
    <3> QED
      BY <1>1, <1>2, <2>1, <2>2, <3>1 DEF QuietTalk, SetReplies
  <2> QED
    BY <1>10, <2>3, <2>4 DEF SendByte
<1>11. CASE SendResult
  <2>1. /\ pc = "send_in" /\ out' = Tail(out)
        /\ UNCHANGED <<config, scancode_set, dev_set, dev_arg>>
        /\ pc' = CASE Head(out) = PS2_KB_RESEND -> "send"
                   [] cmd = 1 /\ Head(out) = PS2_KB_ACK -> "device_test_in"
                   [] cmd = 5 /\ Head(out) = PS2_KB_ACK -> "set_in"
                   [] cmd = 5 /\ Head(out) # PS2_KB_ACK /\ Head(out) # PS2_KB_RESEND -> "failed"
                   [] OTHER -> "send"
        /\ cmd' = IF Head(out) = PS2_KB_RESEND \/ cmd = 5 THEN cmd ELSE cmd + 1
    BY <1>11 DEF SendResult, wait_in
  <2>2. config = Config3
    BY <1>1, <2>1 DEF QuietTalk
  <2>3. CASE out = <<PS2_KB_RESEND>> /\ ArgumentExpected
    <3>1. out' = <<>> /\ pc' = "send" /\ cmd' = cmd
      BY <2>1, <2>3, Shrink, ReplyFacts
    <3> QED
      BY <1>1, <2>1, <2>2, <2>3, <3>1 DEF QuietTalk, ArgumentExpected
  <2>4. CASE cmd = 1 /\ out = <<PS2_KB_ACK, DeviceReply>>
    <3>1. out' = <<DeviceReply>> /\ pc' = "device_test_in" /\ cmd' = 2
      BY <2>1, <2>4, Shrink, ReplyFacts
    <3> QED
      BY <1>1, <1>2, <2>1, <2>2, <3>1 DEF QuietTalk
  <2>5. CASE cmd \in {2, 4} /\ out = <<PS2_KB_ACK>> /\ dev_arg
    <3>1. out' = <<>> /\ pc' = "send" /\ cmd' \in {3, 5} /\ dev_arg'
      BY <2>1, <2>5, Shrink, ReplyFacts
    <3> QED
      BY <1>1, <2>1, <2>2, <3>1 DEF QuietTalk, ArgumentExpected
  <2>6. CASE cmd = 3 /\ \E r \in SetReplies : out = <<r>>
    <3>1. out' = <<>> /\ pc' = "send" /\ cmd' = 4
      BY <2>1, <2>6, Shrink, ReplyFacts
    <3> QED
      BY <1>1, <2>1, <2>2, <3>1 DEF QuietTalk, ArgumentExpected
  <2>7. CASE cmd = 5 /\ out = <<PS2_KB_ACK, dev_set>>
    <3>1. out' = <<dev_set>> /\ pc' = "set_in"
      BY <2>1, <2>7, Shrink, ReplyFacts
    <3> QED
      BY <1>1, <2>1, <2>2, <3>1 DEF QuietTalk
  <2> QED
    BY <1>1, <2>1, <2>3, <2>4, <2>5, <2>6, <2>7 DEF QuietTalk
<1>12. CASE DeviceTestResult
  <2>1. /\ pc = "device_test_in" /\ out' = Tail(out) /\ UNCHANGED <<config, cmd, dev_arg>>
        /\ pc' = IF Head(out) = PS2_KB_SELF_TEST_PASSED THEN "send" ELSE "failed"
    BY <1>12 DEF DeviceTestResult, wait_in
  <2>2. out' = <<>> /\ Head(out) = DeviceReply /\ cmd = 2 /\ config = Config3
    BY <1>1, <2>1, Shrink DEF QuietTalk
  <2>3. pc' = IF hardware.device THEN "send" ELSE "failed"
    BY <2>1, <2>2, ReplyFacts
  <2> QED
    BY <1>1, <2>1, <2>2, <2>3 DEF QuietTalk, ArgumentExpected
<1>13. CASE GetSet
  <2>1. /\ pc = "set_in" /\ out' = Tail(out) /\ UNCHANGED <<config, dev_set>>
        /\ scancode_set' = Head(out)
        /\ pc' = IF Head(out) \in 1..3 THEN "enable" ELSE "failed"
    BY <1>13 DEF GetSet, wait_in
  <2>2. out' = <<>> /\ Head(out) = dev_set /\ config = Config3
    BY <1>1, <2>1, Shrink DEF QuietTalk
  <2>3. pc' = "enable"
    BY <1>3, <2>1, <2>2
  <2> QED
    BY <1>1, <2>1, <2>2, <2>3 DEF QuietTalk
<1>14. CASE EnableGet
  <2>1. /\ pc = "enable" /\ pc' = "enable_in" /\ out' = out \o <<config>>
        /\ UNCHANGED <<config, scancode_set, dev_set>>
    BY <1>14 DEF EnableGet, wait_out
  <2>2. out' = <<Config3>> /\ config = Config3
    BY <1>1, <2>1, Grow, ConfigFacts DEF QuietTalk
  <2> QED
    BY <1>1, <2>1, <2>2 DEF QuietTalk
<1>15. CASE EnablePut
  <2>1. /\ pc = "enable_in" /\ pc' = "enable1" /\ out' = Tail(out)
        /\ config' = With(Head(out), ENABLE_IRQ1)
        /\ UNCHANGED <<scancode_set, dev_set>>
    BY <1>15 DEF EnablePut, wait_in
  <2>2. config' = Config3 + ENABLE_IRQ1
    BY <1>1, <2>1, Shrink, ConfigFacts DEF QuietTalk
  <2> QED
    BY <1>1, <2>1, <2>2 DEF QuietTalk
<1>16. CASE Enable1
  <2>1. /\ pc = "enable1" /\ pc' = "set_isr" /\ config' = Without(config, DisableKb)
        /\ UNCHANGED <<scancode_set, dev_set>>
    BY <1>16 DEF Enable1, wait_out
  <2>2. config' = DisableAux + ENABLE_IRQ1
    BY <1>1, <2>1, ConfigFacts DEF QuietTalk
  <2> QED
    BY <1>1, <2>1, <2>2 DEF QuietTalk
<1> QED
  BY <1>4, <1>5, <1>6, <1>7, <1>8, <1>9, <1>10, <1>11, <1>12, <1>13, <1>14, <1>15, <1>16 DEF Talk

\* After one key each step takes the answer to an earlier command.
LEMMA ShiftedTalkStep ==
    ASSUME IInv, ShiftedTalk, Talk
    PROVE  ShiftedTalk'
<1> SUFFICES ASSUME early' = 1, resends' = MaxResend PROVE ShiftedTalk'
  BY DEF ShiftedTalk
<1>1. early = 1 /\ hardware' = hardware
  BY TalkFrame
<1>2. ControllerReply' = ControllerReply /\ DeviceReply' = DeviceReply
  BY <1>1 DEF ControllerReply, DeviceReply
<1>3. dev_set \in {2, 3} /\ dev_set \in Byte /\ cmd \in 1..5
  BY DEF IInv, TypeInv, TypeOK, DeviceCommands, Byte
<1>4. resends = MaxResend /\ ~AsksAgain
  <2>1. resends \in 0..MaxResend /\ MaxResend \in Nat
    BY MaxResendAssumption DEF IInv, TypeInv, TypeOK
  <2>2. ~AsksAgain
    BY <2>1 DEF AsksAgain
  <2>3. resends' = resends
    BY <2>2
    DEF Talk, SelfTest, SelfTestResult, Disable1, Disable2, ClearGet, ClearPut, SendByte,
        SendResult, DeviceTestResult, GetSet, EnableGet, EnablePut, Enable1, wait_out, wait_in,
        Answers, deviceVars
  <2> QED
    BY <2>2, <2>3
<1> USE DEF PortOpen, BeforeEnable, SetupReturned, deviceVars
<1>5. CASE SelfTest
  <2>1. /\ pc = "self_test" /\ pc' = "self_test_in" /\ UNCHANGED <<config, cmd>>
        /\ out' = out \o <<ControllerReply>>
    BY <1>5 DEF SelfTest, wait_out, ControllerReply
  <2>2. PICK x \in Byte : out = <<x>>
    BY <1>1, <1>4, <2>1 DEF ShiftedTalk
  <2>3. out' = <<x, ControllerReply>>
    BY <2>1, <2>2, Grow, ReplyFacts
  <2> QED
    BY <1>1, <1>2, <1>4, <2>1, <2>3 DEF ShiftedTalk
<1>6. CASE SelfTestResult
  <2>1. /\ pc = "self_test_in" /\ out' = Tail(out) /\ UNCHANGED <<config, cmd>>
        /\ pc' \in {"disable1", "failed"}
    BY <1>6 DEF SelfTestResult, wait_in
  <2>2. PICK x \in Byte : out \in {<<x, ControllerReply>>, <<ControllerReply, x>>}
    BY <1>1, <1>4, <2>1 DEF ShiftedTalk
  <2>3. \E y \in Byte : out' = <<y>>
    <3>1. CASE out = <<x, ControllerReply>>
      BY <2>1, <3>1, Shrink, ReplyFacts
    <3>2. CASE out = <<ControllerReply, x>>
      BY <2>1, <3>2, Shrink
    <3> QED
      BY <2>2, <3>1, <3>2
  <2> QED
    BY <1>1, <1>4, <2>1, <2>3 DEF ShiftedTalk
<1>7. CASE Disable1
  <2>1. /\ pc = "disable1" /\ pc' = "disable2" /\ out' = out \o <<>> /\ UNCHANGED cmd
        /\ config' = With(config, DisableKb)
    BY <1>7 DEF Disable1, wait_out
  <2>2. PICK x \in Byte : out = <<x>>
    BY <1>1, <1>4, <2>1 DEF ShiftedTalk
  <2>3. out' = <<x>> /\ config' = Config1
    BY <1>1, <1>4, <2>1, <2>2, Grow, ConfigFacts DEF ShiftedTalk
  <2> QED
    BY <1>1, <1>4, <2>1, <2>3 DEF ShiftedTalk
<1>8. CASE Disable2
  <2>1. /\ pc = "disable2" /\ pc' = "clear" /\ out' = out \o <<>> /\ UNCHANGED cmd
        /\ config' = With(config, DisableAux)
    BY <1>8 DEF Disable2, wait_out
  <2>2. PICK x \in Byte : out = <<x>>
    BY <1>1, <1>4, <2>1 DEF ShiftedTalk
  <2>3. out' = <<x>> /\ config' = Config2
    BY <1>1, <1>4, <2>1, <2>2, Grow, ConfigFacts DEF ShiftedTalk
  <2> QED
    BY <1>1, <1>4, <2>1, <2>3 DEF ShiftedTalk
<1>9. CASE ClearGet
  <2>1. /\ pc = "clear" /\ pc' = "clear_in" /\ out' = out \o <<config>> /\ UNCHANGED cmd
    BY <1>9 DEF ClearGet, wait_out
  <2>2. PICK x \in Byte : out = <<x>> /\ config = Config2 /\ cmd = 1
    BY <1>1, <1>4, <2>1 DEF ShiftedTalk
  <2>3. out' = <<x, Config2>>
    BY <2>1, <2>2, Grow, ConfigFacts
  <2> QED
    BY <1>1, <1>4, <2>1, <2>2, <2>3 DEF ShiftedTalk
<1>10. CASE ClearPut
  <2>1. pc = "clear_in" /\ pc' = "send" /\ out' = Tail(out) /\ UNCHANGED cmd
    BY <1>10 DEF ClearPut, wait_in
  <2>2. PICK x \in Byte : out = <<x, Config2>> /\ cmd = 1
    BY <1>1, <1>4, <2>1 DEF ShiftedTalk
  <2>3. out' = <<Config2>>
    BY <2>1, <2>2, Shrink
  <2> QED
    BY <1>1, <1>4, <2>1, <2>2, <2>3 DEF ShiftedTalk
<1>11. CASE SendByte
  <2>1. /\ pc = "send" /\ pc' = "send_in" /\ UNCHANGED cmd
        /\ Answers(DeviceCommands[cmd])
    BY <1>4, <1>11 DEF SendByte
  <2>2. CASE cmd = 1 /\ out = <<Config2>>
    <3>1. out' = out \o <<PS2_KB_ACK, DeviceReply>>
      BY <2>1, <2>2, CommandFacts DEF Answers, DeviceReply
    <3>2. <<Config2>> \o <<PS2_KB_ACK, DeviceReply>> = <<Config2, PS2_KB_ACK, DeviceReply>>
      <4>1. Config2 \in Byte /\ PS2_KB_ACK \in Byte /\ DeviceReply \in Byte
        BY ReplyFacts, ConfigFacts
      <4> QED
        BY <4>1, Grow
    <3> QED
      BY <1>1, <1>2, <2>1, <2>2, <3>1, <3>2 DEF ShiftedTalk
  <2>3. CASE cmd = 2 /\ out = <<PS2_KB_ACK, DeviceReply>>
    <3>1. out' = Append(out, PS2_KB_ACK) /\ dev_arg' = TRUE
      BY <2>1, <2>3, CommandFacts DEF Answers
    <3>2. out' = <<PS2_KB_ACK, DeviceReply, PS2_KB_ACK>>
      BY <2>3, <3>1, Grow, ReplyFacts
    <3> QED
      BY <1>1, <1>2, <2>1, <2>3, <3>1, <3>2 DEF ShiftedTalk
  <2>4. CASE cmd = 3 /\ out = <<DeviceReply, PS2_KB_ACK>> /\ dev_arg
    <3>1. PICK r \in SetReplies : out' = Append(out, r)
      BY <2>1, <2>4, CommandFacts DEF Answers, SetReplies
    <3>2. r \in Byte
      BY ReplyFacts
    <3>3. out' = <<DeviceReply, PS2_KB_ACK, r>>
      BY <2>4, <3>1, <3>2, Grow, ReplyFacts
    <3> QED
      BY <1>1, <1>2, <2>1, <2>4, <3>3 DEF ShiftedTalk, SetReplies
  <2>5. CASE cmd = 4 /\ \E r \in SetReplies : out = <<PS2_KB_ACK, r>>
    <3>1. PICK r \in SetReplies : out = <<PS2_KB_ACK, r>>
      BY <2>5
    <3>2. r \in Byte
      BY ReplyFacts
    <3>3. out' = Append(out, PS2_KB_ACK) /\ dev_arg' = TRUE
      BY <2>1, <2>5, CommandFacts DEF Answers
    <3>4. out' = <<PS2_KB_ACK, r, PS2_KB_ACK>>
      BY <3>1, <3>2, <3>3, Grow, ReplyFacts
    <3> QED
      BY <1>1, <1>2, <2>1, <2>5, <3>3, <3>4 DEF ShiftedTalk, SetReplies
  <2>6. CASE cmd = 5 /\ \E r \in SetReplies : out = <<r, PS2_KB_ACK>> /\ dev_arg
    <3>1. PICK r \in SetReplies : out = <<r, PS2_KB_ACK>> /\ dev_arg
      BY <2>6
    <3>2. r \in Byte
      BY ReplyFacts
    <3>3. out' = out \o <<PS2_KB_ACK, dev_set>> /\ dev_set' = dev_set
      BY <2>1, <2>6, <3>1, CommandFacts DEF Answers
    <3>4. out' = <<r, PS2_KB_ACK, PS2_KB_ACK, dev_set>>
      BY <1>3, <3>1, <3>2, <3>3, Grow, ReplyFacts
    <3> QED
      BY <1>1, <1>2, <2>1, <2>6, <3>3, <3>4 DEF ShiftedTalk, SetReplies
  <2> QED
    BY <1>1, <1>4, <2>1, <2>2, <2>3, <2>4, <2>5, <2>6 DEF ShiftedTalk
<1>12. CASE SendResult
  <2>1. /\ pc = "send_in" /\ out' = Tail(out) /\ UNCHANGED <<dev_set, dev_arg>>
        /\ pc' = CASE Head(out) = PS2_KB_RESEND -> "send"
                   [] cmd = 1 /\ Head(out) = PS2_KB_ACK -> "device_test_in"
                   [] cmd = 5 /\ Head(out) = PS2_KB_ACK -> "set_in"
                   [] cmd = 5 /\ Head(out) # PS2_KB_ACK /\ Head(out) # PS2_KB_RESEND -> "failed"
                   [] OTHER -> "send"
        /\ cmd' = IF Head(out) = PS2_KB_RESEND \/ cmd = 5 THEN cmd ELSE cmd + 1
    BY <1>12 DEF SendResult, wait_in
  <2>2. CASE cmd = 1 /\ out = <<Config2, PS2_KB_ACK, DeviceReply>>
    <3>1. out' = <<PS2_KB_ACK, DeviceReply>> /\ pc' = "send" /\ cmd' = 2
      BY <2>1, <2>2, Shrink, ReplyFacts
    <3> QED
      BY <1>1, <1>2, <3>1 DEF ShiftedTalk
  <2>3. CASE cmd = 2 /\ out = <<PS2_KB_ACK, DeviceReply, PS2_KB_ACK>> /\ dev_arg
    <3>1. out' = <<DeviceReply, PS2_KB_ACK>> /\ pc' = "send" /\ cmd' = 3
      BY <2>1, <2>3, Shrink, ReplyFacts
    <3> QED
      BY <1>1, <1>2, <2>1, <2>3, <3>1 DEF ShiftedTalk
  <2>4. CASE cmd = 3 /\ \E r \in SetReplies : out = <<DeviceReply, PS2_KB_ACK, r>>
    <3>1. PICK r \in SetReplies : out = <<DeviceReply, PS2_KB_ACK, r>>
      BY <2>4
    <3>2. out' = <<PS2_KB_ACK, r>> /\ pc' = "send" /\ cmd' = 4
      BY <2>1, <2>4, <3>1, Shrink, ReplyFacts
    <3> QED
      BY <1>1, <3>2 DEF ShiftedTalk, SetReplies
  <2>5. CASE cmd = 4 /\ \E r \in SetReplies : out = <<PS2_KB_ACK, r, PS2_KB_ACK>> /\ dev_arg
    <3>1. PICK r \in SetReplies : out = <<PS2_KB_ACK, r, PS2_KB_ACK>> /\ dev_arg
      BY <2>5
    <3>2. out' = <<r, PS2_KB_ACK>> /\ pc' = "send" /\ cmd' = 5
      BY <2>1, <2>5, <3>1, Shrink, ReplyFacts
    <3> QED
      BY <1>1, <2>1, <3>1, <3>2 DEF ShiftedTalk, SetReplies
  <2>6. CASE cmd = 5 /\ \E r \in SetReplies : out = <<r, PS2_KB_ACK, PS2_KB_ACK, dev_set>>
    <3>1. PICK r \in SetReplies : out = <<r, PS2_KB_ACK, PS2_KB_ACK, dev_set>>
      BY <2>6
    <3>2. out' = <<PS2_KB_ACK, PS2_KB_ACK, dev_set>> /\ Head(out) = r
      BY <2>1, <3>1, Shrink
    <3>3. pc' \in {"set_in", "failed"}
      BY <2>1, <2>6, <3>2, ReplyFacts
    <3> QED
      BY <1>1, <2>1, <3>2, <3>3 DEF ShiftedTalk
  <2> QED
    BY <1>1, <1>4, <2>1, <2>2, <2>3, <2>4, <2>5, <2>6 DEF ShiftedTalk
<1>13. CASE GetSet
  <2>1. /\ pc = "set_in"
        /\ pc' = IF Head(out) \in 1..3 THEN "enable" ELSE "failed"
    BY <1>13 DEF GetSet, wait_in
  <2>2. Head(out) = PS2_KB_ACK
    BY <1>1, <1>4, <2>1, Shrink DEF ShiftedTalk
  <2>3. pc' = "failed"
    BY <2>1, <2>2, ReplyFacts
  <2> QED
    BY <1>1, <2>3 DEF ShiftedTalk
<1>14. CASE DeviceTestResult \/ EnableGet \/ EnablePut \/ Enable1
  <2>1. pc \in {"device_test_in", "enable", "enable_in", "enable1"}
    BY <1>14 DEF DeviceTestResult, EnableGet, EnablePut, Enable1, wait_in, wait_out
  <2> QED
    BY <1>1, <1>4, <2>1 DEF ShiftedTalk
<1> QED
  BY <1>5, <1>6, <1>7, <1>8, <1>9, <1>10, <1>11, <1>12, <1>13, <1>14 DEF Talk

\* A key is seen by the driver only if it is pressed before the keyboard's
\* port is disabled, and then it is the byte that shifts all answers.
LEMMA KeyPressTalk ==
    ASSUME IInv, QuietTalk, ShiftedTalk, KeyPress
    PROVE  QuietTalk' /\ ShiftedTalk'
<1>1. /\ UNCHANGED <<pc, cmd, scancode_set, config, dev_set, dev_arg, resends, hardware>>
      /\ ~Has(config, DisableKb)
      /\ early' = IF pc \in SetupReturned THEN early ELSE early + 1
  BY DEF KeyPress, driverVars, deviceVars
<1>2. PICK x \in KeyBytes : out' = Append(out, x)
  BY DEF KeyPress
<1>3. x \in Byte /\ early \in Nat /\ pc \in Labels
  BY KeyBytesAssumption DEF Byte, IInv, TypeInv, TypeOK
<1>4. ControllerReply' = ControllerReply /\ DeviceReply' = DeviceReply
  BY <1>1 DEF ControllerReply, DeviceReply
<1>5. QuietTalk'
  <2> SUFFICES ASSUME early' = 0 PROVE QuietTalk'
    BY DEF QuietTalk
  <2>1. pc \in SetupReturned /\ early = 0
    BY <1>1, <1>3
  <2> QED
    BY <1>1, <2>1 DEF QuietTalk, SetupReturned, PortOpen, BeforeEnable
<1>6. ShiftedTalk'
  <2> SUFFICES ASSUME early' = 1, resends' = MaxResend PROVE ShiftedTalk'
    BY DEF ShiftedTalk
  <2>1. CASE pc \in SetupReturned
    BY <1>1, <2>1 DEF ShiftedTalk
  <2>2. CASE pc \notin SetupReturned
    <3>1. early = 0
      BY <1>1, <1>3, <2>2
    <3>2. pc \in PortOpen \cup {"failed"}
      BY <1>1, <1>3, <2>2, <3>1, PortFacts
      DEF QuietTalk, Labels, PortOpen, BeforeEnable, SetupReturned
    <3>3. CASE pc = "failed"
      BY <1>1, <3>3 DEF ShiftedTalk, SetupReturned, PortOpen, BeforeEnable
    <3>4. CASE pc = "self_test_in"
      <4>1. out = <<ControllerReply>> /\ config = Config0 /\ cmd = 1
        BY <3>1, <3>4 DEF QuietTalk, PortOpen
      <4>2. out' = <<ControllerReply, x>>
        BY <1>2, <1>3, <4>1, Grow, ReplyFacts
      <4> QED
        BY <1>1, <1>3, <1>4, <3>4, <4>1, <4>2
        DEF ShiftedTalk, SetupReturned, PortOpen, BeforeEnable
    <3>5. CASE pc \in PortOpen \ {"self_test_in"}
      <4>1. out = <<>> /\ config = Config0 /\ cmd = 1
        BY <3>1, <3>5 DEF QuietTalk
      <4>2. out' = <<x>>
        BY <1>2, <1>3, <4>1, Grow
      <4> QED
        BY <1>1, <1>3, <3>5, <4>1, <4>2
        DEF ShiftedTalk, SetupReturned, PortOpen, BeforeEnable
    <3> QED
      BY <3>2, <3>3, <3>4, <3>5
  <2> QED
    BY <2>1, <2>2
<1> QED
  BY <1>5, <1>6

\* The steps of interrupts and of other drivers do not take part: the handler
\* reads bytes only once setup is done.
LEMMA OtherStepTalk ==
    ASSUME IInv, QuietTalk, ShiftedTalk,
           UNCHANGED <<cmd, scancode_set, config, dev_set, dev_arg, resends, early, hardware>>,
           \/ pc' = pc /\ (out' = out \/ pc = "done")
           \/ pc' \in BeforeEnable \cup {"self_test"} /\ pc \in BeforeEnable /\ out' = out
           \/ pc \in SetupReturned /\ pc' \in SetupReturned
    PROVE  QuietTalk' /\ ShiftedTalk'
<1>1. ControllerReply' = ControllerReply /\ DeviceReply' = DeviceReply
  BY DEF ControllerReply, DeviceReply
<1>2. QuietTalk'
  <2> SUFFICES ASSUME early' = 0 PROVE QuietTalk'
    BY DEF QuietTalk
  <2> USE DEF QuietTalk, SetupReturned, PortOpen, BeforeEnable
  <2>1. CASE pc' = pc /\ out' = out
    BY <1>1, <2>1 DEF ArgumentExpected, SetReplies
  <2>2. CASE pc' \in BeforeEnable \cup {"self_test"} /\ pc \in BeforeEnable /\ out' = out
    BY <2>2
  <2>3. CASE pc \in SetupReturned /\ pc' \in SetupReturned
    BY <2>3
  <2> QED
    BY <2>1, <2>2, <2>3
<1>3. ShiftedTalk'
  <2> SUFFICES ASSUME early' = 1, resends' = MaxResend PROVE ShiftedTalk'
    BY DEF ShiftedTalk
  <2> USE DEF ShiftedTalk, SetupReturned, PortOpen, BeforeEnable
  <2>1. CASE pc' = pc /\ out' = out
    BY <1>1, <2>1 DEF SetReplies
  <2>2. CASE pc' \in BeforeEnable \cup {"self_test"} /\ pc \in BeforeEnable /\ out' = out
    BY <2>2
  <2>3. CASE pc \in SetupReturned
    BY <2>3
  <2> QED
    BY <2>1, <2>2, <2>3
<1> QED
  BY <1>2, <1>3

\* The conversation follows one of the two plans from the start.
LEMMA TalkInductive ==
    /\ Init => QuietTalk /\ ShiftedTalk
    /\ IInv /\ QuietTalk /\ ShiftedTalk /\ [Next]_vars => QuietTalk' /\ ShiftedTalk'
<1>1. Init => QuietTalk /\ ShiftedTalk
  BY DEF Init, QuietTalk, ShiftedTalk, PortOpen, BeforeEnable, SetupReturned, Config0
<1> SUFFICES ASSUME IInv, QuietTalk, ShiftedTalk, [Next]_vars PROVE QuietTalk' /\ ShiftedTalk'
  BY <1>1
<1> DEFINE Same == UNCHANGED <<cmd, scancode_set, config, dev_set, dev_arg, resends, early,
                               hardware>>
<1> USE DEF driverVars, deviceVars
<1>2. CASE Talk
  BY <1>2, QuietTalkStep, ShiftedTalkStep
<1>3. CASE KeyPress
  BY <1>3, KeyPressTalk
<1>4. CASE SetupPic \/ SetupTable \/ SetupDone
  <2>1. Same /\ pc' \in BeforeEnable \cup {"self_test"} /\ pc \in BeforeEnable /\ out' = out
    BY <1>4 DEF SetupPic, SetupTable, SetupDone, Call, BeforeEnable
  <2> QED
    BY <2>1, OtherStepTalk
<1>5. CASE SetIsr \/ Unmask
  <2>1. Same /\ pc \in SetupReturned /\ pc' \in SetupReturned
    BY <1>5 DEF SetIsr, Unmask, Call, SetupReturned
  <2> QED
    BY <2>1, OtherStepTalk
<1>6. CASE ps2_key_pressed
  <2>1. Same /\ pc' = pc /\ HandlerReturns(IRQ1_KEYBOARD_DATA_READY)
    BY <1>6 DEF ps2_key_pressed
  <2>2. running # <<>> /\ running[Len(running)] = IRQ1_KEYBOARD_DATA_READY
    BY <2>1 DEF HandlerReturns
  <2>3. pc = "done"
    <3>1. PICK line \in Lines :
              running = <<line>> /\ (line = IRQ1_KEYBOARD_DATA_READY => pc = "done")
      BY <2>2 DEF IInv, ServiceInv
    <3> QED
      BY <2>2, <3>1
  <2> QED
    BY <2>1, <2>3, OtherStepTalk
<1>7. CASE \/ \E line \in Lines : Interrupt(line)
           \/ \E line \in OtherLines : OtherDriver(line) \/ Raise(line) \/ OtherHandler(line)
           \/ UNCHANGED vars
  <2>1. Same /\ pc' = pc /\ out' = out
    BY <1>7 DEF Interrupt, OtherDriver, OtherCall, Raise, OtherHandler, vars
  <2> QED
    BY <2>1, OtherStepTalk
<1> QED
  BY <1>2, <1>3, <1>4, <1>5, <1>6, <1>7 DEF Next, Driver, Talk, Handler

\* Whatever byte a key sends, one key during setup never makes the driver
\* succeed with a wrong scancode set, and without a key it succeeds only with
\* the right one and an untranslated, enabled port.
THEOREM SuccessAgreesHolds == Spec => []SuccessAgrees
<1>1. QuietTalk /\ ShiftedTalk => SuccessAgrees
  BY PortFacts DEF QuietTalk, ShiftedTalk, SuccessAgrees, Undisturbed
<1> QED
  BY <1>1, Inductive, TalkInductive, PTL DEF Spec

\* Without a key setup fails only if a self test does, however often the
\* keyboard asks for a byte again.
THEOREM QuietSetupSucceedsHolds == Spec => []QuietSetupSucceeds
<1>1. QuietTalk => QuietSetupSucceeds
  BY DEF QuietTalk, QuietSetupSucceeds
<1> QED
  BY <1>1, Inductive, TalkInductive, PTL DEF Spec
=============================================================================
