------------------------------ MODULE Ps2Setup ------------------------------
(***************************************************************************)
(* setup_interrupts, then controller_setup and ps2_kb_driversetup of       *)
(* kernel/arch/i686/drivers/ps2_kb.c: the conversation, by polling, with   *)
(* the keyboard controller and through it with the keyboard, after which   *)
(* the keyboard interrupt is unmasked.  Initcalls run one after the other, *)
(* so drivers of other interrupt lines, which use the same functions, set  *)
(* theirs up afterwards.                                                   *)
(*                                                                         *)
(* Replies carry nothing that says what they reply to: the driver takes    *)
(* the next byte of the controller's output buffer for the answer to its   *)
(* last command.  A byte that is there already, because a key was pressed  *)
(* before the keyboard port is disabled, shifts all the answers by one.    *)
(* The controller and the keyboard are modelled from how the driver uses   *)
(* them; the keyboard may ask for any byte again, may not support set 3,   *)
(* and either self test may fail.                                          *)
(***************************************************************************)
EXTENDS Interrupts

CONSTANTS
    KeyBytes,   \* bytes a key press may put in the output buffer
    MaxKeys,    \* bound: key presses during setup
    MaxResend,  \* bound: times the keyboard asks for a byte again
    MaxRaises   \* bound: interrupts of other devices

ASSUME KeyBytesAssumption == KeyBytes \subseteq 0..255
ASSUME MaxKeysAssumption == MaxKeys \in Nat
ASSUME MaxResendAssumption == MaxResend \in Nat
ASSUME MaxRaisesAssumption == MaxRaises \in Nat
ASSUME KeyboardLineAssumption == {1, Cascade} \subseteq Lines

VARIABLES
    pc,             \* the next access of the driver
    cmd,            \* index in DeviceCommands of the byte being sent
    scancode_set,
    out,            \* bytes waiting to be read from the data port
    config,         \* the controller's configuration byte
    dev_set,        \* the scancode set the keyboard uses
    dev_arg,        \* the keyboard expects the argument of SETSCANCODESET
    keys,           \* key presses still to come
    early,          \* history: keys pressed before setup returned
    resends,        \* times the keyboard may still ask again
    hardware,       \* what works: the two self tests, set 3
    others,         \* line |-> how far its driver is: "none", "gate", "on" or "off"
    raised,         \* lines of other devices that want to interrupt
    raises          \* how often they still will

driverVars == <<pc, cmd, scancode_set>>
deviceVars == <<dev_set, dev_arg, resends>>
otherVars  == <<others, raised, raises>>
vars == <<driverVars, interruptVars, out, config, deviceVars, keys, early, hardware,
          otherVars>>

IRQ1_KEYBOARD_DATA_READY == 1
OtherLines == Lines \ {IRQ1_KEYBOARD_DATA_READY, Cascade}

\* Initcalls run in the main loop, which stands still while a handler runs.
MainRuns == running = <<>> /\ ~panicked

PS2_KB_CONTROLLER_SELF_TEST_PASSED == \h55
PS2_KB_SETSCANCODESET   == \hF0
PS2_KB_RESET            == \hFF
PS2_KB_SELF_TEST_PASSED == \hAA
PS2_KB_ACK              == \hFA
PS2_KB_RESEND           == \hFE
SelfTestFailed          == \hFC

\* controller_setup has returned true.
SetupReturned == {"set_isr", "unmask", "done"}

\* Flags of the configuration byte.
ENABLE_IRQ1 == 1
ENABLE_IRQ2 == 2
DisableKb   == 16
DisableAux  == 32
TRANSLATE   == 64

Has(byte, flag)   == (byte \div flag) % 2 = 1
With(byte, flag)  == IF Has(byte, flag) THEN byte ELSE byte + flag

Without(byte, flag) == IF Has(byte, flag) THEN byte - flag ELSE byte
-----------------------------------------------------------------------------
(***************************************************************************)
(* The environment: key presses, and the keyboard's answer to a byte.      *)
(***************************************************************************)

\* A key reaches the output buffer unless the keyboard port is disabled.
KeyPress ==
    /\ keys > 0
    /\ ~Has(config, DisableKb)
    /\ \E byte \in KeyBytes : out' = Append(out, byte)
    /\ keys' = keys - 1
    /\ early' = IF pc \in SetupReturned THEN early ELSE early + 1
    /\ UNCHANGED <<driverVars, interruptVars, config, deviceVars, hardware, otherVars>>

AsksAgain ==
    /\ resends > 0
    /\ resends' = resends - 1
    /\ out' = Append(out, PS2_KB_RESEND)
    /\ UNCHANGED <<dev_set, dev_arg>>

Answers(byte) ==
    /\ \/ /\ byte = PS2_KB_RESET
          /\ out' = out \o <<PS2_KB_ACK, IF hardware.device
                                         THEN PS2_KB_SELF_TEST_PASSED
                                         ELSE SelfTestFailed>>
          /\ dev_set' = 2
          /\ dev_arg' = FALSE
       \/ /\ byte = PS2_KB_SETSCANCODESET
          /\ out' = Append(out, PS2_KB_ACK)
          /\ dev_arg' = TRUE
          /\ UNCHANGED dev_set
       \/ /\ byte = 3 /\ dev_arg
          /\ IF hardware.set3
             THEN dev_set' = 3 /\ out' = Append(out, PS2_KB_ACK)
             ELSE /\ UNCHANGED dev_set
                  /\ \E reply \in {PS2_KB_ACK, SelfTestFailed} :
                         out' = Append(out, reply)
          /\ dev_arg' = FALSE
       \/ /\ byte = 0 /\ dev_arg
          /\ out' = out \o <<PS2_KB_ACK, dev_set>>
          /\ dev_arg' = FALSE
          /\ UNCHANGED dev_set
       \/ /\ byte \in {0, 3} /\ ~dev_arg
          /\ out' = Append(out, PS2_KB_RESEND)
          /\ UNCHANGED <<dev_set, dev_arg>>
    /\ UNCHANGED resends
-----------------------------------------------------------------------------
(***************************************************************************)
(* The driver.  wait_out and wait_in poll the status port; a step that     *)
(* reads is enabled once there is a byte.                                  *)
(***************************************************************************)

\* A command to the controller: the bytes it adds to the output buffer and
\* its new configuration byte.
wait_out(at, then, reply, conf) ==
    /\ pc = at /\ MainRuns
    /\ pc' = then
    /\ out' = out \o reply
    /\ config' = conf
    /\ UNCHANGED <<cmd, scancode_set, interruptVars, deviceVars, keys, early, hardware,
                   otherVars>>

wait_in(at, then) ==
    /\ pc = at /\ MainRuns
    /\ out # <<>>
    /\ out' = Tail(out)
    /\ pc' = then
    /\ UNCHANGED <<interruptVars, deviceVars, keys, early, hardware, otherVars>>

SelfTest ==
    wait_out("self_test", "self_test_in",
             <<IF hardware.controller THEN PS2_KB_CONTROLLER_SELF_TEST_PASSED
                                      ELSE SelfTestFailed>>, config)

SelfTestResult ==
    /\ wait_in("self_test_in",
               IF Head(out) = PS2_KB_CONTROLLER_SELF_TEST_PASSED
               THEN "disable1" ELSE "failed")
    /\ UNCHANGED <<cmd, scancode_set, config>>

Disable1 == wait_out("disable1", "disable2", <<>>, With(config, DisableKb))

Disable2 == wait_out("disable2", "clear", <<>>, With(config, DisableAux))

\* cfg_clear and cfg_set: read the configuration byte, change it, write it.
ClearGet == wait_out("clear", "clear_in", <<config>>, config)

ClearPut ==
    /\ wait_in("clear_in", "send")
    /\ config' = Without(Without(Without(Head(out), ENABLE_IRQ1), ENABLE_IRQ2),
                         TRANSLATE)
    /\ UNCHANGED <<cmd, scancode_set>>

EnableGet == wait_out("enable", "enable_in", <<config>>, config)

EnablePut ==
    /\ wait_in("enable_in", "enable1")
    /\ config' = With(Head(out), ENABLE_IRQ1)
    /\ UNCHANGED <<cmd, scancode_set>>

Enable1 == wait_out("enable1", "set_isr", <<>>, Without(config, DisableKb))

\* The bytes sent to the keyboard: RESET, then SETSCANCODESET with 3 to
\* change the set and with 0 to ask for it.
DeviceCommands ==
    <<PS2_KB_RESET, PS2_KB_SETSCANCODESET, 3, PS2_KB_SETSCANCODESET, 0>>

SendByte ==
    /\ pc = "send" /\ MainRuns
    /\ pc' = "send_in"
    /\ AsksAgain \/ Answers(DeviceCommands[cmd])
    /\ UNCHANGED <<cmd, scancode_set, interruptVars, config, keys, early, hardware, otherVars>>

\* Mutant: a request to send again is taken for the answer.
SendResultNoResend ==
    LET ack == Head(out) = PS2_KB_ACK
    IN  /\ wait_in("send_in",
                   CASE cmd = 1 /\ ack  -> "device_test_in"
                     [] cmd = 5 /\ ack  -> "set_in"
                     [] cmd = 5 /\ ~ack -> "failed"
                     [] OTHER           -> "send")
        /\ cmd' = IF cmd = 5 THEN cmd ELSE cmd + 1
        /\ UNCHANGED <<scancode_set, config>>

\* Mutant: after a request to send again the driver only waits again.
SendResultWaits ==
    LET response == Head(out)
        ack      == response = PS2_KB_ACK
    IN  /\ wait_in("send_in",
                   CASE response = PS2_KB_RESEND -> "send_in"
                     [] cmd = 1 /\ ack           -> "device_test_in"
                     [] cmd = 5 /\ ack           -> "set_in"
                     [] cmd = 5 /\ ~ack /\ response # PS2_KB_RESEND -> "failed"
                     [] OTHER                    -> "send")
        /\ cmd' = IF response = PS2_KB_RESEND \/ cmd = 5 THEN cmd ELSE cmd + 1
        /\ UNCHANGED <<scancode_set, config>>

\* The rest of send_dev_command1, and what its callers do with its result:
\* only the answers to RESET and to the last argument decide anything.
SendResult ==
    LET response == Head(out)
        ack      == response = PS2_KB_ACK
    IN  /\ wait_in("send_in",
                   CASE response = PS2_KB_RESEND -> "send"
                     [] cmd = 1 /\ ack           -> "device_test_in"
                     [] cmd = 5 /\ ack           -> "set_in"
                     [] cmd = 5 /\ ~ack /\ response # PS2_KB_RESEND -> "failed"
                     [] OTHER                    -> "send")
        /\ cmd' = IF response = PS2_KB_RESEND \/ cmd = 5 THEN cmd ELSE cmd + 1
        /\ UNCHANGED <<scancode_set, config>>

DeviceTestResult ==
    /\ wait_in("device_test_in",
               IF Head(out) = PS2_KB_SELF_TEST_PASSED THEN "send" ELSE "failed")
    /\ UNCHANGED <<cmd, scancode_set, config>>

\* Mutant: the driver trusts that set 3 was accepted.
GetSetTrusting ==
    /\ wait_in("set_in", IF Head(out) \in 1..3 THEN "enable" ELSE "failed")
    /\ scancode_set' = 3
    /\ UNCHANGED <<cmd, config>>

GetSet ==
    /\ wait_in("set_in", IF Head(out) \in 1..3 THEN "enable" ELSE "failed")
    /\ scancode_set' = Head(out)
    /\ UNCHANGED <<cmd, config>>

\* A call of a function of module Interrupts in the main loop.
Call(at, then, function) ==
    /\ pc = at /\ MainRuns
    /\ pc' = then
    /\ function
    /\ UNCHANGED <<cmd, scancode_set, out, config, deviceVars, keys, early, hardware, otherVars>>

\* setup_interrupts, before the initcalls.
SetupPic   == Call("init_pic", "init_table", init_pic)
SetupTable == Call("init_table", "enable_interrupts", init_table)
SetupDone  == Call("enable_interrupts", "self_test", load_enable_interrupts)

\* Mutant: the interrupt is unmasked before its gate is set.
SetIsrUnmasksFirst == Call("set_isr", "unmask", pic_clear_mask(IRQ1_KEYBOARD_DATA_READY))

SetIsr == Call("set_isr", "unmask", set_isr(IRQ1_KEYBOARD_DATA_READY))
Unmask == Call("unmask", "done", pic_clear_mask(IRQ1_KEYBOARD_DATA_READY))

\* The driver of another line does the same, and may mask its line again.
OtherCall(line, from, to, function) ==
    /\ pc \in {"done", "failed"} /\ MainRuns
    /\ others[line] = from
    /\ others' = [others EXCEPT ![line] = to]
    /\ function
    /\ UNCHANGED <<driverVars, out, config, deviceVars, keys, early, hardware, raised, raises>>

OtherDriver(line) ==
    \/ OtherCall(line, "none", "gate", set_isr(line))
    \/ OtherCall(line, "gate", "on", pic_clear_mask(line))
    \/ OtherCall(line, "on", "off", pic_set_mask(line))

\* Another device wants to interrupt, whether or not it has a driver yet.
Raise(line) ==
    /\ raises > 0 /\ line \notin raised
    /\ raised' = raised \cup {line}
    /\ raises' = raises - 1
    /\ UNCHANGED <<driverVars, interruptVars, out, config, deviceVars, keys, early, hardware,
                   others>>

\* The keyboard's line is raised as long as there is a byte.
Wants(line) ==
    IF line = IRQ1_KEYBOARD_DATA_READY THEN Has(config, ENABLE_IRQ1) /\ out # <<>>
                                       ELSE line \in raised

\* Of several lines that may be delivered any one is.
Interrupt(line) ==
    /\ Wants(line)
    /\ Deliver(line)
    /\ UNCHANGED <<driverVars, out, config, deviceVars, keys, early, hardware, otherVars>>

\* The keyboard's handler reads one byte of the data port.
ps2_key_pressed ==
    /\ HandlerReturns(IRQ1_KEYBOARD_DATA_READY)
    /\ out' = Tail(out)
    /\ UNCHANGED <<driverVars, config, deviceVars, keys, early, hardware, otherVars>>

OtherHandler(line) ==
    /\ HandlerReturns(line)
    /\ raised' = raised \ {line}
    /\ UNCHANGED <<driverVars, out, config, deviceVars, keys, early, hardware, others, raises>>

Handler == ps2_key_pressed \/ \E line \in OtherLines : OtherHandler(line)

Driver ==
    \/ SetupPic \/ SetupTable \/ SetupDone
    \/ SelfTest \/ SelfTestResult
    \/ Disable1 \/ Disable2
    \/ ClearGet \/ ClearPut
    \/ SendByte \/ SendResult \/ DeviceTestResult \/ GetSet
    \/ EnableGet \/ EnablePut \/ Enable1
    \/ SetIsr \/ Unmask
-----------------------------------------------------------------------------
\* The firmware leaves the keyboard in set 2, translated to set 1.
Init ==
    /\ pc = "init_pic" /\ cmd = 1 /\ scancode_set = 0
    /\ InterruptsInit
    /\ others = [line \in OtherLines |-> "none"] /\ raised = {} /\ raises = MaxRaises
    /\ out = <<>>
    /\ config = ENABLE_IRQ1 + TRANSLATE
    /\ dev_set = 2 /\ dev_arg = FALSE
    /\ keys = MaxKeys /\ early = 0 /\ resends = MaxResend
    /\ hardware \in [controller : BOOLEAN, device : BOOLEAN, set3 : BOOLEAN]

Next ==
    \/ KeyPress \/ Driver \/ Handler
    \/ \E line \in Lines : Interrupt(line)
    \/ \E line \in OtherLines : OtherDriver(line) \/ Raise(line)

Spec ==
    /\ Init /\ [][Next]_vars
    /\ WF_vars(Driver) /\ WF_vars(Handler)
    /\ \A line \in Lines : WF_vars(Interrupt(line))
-----------------------------------------------------------------------------
(***************************************************************************)
(* Properties.                                                             *)
(***************************************************************************)
Labels ==
    {"init_pic", "init_table", "enable_interrupts", "self_test", "self_test_in",
     "disable1", "disable2", "clear", "clear_in", "send", "send_in", "device_test_in", "set_in",
     "enable", "enable_in", "enable1", "set_isr", "unmask", "done", "failed"}

\* Type invariant.
TypeOK ==
    /\ pc \in Labels
    /\ cmd \in 1..Len(DeviceCommands)
    /\ scancode_set \in 0..255
    /\ InterruptsTypeOK
    /\ others \in [OtherLines -> {"none", "gate", "on", "off"}]
    /\ raised \subseteq OtherLines /\ raises \in 0..MaxRaises
    /\ out \in Seq(0..255)
    /\ config \in 0..255
    /\ dev_set \in {2, 3} /\ dev_arg \in BOOLEAN
    /\ keys \in 0..MaxKeys /\ early \in 0..MaxKeys /\ resends \in 0..MaxResend

\* No key was pressed during setup, or a single one with a keyboard that
\* never asked for a byte again.
Undisturbed == early = 0 \/ (early = 1 /\ resends = MaxResend)

\* Setup of an undisturbed controller succeeds only if the driver and the
\* keyboard agree on the scancode set and the controller passes bytes on
\* untranslated, with the keyboard's port and interrupt enabled.  One key is
\* enough to shift every answer by one; setup then fails, but does not
\* succeed with a wrong answer.
SuccessAgrees ==
    pc \in SetupReturned /\ Undisturbed =>
        /\ scancode_set = dev_set
        /\ Has(config, ENABLE_IRQ1)
        /\ ~Has(config, TRANSLATE)
        /\ ~Has(config, DisableKb)

\* No line interrupts before its gate is set, even if it was raised before
\* setup_interrupts or while it was masked; so the kernel never panics.
HandlerReady ==
    \A line \in Lines : Wants(line) /\ Deliverable(line) => gates[IRQ_OFFSET + line].present

\* Handlers do not interrupt each other, since their gates disable interrupts,
\* and what is in service at the controllers is what the running handler
\* serves: the end of interrupt has reached all controllers involved.
InServiceMatchesHandlers ==
    /\ TypeOK
    /\ Len(running) <= 1
    /\ in_service = UNION {{BitOf(running[k])}
                               \cup (IF Slave(running[k]) THEN {<<"MS", Cascade>>} ELSE {}) :
                           k \in DOMAIN running}

\* A device that raises its line while its driver has it unmasked is served.
\* Line 8 need not be: it is on the wrong side of the comparison in the mask
\* functions, so that unmasking it changes nothing.
OtherLinesServed ==
    \A line \in OtherLines \ {8} :
        (line \in raised /\ others[line] = "on") ~> (line \notin raised \/ others[line] # "on")

\* With no key pressed during setup and hardware that passes its self tests,
\* setup does not fail, whatever the keyboard asks for again and whether or
\* not it supports set 3.
QuietSetupSucceeds ==
    hardware.controller /\ hardware.device /\ early = 0 => pc # "failed"

\* Setup comes to an end instead of waiting for an answer for ever or sending
\* a byte over and over.
SetupReturns == <>(pc \in {"done", "failed"} \/ ~Undisturbed)
=============================================================================
