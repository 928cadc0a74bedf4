----------------------------- MODULE Interrupts -----------------------------
(***************************************************************************)
(* kernel/arch/i686/interrupts.c and interrupts.s: the interrupt gates and *)
(* the two cascaded interrupt controllers.  The module has the operations; *)
(* their callers, and so the specification, are in module Ps2Setup.        *)
(*                                                                         *)
(* A line of the controllers is a bit of one of them: lines 0 to 7 of the  *)
(* first, MS, and 8 to 15 of the second, SL, whose output is line 2 of the *)
(* first.  The functions that change masks and the one that ends an        *)
(* interrupt draw the border between them differently.                     *)
(***************************************************************************)
EXTENDS Integers, Sequences

CONSTANT Lines      \* the interrupt lines that are looked at, 0 to 15

ASSUME LinesAssumption == Lines \subseteq 0..15

VARIABLES
    gates,          \* vector |-> [present, type], the table IDT
    masks,          \* the bits of the two controllers that are masked
    in_service,     \* the bits whose interrupt has not ended
    running,        \* lines of the handlers that run, the innermost last
    enabled,        \* the interrupt flag of the processor
    panicked        \* panic was called, and the main loop has halted

interruptVars == <<gates, masks, in_service, running, enabled, panicked>>

IRQ_OFFSET == \h20
NotPresent == 11        \* the exception raised for an absent gate
Vectors == {NotPresent} \cup {IRQ_OFFSET + line : line \in Lines}
Cascade == 2

Bits == {"MS", "SL"} \X (0..7)

\* The bit of a line, and the lines of the second controller.
BitOf(line) == IF line < 8 THEN <<"MS", line>> ELSE <<"SL", line - 8>>
Slave(line) == line >= 8
-----------------------------------------------------------------------------
(***************************************************************************)
(* The functions of interrupts.c.                                          *)
(***************************************************************************)

\* All lines but the cascade are masked.
init_pic ==
    /\ masks' = Bits \ {<<"MS", Cascade>>}
    /\ in_service' = {}
    /\ UNCHANGED <<gates, running, enabled, panicked>>

\* Mutant: new gates are trap gates.
BaseTypeTrap == "TRAP"

BaseType == "INTERRUPT"

\* init_table, and the gates of all exceptions.
init_table ==
    /\ gates' = [v \in Vectors |-> IF v < IRQ_OFFSET
                                   THEN [present |-> TRUE, type |-> "TRAP"]
                                   ELSE [present |-> FALSE, type |-> BaseType]]
    /\ UNCHANGED <<masks, in_service, running, enabled, panicked>>

load_enable_interrupts ==
    /\ enabled' = TRUE
    /\ UNCHANGED <<gates, masks, in_service, running, panicked>>

\* Mutant: the gate is not marked as present.
WithIsrAbsent(line) == gates

WithIsr(line) == [gates EXCEPT ![IRQ_OFFSET + line].present = TRUE]

set_isr(line) ==
    /\ gates' = WithIsr(line)
    /\ UNCHANGED <<masks, in_service, running, enabled, panicked>>

\* Mutant: a line above 8 is taken for one of the first controller.
MaskBitFirst(irq) == {<<"MS", irq % 8>>}

\* 1 << irq in the controller that the mask functions choose; a bit that is
\* not in its byte is lost.
MaskBit(irq) == {IF irq > 8 THEN <<"SL", irq - 8>> ELSE <<"MS", irq>>} \cap Bits

pic_set_mask(irq) ==
    /\ masks' = masks \cup MaskBit(irq)
    /\ UNCHANGED <<gates, in_service, running, enabled, panicked>>

pic_clear_mask(irq) ==
    /\ masks' = masks \ MaskBit(irq)
    /\ UNCHANGED <<gates, in_service, running, enabled, panicked>>

\* The end of interrupt goes to the bit of a controller that is served first.
Ended(chip, service) ==
    {b \in service : b[1] = chip /\ \A c \in service : c[1] = chip => b[2] <= c[2]}

\* Mutant: only the first controller is told.
pic_eoiFirstOnly(irq) == in_service' = in_service \ Ended("MS", in_service)

pic_eoi(irq) ==
    in_service' = in_service \ (Ended("MS", in_service)
                                \cup IF irq >= 8 THEN Ended("SL", in_service) ELSE {})
-----------------------------------------------------------------------------
(***************************************************************************)
(* The hardware: when a line interrupts the processor, and what that does. *)
(***************************************************************************)
Blocked(line) ==
    \/ BitOf(line) \in masks
    \/ Slave(line) /\ <<"MS", Cascade>> \in masks
    \/ \E b \in in_service : \/ b[1] = BitOf(line)[1] /\ b[2] <= BitOf(line)[2]
                             \/ Slave(line) /\ b[1] = "MS" /\ b[2] <= Cascade

Deliverable(line) == enabled /\ ~Blocked(line)

\* Prints a dump, which is module Console's business, and halts.
panic == panicked' = TRUE

exception_code == panic

\* Through an interrupt gate, further interrupts are disabled.  An absent gate
\* raises an exception, whose handler prints and never returns; its gate is a
\* trap gate and halt_loop leaves interrupts enabled.
Deliver(line) ==
    /\ Deliverable(line)
    /\ in_service' = in_service \cup {BitOf(line)}
                        \cup IF Slave(line) THEN {<<"MS", Cascade>>} ELSE {}
    /\ LET gate == gates[IRQ_OFFSET + line]
       IN  IF gate.present
           THEN /\ running' = Append(running, line)
                /\ enabled' = (gate.type = "TRAP")
                /\ UNCHANGED panicked
           ELSE exception_code /\ UNCHANGED <<running, enabled>>
    /\ UNCHANGED <<gates, masks>>

\* A handler stub: the end of the handler, pic_eoi, and iret.
HandlerReturns(line) ==
    /\ running # <<>> /\ running[Len(running)] = line
    /\ pic_eoi(line)
    /\ running' = SubSeq(running, 1, Len(running) - 1)
    /\ enabled' = TRUE
    /\ UNCHANGED <<gates, masks, panicked>>

InterruptsInit ==
    /\ gates = [v \in Vectors |-> [present |-> FALSE, type |-> "INTERRUPT"]]
    /\ masks = {} /\ in_service = {}
    /\ running = <<>> /\ enabled = FALSE /\ panicked = FALSE

InterruptsTypeOK ==
    /\ gates \in [Vectors -> [present : BOOLEAN, type : {"INTERRUPT", "TRAP"}]]
    /\ masks \subseteq Bits /\ in_service \subseteq Bits
    /\ running \in Seq(Lines)
    /\ enabled \in BOOLEAN /\ panicked \in BOOLEAN
=============================================================================
