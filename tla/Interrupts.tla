----------------------------- MODULE Interrupts -----------------------------
(***************************************************************************)
(* How an interrupt reaches its handler and the CPU gets back: the stubs   *)
(* of isr.S, the gates and the dispatcher of idt.c, the masks and the      *)
(* end-of-interrupt of pic.c, over a pair of 8259 controllers, the slave   *)
(* on line 2 of the master, whose lines are level-triggered.               *)
(*                                                                         *)
(* pc is where kernel_main is; it stands still while frame is not Idle.    *)
(***************************************************************************)
EXTENDS Integers, FiniteSets, FiniteSetsExt

CONSTANT SpuriousBound  \* bound: interrupts whose line drops before it is acknowledged

ASSUME SpuriousAssumption == SpuriousBound \in Nat

VARIABLES
  pc,            \* where kernel_main is
  interrupts,    \* CPU: the interrupt flag
  frame,         \* the interrupt being dispatched
  gates,         \* idt.c: vectors with a gate in the loaded table
  irq_handlers,  \* idt.c
  offsets,       \* PICs: vector of the first line of each
  masked,        \* PICs: lines masked
  raised,        \* PICs: lines their devices hold
  service,       \* PICs: lines in service
  spurious       \* spurious interrupts left

tableVars == <<gates, irq_handlers>>
picVars == <<offsets, masked, raised, service>>
irqVars == <<interrupts, frame, tableVars, picVars, spurious>>

IRQS == 0 .. 15
CASCADE == 2
EXCEPTIONS == 0 .. 31
Idle == [vector |-> 0, at |-> "idle"]

InterruptsInit ==
  /\ interrupts = FALSE /\ frame = Idle
  /\ gates = {} /\ irq_handlers = [irq \in IRQS |-> "none"]
  /\ offsets = <<8, 112>> /\ masked = IRQS  \* as the bootloader leaves them
  /\ raised = {} /\ service = {}
  /\ spurious = SpuriousBound

At(step) == pc = step /\ frame = Idle
Step(from, to) == At(from) /\ pc' = to

-----------------------------------------------------------------------------
(* What kernel_main and the drivers call.                                  *)

(* The masks are read before the controllers are reset and put back.       *)
pic_remap(offset1, offset2) ==
  /\ offsets' = <<offset1, offset2>>
  /\ UNCHANGED <<interrupts, frame, tableVars, masked, raised, service, spurious>>

(* Mutant of StubVectors: gates for the exceptions only.                   *)
StubVectorsExceptions == EXCEPTIONS

StubVectors == 0 .. 47

idt_init ==
  /\ gates' = StubVectors
  /\ UNCHANGED <<interrupts, frame, irq_handlers, picVars, spurious>>

(* Mutant of Unmasked: the cascade line stays masked.                      *)
UnmaskedAlone(irq) == {irq}

(* A line of the slave is nothing without the cascade.                     *)
Unmasked(irq) == {irq} \cup (IF irq < 8 THEN {} ELSE {CASCADE})

pic_unmask(irq) == masked' = masked \ Unmasked(irq)

register_irq_handler(irq, handler) ==
  irq_handlers' = IF irq < 16 THEN [irq_handlers EXCEPT ![irq] = handler] ELSE irq_handlers

-----------------------------------------------------------------------------
(* The controllers and the CPU.                                            *)

MasterLine(l) == IF l < 8 THEN l ELSE CASCADE
Rank(l) == (8 * MasterLine(l)) + (l % 8)

(* A line waits for those of its rank and above that are in service.       *)
Pending ==
  {l \in raised \ masked :
     /\ MasterLine(l) \notin masked
     /\ \A s \in service : IF s < 8 THEN MasterLine(l) < s ELSE l >= 8 => l < s}

Vector(l) == IF l < 8 THEN offsets[1] + l ELSE offsets[2] + l - 8
InService(l) == service \cup {l, MasterLine(l)}

(* Mutant of Enter: a trap gate, which leaves interrupts on.               *)
EnterTrap(vector) ==
  IF vector \in gates
  THEN frame' = [vector |-> vector, at |-> "dispatch"] /\ UNCHANGED <<interrupts, pc>>
  ELSE pc' = "reset" /\ UNCHANGED <<frame, interrupts>>

(* Through an interrupt gate; without one the machine triple-faults.       *)
Enter(vector) ==
  IF vector \in gates
  THEN frame' = [vector |-> vector, at |-> "dispatch"] /\ interrupts' = FALSE /\ UNCHANGED pc
  ELSE pc' = "reset" /\ UNCHANGED <<frame, interrupts>>

Accepts == interrupts /\ frame = Idle /\ pc # "reset"

TakeInterrupt ==
  /\ Accepts /\ Pending # {}
  /\ LET l == CHOOSE m \in Pending : \A o \in Pending : Rank(m) <= Rank(o)
     IN  Enter(Vector(l)) /\ service' = InService(l)
  /\ UNCHANGED <<tableVars, offsets, masked, raised, spurious>>

(* A line that drops before the CPU acknowledges it: the controller sends  *)
(* its last vector and puts none of its own lines in service.              *)
TakeSpurious ==
  /\ Accepts /\ spurious > 0
  /\ spurious' = spurious - 1
  /\ \/ 0 .. 7 \ masked # {} /\ Enter(Vector(7)) /\ UNCHANGED service
     \/ /\ 8 .. 15 \ masked # {} /\ CASCADE \notin masked
        /\ Enter(Vector(15)) /\ service' = service \cup {CASCADE}
  /\ UNCHANGED <<tableVars, offsets, masked, raised>>

-----------------------------------------------------------------------------
(* interrupt_dispatcher.  The handler it calls is a step of the driver.    *)

Exception(vector) == Enter(vector)

(* An exception stops the machine, in hlt with interrupts off.             *)
Panic ==
  /\ frame.at = "dispatch" /\ frame.vector \in EXCEPTIONS
  /\ pc' = "panic"
  /\ frame' = Idle
  /\ UNCHANGED <<interrupts, tableVars, picVars, spurious>>

Irq == frame.vector - 32
Calls(handler) ==
  /\ frame.at = "dispatch" /\ frame.vector \notin EXCEPTIONS
  /\ irq_handlers[Irq] = handler
  /\ frame' = [frame EXCEPT !.at = "eoi"]

NoHandler ==
  /\ Calls("none")
  /\ UNCHANGED <<pc, interrupts, tableVars, picVars, spurious>>

(* Non-specific: each controller ends the highest line it has in service.  *)
Ended(lines) == IF lines = {} THEN {} ELSE {Min(lines)}

(* Mutant of pic_send_eoi: the slave is forgotten.                         *)
pic_send_eoi_master(irq) == service' = service \ Ended(service \cap 0 .. 7)

pic_send_eoi(irq) ==
  service' = service \ (Ended(service \cap 0 .. 7)
                          \cup (IF irq >= 8 THEN Ended(service \cap 8 .. 15) ELSE {}))

(* And iretq.                                                              *)
EndInterrupt ==
  /\ frame.at = "eoi"
  /\ pic_send_eoi(Irq)
  /\ frame' = Idle /\ interrupts' = TRUE
  /\ UNCHANGED <<pc, tableVars, offsets, masked, raised, spurious>>
=============================================================================
