----------------------------- MODULE Boot_proof -----------------------------
(* Proofs about Boot, for every counter, every bus and every set of Limine *)
(* answers that TimerAssumption and BootAssumption allow.                  *)
EXTENDS Boot, NatFacts

(* While timer_calibrate measures, the counter shows how many ticks are    *)
(* gone since pit_start, less than a turn.                                 *)
Clock ==
  /\ tsc_freq_hz \in {0, CyclesPerTick * PIT_FREQ_HZ}
  /\ pc = "measure" =>
       /\ pit \in 0 .. COUNT - 1 /\ pit_start \in 0 .. COUNT - 1
       /\ gone \in 0 .. COUNT - 1
       /\ pit = IF gone <= pit_start THEN pit_start - gone ELSE pit_start - gone + COUNT

(* The counter's arithmetic is that of a clock face: going gap ticks down  *)
(* from p on one of n ticks.                                               *)
LEMMA CountDown ==
  ASSUME NEW n \in Nat \ {0}, NEW p \in 0 .. n - 1, NEW gap \in 0 .. n
  PROVE  (p - gap) % n = IF gap <= p THEN p - gap ELSE p - gap + n
<1>1. CASE gap <= p
  <2>1. p - gap \in 0 .. n - 1
    BY <1>1
  <2> QED BY <2>1, <1>1
<1>2. CASE gap > p
  <2>1. p - gap + n \in 0 .. (n - 1) /\ p - gap = (0 - 1) * n + (p - gap + n)
    BY <1>2
  <2> DEFINE j == p - gap + n
  <2>2. ((0 - 1) * n + j) % n = j
    <3> HIDE DEF j
    <3> QED BY <2>1, DivModOf DEF j
  <2> QED BY <2>1, <2>2, <1>2
<1> QED BY <1>1, <1>2

(* The frequency's division is exact: what is divided is a multiple of the *)
(* divisor.                                                                *)
LEMMA QuotientOfProduct ==
  ASSUME NEW n \in Nat \ {0}, NEW a \in Nat, NEW b \in Nat
  PROVE  ((n * a) * b) \div n = a * b
<1>1. (n * a) * b = (a * b) * n + 0 /\ a * b \in Int
  OBVIOUS
<1>2. 0 \in 0 .. (n - 1)
  OBVIOUS
<1> DEFINE k == a * b
<1>3. (k * n + 0) \div n = k
  <2> HIDE DEF k
  <2> QED BY <1>1, <1>2, DivModOf DEF k
<1> QED BY <1>1, <1>3

(* TimerAssumption, conjunct by conjunct.                                  *)
LEMMA ClockConstants ==
  /\ COUNT \in Nat \ {0} /\ LIMIT \in Nat \ {0} /\ PIT_FREQ_HZ \in Nat \ {0}
  /\ CyclesPerTick \in Nat \ {0} /\ MaxGap \in Nat \ {0}
  /\ MaxGap <= COUNT - LIMIT /\ StartGap \subseteq 0 .. COUNT - 1
BY TimerAssumption

(* One read of the counter: while the measurement goes on the counter has  *)
(* not passed 0, and the read after it is less than a turn away.           *)
LEMMA ClockMeasure == Clock /\ Measure => Clock'
<1> SUFFICES ASSUME Clock, Measure PROVE Clock'
  OBVIOUS
<1>1. pc = "measure" /\ pc' = "measure" /\ UNCHANGED <<pit_start, tsc_freq_hz>> /\ GoesOn
  BY DEF Measure, Step, At
<1>2. PICK gap \in 1 .. MaxGap : pit' = (pit - gap) % COUNT /\ gone' = gone + gap
  BY DEF Measure
<1>3. gone = pit_start - pit /\ gone < LIMIT
  BY <1>1, ClockConstants DEF Clock, GoesOn
<1>4. gone' \in 0 .. COUNT - 1 /\ gap \in 0 .. COUNT
  BY <1>2, <1>3, ClockConstants, <1>1 DEF Clock
<1>5. pit' = IF gap <= pit THEN pit - gap ELSE pit - gap + COUNT
  BY <1>1, <1>2, <1>4, CountDown, ClockConstants DEF Clock
<1> QED
  BY <1>1, <1>2, <1>3, <1>4, <1>5, ClockConstants DEF Clock

(* The last read: the ticks that pit_elapsed finds are those that passed.  *)
LEMMA ClockEnd == Clock /\ CalibrateEnd => Clock'
<1> SUFFICES ASSUME Clock, CalibrateEnd PROVE Clock'
  OBVIOUS
<1>1. pc = "measure" /\ pc' = "checks"
  BY DEF CalibrateEnd, Step, At
<1>2. pit_elapsed = gone /\ gone \in Nat
  BY <1>1, ClockConstants DEF Clock, pit_elapsed
<1>3. gone # 0 => (tsc_elapsed * PIT_FREQ_HZ) \div gone = CyclesPerTick * PIT_FREQ_HZ
  BY <1>2, QuotientOfProduct, ClockConstants DEF tsc_elapsed
<1> QED
  BY <1>1, <1>2, <1>3 DEF Clock, CalibrateEnd

-----------------------------------------------------------------------------
(* The inductive invariant.                                                *)

BeforeIdt == {"handshake", "answers", "pic", "gdt", "idt"}
BeforeNic == BeforeIdt \cup {"pmm", "vmm", "simd", "display", "serial", "scan"}
WithNic == {"wake", "enable", "reset_nic", "start_nic", "wire_nic"}

(* Interrupts are off until the dispatcher can take them.                  *)
Order ==
  /\ pc # "reset"
  /\ pc \in BeforeIdt \cup {"pmm", "vmm", "undefined"} => ~interrupts /\ frame = Idle
  /\ pc \in {"gdt", "idt"} => offsets = <<32, 40>>
  /\ pc \notin BeforeIdt \cup {"undefined"} => gates = 0 .. 47 /\ offsets = <<32, 40>>

(* What runs in the dispatcher, and what the controllers have in service   *)
(* for it: the line and its controller's, nothing if it was spurious.      *)
Taken ==
  /\ frame \in [vector : 0 .. 47, at : {"idle", "dispatch", "eoi"}]
  /\ frame.at = "idle" => frame = Idle /\ service = {}
  /\ frame.at = "eoi" => frame.vector \notin EXCEPTIONS
  /\ frame.at # "idle" /\ frame.vector \in EXCEPTIONS => service = {} /\ cpu = {"xsave"}
  /\ frame.at # "idle" /\ frame.vector \notin EXCEPTIONS =>
       \/ service = {Irq, MasterLine(Irq)}
       \/ Irq = 7 /\ service = {}
       \/ Irq = 15 /\ service = {CASCADE}
  /\ pc = "panic" => cpu = {"xsave"}
  /\ cpu \subseteq {"xsave", "avx"}

(* Only lines of the controllers are raised: a NIC receives only once it   *)
(* was found on the bus, and its pin leads to one of them.                 *)
Wires ==
  /\ raised \subseteq IRQS
  /\ nic \in [receiving : BOOLEAN, cause : BOOLEAN, enabled : BOOLEAN]
  /\ \A i \in DOMAIN functions :
       /\ Fields \subseteq DOMAIN functions[i]
       /\ functions[i].wire \in IRQS /\ functions[i].vendor \in DOMAIN DriverOf
  /\ pc \in WithNic => at \in DOMAIN functions
  /\ nic.receiving => at \in DOMAIN functions /\ pc \notin BeforeNic

(* None of the parts is inductive alone.                                   *)
IInv == TypeOK /\ Order /\ Taken /\ Wires /\ Clock

-----------------------------------------------------------------------------
(* What the steps leave alone, from their definitions.                     *)

(* kernel_main steps only outside the dispatcher; of the controllers it    *)
(* writes masks and vectors, and an exception is all that takes it away.   *)
LEMMA KernelStep ==
  Kernel => /\ frame = Idle /\ UNCHANGED <<service, cpu>>
            /\ \/ frame' = frame /\ pc' \notin {"panic", "reset"}
               \/ enable_simd
<1> SUFFICES ASSUME Kernel
             PROVE  /\ frame = Idle /\ UNCHANGED <<service, cpu>>
                    /\ \/ frame' = frame /\ pc' \notin {"panic", "reset"}
                       \/ enable_simd
  OBVIOUS
<1> USE DEF Step, At, irqVars, picVars, machineVars
<1>1. CASE Handshake \/ ReadAnswers \/ gdt_init
  BY <1>1 DEF Handshake, ReadAnswers, Reads, gdt_init
<1>2. CASE RemapPic \/ InitIdt \/ InitMemory \/ InitOutput
  BY <1>2 DEF RemapPic, pic_remap, InitIdt, idt_init, InitMemory, Reads, InitOutput
<1>3. CASE enable_simd
  BY <1>3 DEF enable_simd
<1>4. CASE pci_scan_bus
  BY <1>4 DEF pci_scan_bus, Skip, NothingFound, Found, pci_wake_device, Enable,
              ResetNic, StartNic, WireNic
<1>5. CASE timer_calibrate
  BY <1>5 DEF timer_calibrate, CalibrateStart, Measure, CalibrateEnd
<1>6. CASE CheckStatus \/ Sti \/ EnterLoop
  BY <1>6 DEF CheckStatus, Sti, EnterLoop
<1> QED
  BY <1>1, <1>2, <1>3, <1>4, <1>5, <1>6 DEF Kernel

(* The clock's variables belong to timer_calibrate.                        *)
LEMMA ClockAlone ==
  [Next]_vars => \/ CalibrateStart \/ Measure \/ CalibrateEnd
                 \/ UNCHANGED timerVars /\ (pc' = "measure" => pc = "measure")
<1> DEFINE Quiet == UNCHANGED timerVars /\ (pc' = "measure" => pc = "measure")
<1> SUFFICES ASSUME [Next]_vars, ~CalibrateStart, ~Measure, ~CalibrateEnd PROVE Quiet
  OBVIOUS
<1> USE DEF Step, At
<1>1. CASE Handshake \/ ReadAnswers \/ RemapPic \/ gdt_init \/ InitIdt \/ InitMemory
  BY <1>1 DEF Handshake, ReadAnswers, Reads, RemapPic, gdt_init, InitIdt, InitMemory
<1>2. CASE enable_simd \/ InitOutput \/ CheckStatus \/ Sti \/ EnterLoop
  BY <1>2 DEF enable_simd, Exception, Enter, InitOutput, CheckStatus, Sti, EnterLoop
<1>3. CASE pci_scan_bus
  BY <1>3 DEF pci_scan_bus, Skip, NothingFound, Found, pci_wake_device, Enable,
              ResetNic, StartNic, WireNic
<1>4. CASE Dispatch
  BY <1>4 DEF Dispatch, Panic, NoHandler, EndInterrupt, NicHandler
<1>5. CASE Interrupt \/ Spurious \/ Network
  BY <1>5 DEF Interrupt, TakeInterrupt, Spurious, TakeSpurious, Enter, Network, NicReceives
<1>6. CASE UNCHANGED vars
  BY <1>6 DEF vars
<1> QED
  BY <1>1, <1>2, <1>3, <1>4, <1>5, <1>6 DEF Next, Kernel, timer_calibrate

(* Every step keeps the clock's part of the invariant.                     *)
LEMMA ClockStep == Clock /\ [Next]_vars => Clock'
<1> SUFFICES ASSUME Clock, [Next]_vars PROVE Clock'
  OBVIOUS
<1>1. CASE CalibrateStart
  <2>1. PICK gap \in StartGap : pit_start' = COUNT - 1 - gap
    BY <1>1 DEF CalibrateStart
  <2> QED BY <1>1, <2>1, ClockConstants DEF CalibrateStart, Clock
<1>2. CASE UNCHANGED timerVars /\ (pc' = "measure" => pc = "measure")
  BY <1>2 DEF timerVars, Clock
<1> QED
  BY <1>1, <1>2, ClockAlone, ClockMeasure, ClockEnd

(* The bus and the lines belong to pci_scan_bus, to the NIC and to the     *)
(* PIT, whose line is 0.                                                   *)
LEMMA WiresAlone ==
  [Next]_vars => \/ pci_scan_bus \/ NicHandler \/ Network
                 \/ Measure /\ UNCHANGED pciVars
                 \/ /\ UNCHANGED <<raised, nic, functions, at>>
                    /\ pc' \in WithNic => pc \in WithNic
                    /\ pc' \in BeforeNic => pc \in BeforeNic
<1> DEFINE Quiet == /\ UNCHANGED <<raised, nic, functions, at>>
                    /\ pc' \in WithNic => pc \in WithNic
                    /\ pc' \in BeforeNic => pc \in BeforeNic
<1> SUFFICES ASSUME [Next]_vars
             PROVE  \/ pci_scan_bus \/ NicHandler \/ Network
                    \/ Measure /\ UNCHANGED pciVars
                    \/ Quiet
  OBVIOUS
<1> USE DEF Step, At, BeforeNic, BeforeIdt, WithNic, irqVars, picVars, pciVars
<1>1. CASE Handshake \/ ReadAnswers \/ gdt_init
  BY <1>1 DEF Handshake, ReadAnswers, Reads, gdt_init
<1>2. CASE RemapPic \/ InitIdt \/ InitMemory \/ InitOutput
  BY <1>2 DEF RemapPic, pic_remap, InitIdt, idt_init, InitMemory, Reads, InitOutput
<1>3. CASE enable_simd \/ CheckStatus \/ Sti \/ EnterLoop
  BY <1>3 DEF enable_simd, Exception, Enter, CheckStatus, Sti, EnterLoop
<1>4. CASE timer_calibrate
  <2>1. CASE CalibrateStart \/ CalibrateEnd
    BY <1>4, <2>1 DEF timer_calibrate, CalibrateStart, CalibrateEnd
  <2> QED BY <1>4, <2>1 DEF timer_calibrate
<1>5. CASE Dispatch
  BY <1>5 DEF Dispatch, Panic, NoHandler, EndInterrupt
<1>6. CASE Interrupt \/ Spurious
  BY <1>6 DEF Interrupt, TakeInterrupt, Spurious, TakeSpurious, Enter
<1>7. CASE UNCHANGED vars
  BY <1>7 DEF vars
<1> HIDE DEF Quiet, Step, At, BeforeNic, BeforeIdt, WithNic, irqVars, picVars, pciVars
<1> QED
  BY <1>1, <1>2, <1>3, <1>4, <1>5, <1>6, <1>7 DEF Next, Kernel

(* The scan and the drivers look only at functions that are on the bus,    *)
(* and rewrite neither vendor nor wire.                                    *)
LEMMA WiresScan ==
  TypeOK /\ Wires /\ pci_scan_bus => Wires'
<1> SUFFICES ASSUME TypeOK, Wires, pci_scan_bus PROVE Wires'
  OBVIOUS
<1> USE DEF Step, At, Wires, BeforeNic, BeforeIdt, WithNic, irqVars, picVars
<1>1. CASE Skip
  BY <1>1 DEF Skip
<1>2. CASE NothingFound \/ Found
  BY <1>2 DEF NothingFound, Found, pciVars
<1>3. CASE pci_wake_device
  <2>1. UNCHANGED <<raised, nic, at>> /\ pc \in WithNic /\ pc' \in WithNic
    BY <1>3 DEF pci_wake_device
  <2>2. CASE UNCHANGED functions
    BY <2>1, <2>2
  <2>3. CASE Write(Awake(Here))
    <3>1. /\ DOMAIN Awake(Here) = DOMAIN Here
          /\ Awake(Here).wire = Here.wire /\ Awake(Here).vendor = Here.vendor
      BY <2>1 DEF Awake, Here
    <3> QED BY <2>1, <2>3, <3>1 DEF Write, Here
  <2> QED BY <1>3, <2>2, <2>3 DEF pci_wake_device
<1>4. CASE Enable
  <2>1. UNCHANGED <<raised, nic, at>> /\ Write(Enabled(Here)) /\ pc \in WithNic
    BY <1>4 DEF Enable
  <2>2. /\ DOMAIN Enabled(Here) = DOMAIN Here
        /\ Enabled(Here).wire = Here.wire /\ Enabled(Here).vendor = Here.vendor
    BY DEF Enabled, Here
  <2>3. pc' \in {"calibrate", "reset_nic"}
    BY <1>4 DEF Enable
  <2> QED BY <2>1, <2>2, <2>3 DEF Write, Here
<1>5. CASE ResetNic \/ StartNic
  <2>1. UNCHANGED <<raised, functions, at>> /\ pc \in WithNic /\ pc' \in WithNic
    BY <1>5 DEF ResetNic, StartNic
  <2>2. nic' \in [receiving : BOOLEAN, cause : BOOLEAN, enabled : BOOLEAN]
    <3>1. \/ nic' = [receiving |-> FALSE, cause |-> FALSE, enabled |-> FALSE]
          \/ nic' = [nic EXCEPT !.receiving = TRUE]
      BY <1>5 DEF ResetNic, StartNic
    <3>2. nic \in [receiving : BOOLEAN, cause : BOOLEAN, enabled : BOOLEAN]
      OBVIOUS
    <3>3. CASE nic' = [receiving |-> FALSE, cause |-> FALSE, enabled |-> FALSE]
      BY <3>3
    <3>4. CASE nic' = [nic EXCEPT !.receiving = TRUE]
      BY <3>2, <3>4
    <3> QED BY <3>1, <3>3, <3>4
  <2> QED BY <2>1, <2>2
<1>6. CASE WireNic
  BY <1>6 DEF WireNic, Line, Here, IRQS
<1> QED
  BY <1>1, <1>2, <1>3, <1>4, <1>5, <1>6 DEF pci_scan_bus

(* Every step keeps the bus and the lines as the invariant says.           *)
LEMMA WiresStep == TypeOK /\ Wires /\ [Next]_vars => Wires'
<1> SUFFICES ASSUME TypeOK, Wires, [Next]_vars PROVE Wires'
  OBVIOUS
<1>1. CASE pci_scan_bus
  BY <1>1, WiresScan
<1>2. CASE Measure /\ UNCHANGED pciVars
  BY <1>2 DEF Measure, pciVars, Step, At, Wires, BeforeNic, BeforeIdt, WithNic, IRQS
<1>3. CASE NicHandler
  BY <1>3 DEF NicHandler, Calls, Wires
<1>4. CASE Network
  BY <1>4 DEF Network, NicReceives, Line, Here, Wires
<1>5. CASE /\ UNCHANGED <<raised, nic, functions, at>>
           /\ pc' \in WithNic => pc \in WithNic
           /\ pc' \in BeforeNic => pc \in BeforeNic
  BY <1>5 DEF Wires
<1> QED
  BY <1>1, <1>2, <1>3, <1>4, <1>5, WiresAlone

-----------------------------------------------------------------------------
(* The interrupt that is taken.                                            *)

(* A pending line is one of the controllers' and has a vector of its own   *)
(* above the exceptions, at which there is a gate.                         *)
LEMMA PendingLine ==
  ASSUME Wires, offsets = <<32, 40>>, NEW l \in Pending
  PROVE  l \in IRQS /\ Vector(l) = 32 + l /\ Vector(l) \in 0 .. 47 \ EXCEPTIONS
<1>1. l \in IRQS
  BY DEF Pending, Wires
<1> QED
  BY <1>1 DEF Vector, IRQS, EXCEPTIONS

(* The line that is taken is the first of a nonempty set.                  *)
LEMMA FirstPending ==
  ASSUME Wires, Pending # {}
  PROVE  (CHOOSE m \in Pending : \A o \in Pending : Rank(m) <= Rank(o)) \in Pending
<1> DEFINE R == {Rank(m) : m \in Pending}
<1>1. \A m \in Pending : Rank(m) \in Nat
  <2> SUFFICES ASSUME NEW m \in Pending PROVE Rank(m) \in Nat
    OBVIOUS
  <2>1. m \in 0 .. 15
    BY DEF Pending, Wires, IRQS
  <2>2. MasterLine(m) \in Nat /\ m % 8 \in Nat
    BY <2>1 DEF MasterLine, CASCADE
  <2> QED BY <2>2 DEF Rank
<1>2. R \in SUBSET Nat /\ R # {}
  BY <1>1
<1>3. Min(R) \in R /\ \A y \in R : Min(R) <= y
  <2> HIDE DEF R
  <2> QED BY <1>2, MinFact
<1>4. PICK m \in Pending : Min(R) = Rank(m)
  BY <1>3
<1>5. \A o \in Pending : Rank(m) <= Rank(o)
  BY <1>3, <1>4
<1> QED
  BY <1>5

(* What TakeInterrupt and TakeSpurious do in a state of the invariant: a   *)
(* gate is found, and the controllers serve the line that is entered.      *)
LEMMA Entered ==
  ASSUME TypeOK, Order, Taken, Wires, Interrupt \/ Spurious
  PROVE  /\ pc \notin BeforeIdt \cup {"pmm", "vmm", "undefined"}
         /\ frame = Idle /\ service = {}
         /\ UNCHANGED <<pc, cpu>>
         /\ interrupts' = FALSE
         /\ \E irq \in IRQS :
              /\ frame' = [vector |-> 32 + irq, at |-> "dispatch"]
              /\ \/ service' = {irq, MasterLine(irq)}
                 \/ irq = 7 /\ service' = {}
                 \/ irq = 15 /\ service' = {CASCADE}
<1>1. interrupts /\ frame = Idle /\ service = {}
  BY DEF Interrupt, TakeInterrupt, Spurious, TakeSpurious, Accepts, Taken, Idle
<1>2. pc \notin BeforeIdt \cup {"pmm", "vmm", "undefined"}
  BY <1>1 DEF Order
<1>3. gates = 0 .. 47 /\ offsets = <<32, 40>>
  BY <1>2 DEF Order
<1>4. CASE Interrupt
  <2> DEFINE l == CHOOSE m \in Pending : \A o \in Pending : Rank(m) <= Rank(o)
  <2>1. Enter(Vector(l)) /\ service' = InService(l) /\ UNCHANGED cpu /\ Pending # {}
    BY <1>4 DEF Interrupt, TakeInterrupt, machineVars
  <2>2. l \in Pending
    BY <2>1, FirstPending
  <2> HIDE DEF l
  <2>3. l \in IRQS /\ Vector(l) = 32 + l /\ Vector(l) \in gates
    BY <1>3, <2>2, PendingLine
  <2>4. service' = {l, MasterLine(l)}
    BY <1>1, <2>1 DEF InService
  <2>5. frame' = [vector |-> 32 + l, at |-> "dispatch"] /\ interrupts' = FALSE /\ UNCHANGED pc
    BY <2>1, <2>3 DEF Enter
  <2> QED BY <1>1, <1>2, <2>1, <2>3, <2>4, <2>5
<1>5. CASE Spurious
  <2>1. UNCHANGED cpu
    BY <1>5 DEF Spurious, machineVars
  <2>2. \/ Enter(Vector(7)) /\ service' = service
        \/ Enter(Vector(15)) /\ service' = service \cup {CASCADE}
    BY <1>5 DEF Spurious, TakeSpurious
  <2>3. Vector(7) = 32 + 7 /\ Vector(15) = 32 + 15
    BY <1>3 DEF Vector
  <2>4. PICK irq \in {7, 15} : /\ Enter(32 + irq)
                               /\ \/ irq = 7 /\ service' = {}
                                  \/ irq = 15 /\ service' = {CASCADE}
    BY <1>1, <2>2, <2>3
  <2>5. 32 + irq \in gates /\ irq \in IRQS
    BY <1>3 DEF IRQS
  <2>6. frame' = [vector |-> 32 + irq, at |-> "dispatch"] /\ interrupts' = FALSE /\ UNCHANGED pc
    BY <2>4, <2>5 DEF Enter
  <2> QED BY <1>1, <1>2, <2>1, <2>4, <2>5, <2>6
<1> QED
  BY <1>4, <1>5

(* The only exception is the general protection fault of xsetbv.           *)
LEMMA Fault ==
  ASSUME Order, Taken, enable_simd
  PROVE  \/ /\ cpu = {"xsave"}
            /\ frame' = [vector |-> 13, at |-> "dispatch"] /\ interrupts' = FALSE
            /\ pc' = "simd"
         \/ pc' = "display" /\ UNCHANGED <<frame, interrupts>>
<1>1. pc = "simd"
  BY DEF enable_simd, At
<1>2. 13 \in gates
  BY <1>1 DEF Order, BeforeIdt
<1>3. "xsave" \in cpu /\ "avx" \notin cpu => cpu = {"xsave"}
  BY DEF Taken
<1> QED
  BY <1>1, <1>2, <1>3 DEF enable_simd, Exception, Enter

(* The highest of one line in service is that line.                         *)
LEMMA MinOfOne ==
  ASSUME NEW x \in Int
  PROVE  Min({x}) = x
BY DEF Min

(* What is in service when a handler returns is its line and, if that is   *)
(* the slave's, the cascade: both are ended.                               *)
LEMMA AllEnded ==
  ASSUME Taken, EndInterrupt
  PROVE  service' = {}
<1> DEFINE irq == frame.vector - 32
<1>1. irq \in 0 .. 15
  <2>1. frame.vector \in 0 .. 47 /\ frame.vector \notin 0 .. 31
    BY DEF Taken, EndInterrupt, EXCEPTIONS
  <2> QED BY <2>1
<1>2. \/ service = {irq, MasterLine(irq)}
      \/ irq = 7 /\ service = {}
      \/ irq = 15 /\ service = {2}
  BY DEF Taken, EndInterrupt, Irq, CASCADE
<1>3. service' = service \ (Ended(service \cap 0 .. 7)
                              \cup (IF irq >= 8 THEN Ended(service \cap 8 .. 15) ELSE {}))
  BY DEF EndInterrupt, pic_send_eoi, Irq
<1> HIDE DEF irq
<1>4. CASE irq < 8 /\ service = {irq, MasterLine(irq)}
  <2> irq \in 0 .. 7 /\ MasterLine(irq) = irq
    BY <1>1, <1>4 DEF MasterLine
  <2>1. service = {irq} /\ service \cap 0 .. 7 = {irq}
    BY <1>4
  <2>2. Ended({irq}) = {irq}
    BY <1>1, MinOfOne DEF Ended
  <2> QED BY <1>1, <1>3, <1>4, <2>1, <2>2
<1>5. CASE irq >= 8 /\ service = {irq, MasterLine(irq)}
  <2> irq \in 8 .. 15 /\ MasterLine(irq) = 2
    BY <1>1, <1>5 DEF MasterLine, CASCADE
  <2>1. service = {irq, 2} /\ service \cap 0 .. 7 = {2} /\ service \cap 8 .. 15 = {irq}
    <3>1. service = {irq, 2}
      BY <1>5
    <3>2. irq \notin 0 .. 7 /\ 2 \in 0 .. 7 /\ 2 \notin 8 .. 15
      OBVIOUS
    <3> QED BY <3>1, <3>2
  <2>2. Ended({irq}) = {irq} /\ Ended({2}) = {2}
    BY <1>1, MinOfOne DEF Ended
  <2> QED BY <1>3, <1>5, <2>1, <2>2
<1>6. CASE service = {}
  BY <1>3, <1>6
<1>7. CASE service = {2}
  <2>1. service \cap 0 .. 7 = {2}
    BY <1>7
  <2>2. Ended({2}) = {2}
    BY MinOfOne DEF Ended
  <2> QED BY <1>3, <1>7, <2>1, <2>2
<1> QED
  BY <1>1, <1>2, <1>4, <1>5, <1>6, <1>7

(* Every step keeps what is in service in line with what is dispatched.    *)
LEMMA TakenStep == TypeOK /\ Order /\ Taken /\ Wires /\ [Next]_vars => Taken'
<1> SUFFICES ASSUME TypeOK, Order, Taken, Wires, [Next]_vars PROVE Taken'
  OBVIOUS
<1>1. CASE Kernel
  <2>1. frame = Idle /\ UNCHANGED <<service, cpu>>
    BY <1>1, KernelStep
  <2>2. CASE frame' = frame /\ pc' \notin {"panic", "reset"}
    BY <2>1, <2>2 DEF Taken, Idle
  <2>3. CASE enable_simd
    <3>1. service = {}
      BY <2>1 DEF Taken, Idle
    <3>2. CASE pc' = "display" /\ UNCHANGED <<frame, interrupts>>
      BY <2>1, <3>2 DEF Taken, Idle
    <3>3. CASE /\ cpu = {"xsave"} /\ pc' = "simd"
               /\ frame' = [vector |-> 13, at |-> "dispatch"]
      BY <2>1, <3>1, <3>3 DEF Taken, Idle, EXCEPTIONS
    <3> QED BY <2>3, <3>2, <3>3, Fault
  <2> QED BY <1>1, <2>2, <2>3, KernelStep
<1>2. CASE Interrupt \/ Spurious
  <2>1. PICK irq \in IRQS :
          /\ frame' = [vector |-> 32 + irq, at |-> "dispatch"]
          /\ \/ service' = {irq, MasterLine(irq)}
             \/ irq = 7 /\ service' = {}
             \/ irq = 15 /\ service' = {CASCADE}
    BY <1>2, Entered
  <2>2. UNCHANGED <<pc, cpu>>
    BY <1>2, Entered
  <2>3. frame'.vector = 32 + irq /\ frame'.at = "dispatch" /\ Irq' = irq
    BY <2>1 DEF Irq, IRQS
  <2>4. frame' \in [vector : 0 .. 47, at : {"idle", "dispatch", "eoi"}]
    BY <2>1 DEF IRQS
  <2>5. frame'.vector \notin EXCEPTIONS
    BY <2>3 DEF IRQS, EXCEPTIONS
  <2> QED BY <2>1, <2>2, <2>3, <2>4, <2>5 DEF Taken
<1>3. CASE Panic /\ UNCHANGED cpu
  BY <1>3 DEF Panic, Taken, Idle, picVars, EXCEPTIONS
<1>4. CASE (NoHandler \/ NicHandler) /\ UNCHANGED cpu
  <2>1. /\ frame.at = "dispatch" /\ frame.vector \notin EXCEPTIONS
        /\ frame' = [frame EXCEPT !.at = "eoi"]
        /\ UNCHANGED <<pc, service>>
    BY <1>4 DEF NoHandler, NicHandler, Calls, picVars
  <2>2. frame' = [vector |-> frame.vector, at |-> "eoi"] /\ frame.vector \in 0 .. 47
    BY <2>1 DEF Taken
  <2>3. Irq' = Irq /\ frame'.vector = frame.vector /\ frame'.at = "eoi"
    BY <2>2 DEF Irq
  <2> QED BY <1>4, <2>1, <2>2, <2>3 DEF Taken
<1>5. CASE EndInterrupt /\ UNCHANGED cpu
  BY <1>5, AllEnded DEF EndInterrupt, Taken, Idle
<1>6. CASE Network
  BY <1>6 DEF Network, NicReceives, machineVars, Taken, Irq
<1>7. CASE UNCHANGED vars
  BY <1>7 DEF vars, irqVars, picVars, Taken, Irq
<1> QED
  BY <1>1, <1>2, <1>3, <1>4, <1>5, <1>6, <1>7 DEF Next, Dispatch, machineVars

-----------------------------------------------------------------------------
(* The order of boot.                                                      *)

(* kernel_main loads the gates and the vectors before interrupts are on.   *)
LEMMA OrderKernel == Order /\ Taken /\ Kernel => Order'
<1> SUFFICES ASSUME Order, Taken, Kernel PROVE Order'
  OBVIOUS
<1> USE DEF Order, BeforeIdt, Step, At
<1>1. CASE Handshake \/ ReadAnswers \/ gdt_init
  BY <1>1 DEF Handshake, ReadAnswers, Reads, gdt_init, irqVars, tableVars, picVars
<1>2. CASE RemapPic \/ InitIdt
  BY <1>2 DEF RemapPic, pic_remap, InitIdt, idt_init, StubVectors, tableVars, picVars
<1>3. CASE InitMemory \/ InitOutput
  BY <1>3 DEF InitMemory, Reads, InitOutput, irqVars, tableVars, picVars
<1>4. CASE enable_simd
  <2>1. UNCHANGED <<gates, offsets>> /\ pc = "simd" /\ pc' \in {"simd", "display"}
    BY <1>4, Fault DEF enable_simd, tableVars, picVars
  <2> QED BY <2>1
<1>5. CASE pci_scan_bus
  <2>1. /\ UNCHANGED <<gates, offsets>>
        /\ pc \in WithNic \cup {"scan"} /\ pc' \in WithNic \cup {"scan", "calibrate"}
    BY <1>5 DEF pci_scan_bus, Skip, NothingFound, Found, pci_wake_device, Enable,
                ResetNic, StartNic, WireNic, irqVars, tableVars, picVars, WithNic
  <2> QED BY <2>1 DEF WithNic
<1>6. CASE timer_calibrate
  BY <1>6 DEF timer_calibrate, CalibrateStart, Measure, CalibrateEnd, tableVars, picVars
<1>7. CASE CheckStatus \/ Sti \/ EnterLoop
  BY <1>7 DEF CheckStatus, Sti, EnterLoop, irqVars, tableVars, picVars
<1> QED
  BY <1>1, <1>2, <1>3, <1>4, <1>5, <1>6, <1>7 DEF Kernel

(* Nor does any other step undo that order.                                *)
LEMMA OrderStep == TypeOK /\ Order /\ Taken /\ Wires /\ [Next]_vars => Order'
<1> SUFFICES ASSUME TypeOK, Order, Taken, Wires, [Next]_vars PROVE Order'
  OBVIOUS
<1>1. CASE Kernel
  BY <1>1, OrderKernel
<1>2. CASE Interrupt \/ Spurious
  <2>1. UNCHANGED pc /\ pc \notin BeforeIdt \cup {"pmm", "vmm", "undefined"}
    BY <1>2, Entered
  <2>2. UNCHANGED <<gates, offsets>>
    BY <1>2 DEF Interrupt, TakeInterrupt, Spurious, TakeSpurious, tableVars
  <2> QED BY <2>1, <2>2 DEF Order
<1>3. CASE Dispatch
  <2>1. /\ frame # Idle /\ UNCHANGED <<gates, offsets>>
        /\ pc' \in {pc, "panic"}
    BY <1>3 DEF Dispatch, Panic, NoHandler, EndInterrupt, NicHandler, Calls, Idle,
                tableVars, picVars
  <2> QED BY <2>1 DEF Order, BeforeIdt
<1>4. CASE Network
  BY <1>4 DEF Network, NicReceives, tableVars, Order
<1>5. CASE UNCHANGED vars
  BY <1>5 DEF vars, irqVars, tableVars, picVars, Order
<1> QED
  BY <1>1, <1>2, <1>3, <1>4, <1>5 DEF Next

-----------------------------------------------------------------------------
(* Types.                                                                  *)

(* The steps of kernel_main keep the types.                                *)
LEMMA TypesKernel == TypeOK /\ Order /\ Taken /\ Wires /\ Kernel => TypeOK'
<1> SUFFICES ASSUME TypeOK, Order, Taken, Wires, Kernel PROVE TypeOK'
  OBVIOUS
<1>0. Wires'
  BY WiresStep DEF Next
<1>1. frame = Idle /\ UNCHANGED service
  BY KernelStep
<1>2. raised' \subseteq IRQS
  BY <1>0 DEF Wires
<1> DEFINE Flags == Checked \cup {"simd"}
           Handlers == [IRQS -> {"none", "i219", "rtl8139"}]
<1>3. /\ interrupts' \in BOOLEAN /\ masked' \subseteq IRQS /\ gates' \subseteq 0 .. 255
      /\ irq_handlers' \in Handlers /\ init_status' \subseteq Flags
  <2> USE DEF TypeOK, Step, At, Success, Checked
  <2>1. CASE Handshake \/ ReadAnswers \/ gdt_init
    BY <2>1 DEF Handshake, ReadAnswers, gdt_init, irqVars, tableVars, picVars
  <2>2. CASE RemapPic \/ InitIdt
    <3>1. 0 .. 47 \subseteq 0 .. 255
      OBVIOUS
    <3>2. "idt" \in Flags
      OBVIOUS
    <3>3. CASE RemapPic
      BY <3>3 DEF RemapPic, pic_remap, tableVars
    <3>4. CASE InitIdt
      BY <3>1, <3>2, <3>4 DEF InitIdt, idt_init, StubVectors, picVars
    <3> QED BY <2>2, <3>3, <3>4
  <2>3. CASE InitMemory \/ InitOutput
    BY <2>3 DEF InitMemory, InitOutput, irqVars, tableVars, picVars
  <2>4. CASE enable_simd
    <3>1. interrupts' \in {interrupts, FALSE}
      BY <2>4, Fault
    <3> QED BY <2>4, <3>1 DEF enable_simd, tableVars, picVars
  <2>5. CASE pci_scan_bus
    <3>1. CASE WireNic
      <4>1. Driver \in {"none", "i219", "rtl8139"}
        <5>1. pc = "wire_nic"
          BY <3>1 DEF WireNic
        <5>2. functions[at].vendor \in DOMAIN DriverOf
          BY <5>1 DEF Wires, WithNic
        <5> QED BY <5>2 DEF Driver, DriverOf, Here
      <4>2. irq_handlers' \in Handlers
        BY <3>1, <4>1 DEF WireNic, register_irq_handler
      <4>3. masked' \subseteq IRQS
        BY <3>1 DEF WireNic, pic_unmask
      <4> QED BY <2>5, <3>1, <4>2, <4>3 DEF pci_scan_bus, WireNic, Enable
    <3>2. CASE Enable
      BY <2>5, <3>2 DEF pci_scan_bus, Enable, WireNic, irqVars, tableVars, picVars
    <3>3. CASE Skip \/ NothingFound \/ Found \/ pci_wake_device \/ ResetNic \/ StartNic
      BY <2>5, <3>3 DEF pci_scan_bus, Skip, NothingFound, Found, pci_wake_device, Enable,
                        ResetNic, StartNic, WireNic, irqVars, tableVars, picVars
    <3> QED BY <2>5, <3>1, <3>2, <3>3 DEF pci_scan_bus
  <2>6. CASE timer_calibrate
    BY <2>6 DEF timer_calibrate, CalibrateStart, Measure, CalibrateEnd, tableVars, picVars
  <2>7. CASE CheckStatus \/ Sti \/ EnterLoop
    BY <2>7 DEF CheckStatus, Sti, EnterLoop, irqVars, tableVars, picVars
  <2> QED
    BY <2>1, <2>2, <2>3, <2>4, <2>5, <2>6, <2>7 DEF Kernel
<1>4. frame'.at \in {"idle", "dispatch", "eoi"}
  BY TakenStep DEF Next, Taken
<1>5. frame'.at # "idle" => ~interrupts' /\ frame'.vector \in gates'
  <2>1. CASE frame' = frame
    BY <1>1, <2>1 DEF Idle
  <2>2. CASE enable_simd
    <3>1. pc = "simd" /\ UNCHANGED gates
      BY <2>2 DEF enable_simd, At, tableVars
    <3>2. gates = 0 .. 47
      BY <3>1 DEF Order, BeforeIdt
    <3>3. CASE UNCHANGED frame
      BY <1>1, <3>3 DEF Idle
    <3>4. CASE frame' = [vector |-> 13, at |-> "dispatch"] /\ interrupts' = FALSE
      BY <3>1, <3>2, <3>4
    <3> QED BY <2>2, <3>3, <3>4, Fault
  <2> QED BY <2>1, <2>2, KernelStep
<1> QED
  BY <1>1, <1>2, <1>3, <1>4, <1>5 DEF TypeOK

(* So do those of the dispatcher, the NIC and the controllers.             *)
LEMMA TypesStep == TypeOK /\ Order /\ Taken /\ Wires /\ [Next]_vars => TypeOK'
<1> SUFFICES ASSUME TypeOK, Order, Taken, Wires, [Next]_vars PROVE TypeOK'
  OBVIOUS
<1>0. Wires' /\ Taken'
  BY WiresStep, TakenStep
<1>1. CASE Kernel
  BY <1>1, TypesKernel
<1>2. raised' \subseteq IRQS /\ frame'.at \in {"idle", "dispatch", "eoi"}
  BY <1>0 DEF Wires, Taken
<1>3. CASE Interrupt \/ Spurious
  <2>1. UNCHANGED <<masked, gates, irq_handlers, init_status>>
    BY <1>3 DEF Interrupt, TakeInterrupt, Spurious, TakeSpurious, tableVars
  <2>2. PICK irq \in IRQS :
          /\ frame' = [vector |-> 32 + irq, at |-> "dispatch"]
          /\ \/ service' = {irq, MasterLine(irq)}
             \/ irq = 7 /\ service' = {}
             \/ irq = 15 /\ service' = {CASCADE}
    BY <1>3, Entered
  <2>3. interrupts' = FALSE
    BY <1>3, Entered
  <2>4. service' \subseteq IRQS
    BY <2>2 DEF MasterLine, IRQS, CASCADE
  <2>5. frame'.vector \in gates'
    <3>1. gates = 0 .. 47
      BY <1>3, Entered DEF Order
    <3>2. 32 + irq \in 0 .. 47
      BY DEF IRQS
    <3> QED BY <2>1, <2>2, <3>1, <3>2
  <2> QED BY <1>2, <2>1, <2>3, <2>4, <2>5 DEF TypeOK
<1>4. CASE Dispatch
  <2>1. UNCHANGED <<masked, gates, irq_handlers, init_status>>
    BY <1>4 DEF Dispatch, Panic, NoHandler, EndInterrupt, NicHandler, tableVars, picVars
  <2>2. CASE EndInterrupt
    BY <1>2, <2>1, <2>2, AllEnded DEF EndInterrupt, Idle, TypeOK
  <2>3. CASE Panic
    BY <1>2, <2>1, <2>3 DEF Panic, Idle, TypeOK, picVars
  <2>4. CASE NoHandler \/ NicHandler
    <3>1. /\ frame.at = "dispatch" /\ frame' = [frame EXCEPT !.at = "eoi"]
          /\ UNCHANGED <<interrupts, service>>
      BY <2>4 DEF NoHandler, NicHandler, Calls, picVars
    <3>2. frame'.vector = frame.vector
      BY <3>1 DEF Taken
    <3> QED BY <1>2, <2>1, <3>1, <3>2 DEF TypeOK
  <2> QED BY <1>4, <2>2, <2>3, <2>4 DEF Dispatch
<1>5. CASE Network
  BY <1>2, <1>5 DEF Network, NicReceives, tableVars, TypeOK
<1>6. CASE UNCHANGED vars
  BY <1>6 DEF vars, irqVars, tableVars, picVars, TypeOK
<1> QED
  BY <1>1, <1>3, <1>4, <1>5, <1>6 DEF Next

-----------------------------------------------------------------------------
(* The theorems.                                                           *)

(* The machine as the bootloader leaves it satisfies the invariant.        *)
LEMMA InitInv == Init => IInv
<1> SUFFICES ASSUME Init PROVE IInv
  OBVIOUS
<1> USE DEF Init, InterruptsInit, PciInit, TimerInit
<1>1. TypeOK
  BY DEF TypeOK, IRQS, Idle
<1>2. Order
  BY DEF Order, BeforeIdt
<1>3. Taken
  <2>1. cpu \subseteq {"xsave", "avx"}
    BY BootAssumption
  <2> QED BY <2>1 DEF Taken, Idle
<1>4. Wires
  <2>1. functions \in Buses
    OBVIOUS
  <2> QED BY <2>1, BootAssumption DEF Wires, WithNic
<1>5. Clock
  BY DEF Clock
<1> QED
  BY <1>1, <1>2, <1>3, <1>4, <1>5 DEF IInv

(* Every step keeps the invariant.                                         *)
LEMMA NextInv == IInv /\ [Next]_vars => IInv'
BY TypesStep, OrderStep, TakenStep, WiresStep, ClockStep DEF IInv

(* The invariant holds throughout boot.                                    *)
LEMMA Inductive == Spec => []IInv
  BY InitInv, NextInv, PTL DEF Spec

(* Types hold, and the dispatcher runs with interrupts off, for a vector   *)
(* that has a gate.                                                        *)
THEOREM TypeCorrect == Spec => []TypeOK
<1>1. IInv => TypeOK
  BY DEF IInv
<1> QED
  BY <1>1, Inductive, PTL

(* Whatever the bus, the firmware's line numbers and the moment at which   *)
(* interrupts come: none meets a missing gate or passes for an exception.  *)
THEOREM NoFalseException == Spec => []InterruptsAreNotExceptions
<1>1. IInv => InterruptsAreNotExceptions
  BY DEF IInv, Order, Taken, InterruptsAreNotExceptions
<1> QED
  BY <1>1, Inductive, PTL

(* After a handler nothing is left in service, spurious interrupts of      *)
(* either controller included.                                             *)
THEOREM NothingLeftInService == Spec => []ServiceClean
<1>1. IInv => ServiceClean
  BY DEF IInv, Taken, ServiceClean, Idle
<1> QED
  BY <1>1, Inductive, PTL

(* The calibration is exact for every size of the counter, every number of *)
(* ticks to measure and all gaps between reads that TimerAssumption allows. *)
THEOREM CalibrationCorrect == Spec => []CalibrationExact
<1>1. IInv => CalibrationExact
  BY DEF IInv, Clock, CalibrationExact
<1> QED
  BY <1>1, Inductive, PTL

-----------------------------------------------------------------------------
(* The scan, the NIC that it finds, and what the checks know of them.      *)

AfterNic == {"calibrate", "measure"}
AfterClock == {"checks", "sti", "api", "polling", "hcf", "panic", "reset"}
Routed == {"reset_nic", "start_nic", "wire_nic"}

(* The scan stands at the first Ethernet controller once it has left its   *)
(* loop to start one.                                                      *)
Scanned ==
  /\ \E n \in Nat : DOMAIN functions = 1 .. n
  /\ at \in Nat \ {0}
  /\ \A i \in DOMAIN functions :
       Fields \subseteq DOMAIN functions[i] /\ (i < at => ~IsEthernet(functions[i]))
  /\ pc \in WithNic \/ "pci" \in init_status =>
       at \in DOMAIN functions /\ IsEthernet(Here)

(* A flag of init_status says what its step did, and that the step is not  *)
(* taken again.                                                            *)
Flagged ==
  /\ limine \subseteq Requests
  /\ "limine" \in init_status => limine = Requests
  /\ "pci" \in init_status => pc \in AfterNic \cup AfterClock
  /\ "timer" \in init_status => tsc_freq_hz # 0 /\ pc \in AfterClock
  /\ pc \in {"sti", "api", "polling"} => Checked \subseteq init_status

(* The NIC is started in order: its line and bus mastering, then its reset, *)
(* which only a NIC that is awake comes out of, then reception, its        *)
(* interrupt and its driver's poll function.                               *)
Started ==
  /\ \A i \in DOMAIN functions : functions[i].irq_line \in IRQS \cup {255}
  /\ pc \in Routed => "master" \in Here.decode /\ Here.irq_line \in IRQS
  /\ pc \in {"start_nic", "wire_nic"} => Here.power = "D0"
  /\ pc = "wire_nic" => nic.receiving
  /\ "pci" \in init_status /\ Here.vendor # "other" =>
       /\ Here.power = "D0" /\ "master" \in Here.decode /\ Here.irq_line \in IRQS
       /\ nic.receiving /\ nic.enabled
       /\ nic_poll = DriverOf[Here.vendor] /\ irq_handlers[Here.irq_line] = nic_poll
       /\ Unmasked(Here.irq_line) \cap masked = {}

(* Outside pci_scan_bus nothing touches the functions, the masks and the   *)
(* handlers; of the NIC, frames and its handler change the cause only.     *)
LEMMA ScanAlone ==
  [Next]_vars => \/ pci_scan_bus
                 \/ /\ UNCHANGED <<functions, at, nic_poll, irq_handlers, masked>>
                    /\ \/ UNCHANGED nic
                       \/ \E cause \in BOOLEAN : nic' = [nic EXCEPT !.cause = cause]
                    /\ pc' \in WithNic => pc' = pc
                    /\ "pci" \in init_status' => "pci" \in init_status
<1> DEFINE Quiet == /\ UNCHANGED <<functions, at, nic_poll, irq_handlers, masked>>
                    /\ \/ UNCHANGED nic
                       \/ \E cause \in BOOLEAN : nic' = [nic EXCEPT !.cause = cause]
                    /\ pc' \in WithNic => pc' = pc
                    /\ "pci" \in init_status' => "pci" \in init_status
<1> SUFFICES ASSUME [Next]_vars PROVE pci_scan_bus \/ Quiet
  OBVIOUS
<1> USE DEF Step, At, WithNic, irqVars, tableVars, picVars, pciVars, Success
<1>1. CASE Handshake \/ ReadAnswers \/ gdt_init
  BY <1>1 DEF Handshake, ReadAnswers, Reads, gdt_init
<1>2. CASE RemapPic \/ InitIdt \/ InitMemory \/ InitOutput
  BY <1>2 DEF RemapPic, pic_remap, InitIdt, idt_init, InitMemory, Reads, InitOutput
<1>3. CASE enable_simd \/ CheckStatus \/ Sti \/ EnterLoop
  BY <1>3 DEF enable_simd, Exception, Enter, CheckStatus, Sti, EnterLoop
<1>4. CASE timer_calibrate
  BY <1>4 DEF timer_calibrate, CalibrateStart, Measure, CalibrateEnd
<1>5. CASE Dispatch
  BY <1>5 DEF Dispatch, Panic, NoHandler, EndInterrupt, NicHandler
<1>6. CASE Interrupt \/ Spurious \/ Network
  BY <1>6 DEF Interrupt, TakeInterrupt, Spurious, TakeSpurious, Enter, Network, NicReceives
<1>7. CASE UNCHANGED vars
  BY <1>7 DEF vars
<1> HIDE DEF Quiet, Step, At, WithNic, irqVars, tableVars, picVars, pciVars, Success
<1> QED
  BY <1>1, <1>2, <1>3, <1>4, <1>5, <1>6, <1>7 DEF Next, Kernel

(* What the scan writes: the function it stands at, its vendor and class   *)
(* unchanged and its fields all there; the line only if it was unknown.    *)
LEMMA Written ==
  ASSUME Scanned, NEW f, Write(f), at \in DOMAIN functions
  PROVE  /\ DOMAIN functions' = DOMAIN functions /\ functions'[at] = f
         /\ \A i \in DOMAIN functions \ {at} : functions'[i] = functions[i]
BY DEF Write

(* Waking leaves all but the power state and the BAR.                      *)
LEMMA AwakeFunction ==
  ASSUME NEW f, Fields \subseteq DOMAIN f
  PROVE  /\ DOMAIN Awake(f) = DOMAIN f
         /\ Awake(f).class = f.class /\ Awake(f).vendor = f.vendor
         /\ Awake(f).irq_line = f.irq_line
BY DEF Awake, Fields

(* Enabling leaves all but the command register and an unknown line.       *)
LEMMA EnabledFunction ==
  ASSUME NEW f, Fields \subseteq DOMAIN f
  PROVE  /\ DOMAIN Enabled(f) = DOMAIN f
         /\ Enabled(f).class = f.class /\ Enabled(f).vendor = f.vendor
         /\ "master" \in Enabled(f).decode
         /\ Enabled(f).irq_line = IF f.irq_line = 255 THEN 11 ELSE f.irq_line
BY DEF Enabled, Fields

(* A flag belongs to its step.                                             *)
LEMMA FlaggedStep == Flagged /\ [Next]_vars => Flagged'
<1> SUFFICES ASSUME Flagged, [Next]_vars PROVE Flagged'
  OBVIOUS
<1> USE DEF Flagged, AfterNic, AfterClock, Step, At, Success, machineVars, timerVars
<1>1. CASE Handshake
  BY <1>1 DEF Handshake
<1>2. CASE ReadAnswers \/ RemapPic \/ gdt_init \/ InitIdt
  BY <1>2 DEF ReadAnswers, Reads, RemapPic, gdt_init, InitIdt
<1>3. CASE InitMemory \/ InitOutput \/ enable_simd
  BY <1>3 DEF InitMemory, Reads, InitOutput, enable_simd, Exception, Enter
<1>4. CASE pci_scan_bus
  <2>1. UNCHANGED <<limine, tsc_freq_hz>>
    BY <1>4 DEF pci_scan_bus
  <2>2. pc \in WithNic \cup {"scan"} /\ pc' \in WithNic \cup {"scan", "calibrate"}
    BY <1>4 DEF pci_scan_bus, Skip, NothingFound, Found, pci_wake_device, Enable,
                ResetNic, StartNic, WireNic, WithNic
  <2>3. \/ UNCHANGED init_status
        \/ Success("pci") /\ pc' = "calibrate"
    BY <1>4 DEF pci_scan_bus, WireNic, Enable
  <2>4. "pci" \notin init_status /\ "timer" \notin init_status
    BY <2>2 DEF WithNic
  <2> QED BY <2>1, <2>2, <2>3, <2>4 DEF WithNic
<1>5. CASE timer_calibrate
  BY <1>5 DEF timer_calibrate, CalibrateStart, Measure, CalibrateEnd
<1>6. CASE CheckStatus \/ Sti \/ EnterLoop
  BY <1>6 DEF CheckStatus, Sti, EnterLoop
<1>7. CASE Dispatch
  BY <1>7 DEF Dispatch, Panic, NoHandler, EndInterrupt, NicHandler
<1>8. CASE Interrupt \/ Spurious \/ Network
  <2>1. pc' \in {pc, "reset"}
    BY <1>8 DEF Interrupt, TakeInterrupt, Spurious, TakeSpurious, Enter, Network, NicReceives
  <2>2. UNCHANGED <<limine, tsc_freq_hz, init_status>>
    BY <1>8 DEF Interrupt, Spurious, Network
  <2> QED BY <2>1, <2>2
<1>9. CASE UNCHANGED vars
  BY <1>9 DEF vars
<1> QED
  BY <1>1, <1>2, <1>3, <1>4, <1>5, <1>6, <1>7, <1>8, <1>9 DEF Next, Kernel

(* The scan passes no Ethernet controller, and rewrites none of the class. *)
LEMMA ScannedStep == Scanned /\ Flagged /\ [Next]_vars => Scanned'
<1> SUFFICES ASSUME Scanned, Flagged, [Next]_vars PROVE Scanned'
  OBVIOUS
<1>1. CASE Skip /\ UNCHANGED init_status
  <2>1. /\ at' = at + 1 /\ UNCHANGED functions /\ ~IsEthernet(functions[at])
        /\ pc = "scan" /\ pc' = "scan"
    BY <1>1 DEF Skip, Here, Step, At
  <2>2. "pci" \notin init_status'
    BY <1>1, <2>1 DEF Flagged, AfterNic, AfterClock
  <2>3. \A i \in DOMAIN functions : i < at + 1 => i < at \/ i = at
    BY DEF Scanned
  <2> QED BY <2>1, <2>2, <2>3 DEF Scanned, WithNic
<1>2. CASE Found /\ UNCHANGED init_status
  BY <1>2 DEF Found, Scanned, Here
<1>3. CASE NothingFound /\ UNCHANGED init_status
  BY <1>3 DEF NothingFound, Scanned, Here, Step, WithNic, pciVars
<1>4. CASE (pci_wake_device \/ Enable) /\ UNCHANGED at
  <2>1. at \in DOMAIN functions /\ IsEthernet(Here) /\ Fields \subseteq DOMAIN Here
    BY <1>4 DEF pci_wake_device, Enable, Step, At, Scanned, WithNic, Here
  <2>2. CASE UNCHANGED functions
    BY <1>4, <2>1, <2>2 DEF Scanned, Here
  <2>3. PICK f : \/ UNCHANGED functions
                 \/ Write(f) /\ DOMAIN f = DOMAIN Here /\ f.class = Here.class
    <3>1. CASE pci_wake_device
      BY <2>1, <3>1, AwakeFunction DEF pci_wake_device
    <3>2. CASE Enable
      BY <2>1, <3>2, EnabledFunction DEF Enable
    <3> QED BY <1>4, <3>1, <3>2
  <2>4. CASE Write(f) /\ DOMAIN f = DOMAIN Here /\ f.class = Here.class
    <3>1. /\ DOMAIN functions' = DOMAIN functions /\ functions'[at] = f
          /\ \A i \in DOMAIN functions \ {at} : functions'[i] = functions[i]
      BY <2>1, <2>4, Written
    <3>2. \A i \in DOMAIN functions :
            /\ DOMAIN functions'[i] = DOMAIN functions[i]
            /\ functions'[i].class = functions[i].class
      BY <2>4, <3>1 DEF Here
    <3>3. UNCHANGED at
      BY <1>4
    <3> QED BY <2>1, <3>1, <3>2, <3>3 DEF Scanned, Here, IsEthernet
  <2> QED BY <2>2, <2>3, <2>4
<1>5. CASE (ResetNic \/ StartNic \/ WireNic) /\ UNCHANGED <<functions, at>>
  BY <1>5 DEF ResetNic, StartNic, WireNic, Step, At, Scanned, WithNic, Here
<1>6. CASE /\ UNCHANGED <<functions, at>>
           /\ pc' \in WithNic => pc' = pc
           /\ "pci" \in init_status' => "pci" \in init_status
  BY <1>6 DEF Scanned, Here
<1> QED
  <2>1. pci_scan_bus =>
          \/ (Skip \/ NothingFound \/ Found) /\ UNCHANGED init_status
          \/ (pci_wake_device \/ Enable) /\ UNCHANGED at
          \/ (ResetNic \/ StartNic \/ WireNic) /\ UNCHANGED <<functions, at>>
    BY DEF pci_scan_bus, pci_wake_device, Enable, ResetNic, StartNic, WireNic
  <2> QED BY <1>1, <1>2, <1>3, <1>4, <1>5, <1>6, <2>1, ScanAlone

(* Unmasking leaves no line of its own masked.                             *)
LEMMA UnmaskedLine ==
  ASSUME NEW irq, pic_unmask(irq)
  PROVE  Unmasked(irq) \cap masked' = {}
BY DEF pic_unmask

(* The steps of the scan keep the order in which the NIC is started.       *)
LEMMA StartedScan ==
  TypeOK /\ Wires /\ Scanned /\ Flagged /\ Started /\ pci_scan_bus => Started'
<1> SUFFICES ASSUME TypeOK, Wires, Scanned, Flagged, Started, pci_scan_bus PROVE Started'
  OBVIOUS
<1>0. pc \in WithNic \cup {"scan"} /\ "pci" \notin init_status
  <2>1. pc \in WithNic \cup {"scan"}
    BY DEF pci_scan_bus, Skip, NothingFound, Found, pci_wake_device, Enable,
           ResetNic, StartNic, WireNic, WithNic, Step, At
  <2> QED BY <2>1 DEF Flagged, WithNic, AfterNic, AfterClock
<1>1. CASE (Skip \/ NothingFound \/ Found) /\ UNCHANGED init_status
  <2>1. UNCHANGED functions /\ pc' \in {"scan", "wake", "calibrate"}
    BY <1>1 DEF Skip, NothingFound, Found, Step, pciVars
  <2> QED BY <1>0, <1>1, <2>1 DEF Started, Routed
<1>2. CASE pci_wake_device /\ UNCHANGED init_status
  <2>1. at \in DOMAIN functions /\ Fields \subseteq DOMAIN Here /\ pc' \in {"wake", "enable"}
    BY <1>2 DEF pci_wake_device, Step, At, Scanned, WithNic, Here
  <2>2. \A i \in DOMAIN functions' : functions'[i].irq_line \in IRQS \cup {255}
    <3>1. CASE UNCHANGED functions
      BY <3>1 DEF Started
    <3>2. CASE Write(Awake(Here))
      BY <2>1, <3>2, AwakeFunction, Written DEF Started, Here
    <3> QED BY <1>2, <3>1, <3>2 DEF pci_wake_device
  <2> QED BY <1>0, <1>2, <2>1, <2>2 DEF Started, Routed
<1>3. CASE Enable
  <2>1. at \in DOMAIN functions /\ Fields \subseteq DOMAIN Here
    BY <1>3 DEF Enable, Step, At, Scanned, WithNic, Here
  <2> DEFINE g == Enabled(Here)
  <2>2. /\ g.vendor = Here.vendor /\ "master" \in g.decode
        /\ g.irq_line = IF Here.irq_line = 255 THEN 11 ELSE Here.irq_line
    BY <2>1, EnabledFunction
  <2>3. Write(g) /\ UNCHANGED at
    BY <1>3 DEF Enable
  <2> HIDE DEF g
  <2>4. Here' = g /\ \A i \in DOMAIN functions \ {at} : functions'[i] = functions[i]
    BY <2>1, <2>3, Written DEF Here
  <2>5. DOMAIN functions' = DOMAIN functions
    BY <2>1, <2>3, Written
  <2>6. Here'.irq_line \in IRQS
    <3>1. Here.irq_line \in IRQS \cup {255}
      BY <2>1 DEF Started, Here
    <3> QED BY <2>2, <2>4, <3>1 DEF IRQS
  <2>7. \A i \in DOMAIN functions' : functions'[i].irq_line \in IRQS \cup {255}
    BY <2>3, <2>4, <2>5, <2>6 DEF Started, Here
  <2>8. pc' \in {"reset_nic", "calibrate"}
    BY <1>3 DEF Enable
  <2>9. "pci" \in init_status' => Here'.vendor = "other"
    <3>1. "pci" \in init_status' => Driver = "none"
      BY <1>0, <1>3 DEF pci_scan_bus, Enable, Step, At, Skip, NothingFound, Found,
                       pci_wake_device, ResetNic, StartNic, WireNic
    <3>2. Here.vendor \in DOMAIN DriverOf
      BY <2>1 DEF Wires, Here
    <3>3. Driver = "none" => Here.vendor = "other"
      BY <2>1, <3>2 DEF Driver, DriverOf
    <3> QED BY <2>2, <2>4, <3>1, <3>3
  <2> QED BY <2>2, <2>4, <2>6, <2>7, <2>8, <2>9 DEF Started, Routed
<1>4. CASE ResetNic /\ UNCHANGED init_status
  <2>1. UNCHANGED <<functions, at>> /\ pc = "reset_nic" /\ pc' = "start_nic"
    BY <1>4 DEF ResetNic, Step, At
  <2>2. Here.power = "D0"
    BY <1>4 DEF ResetNic, Answers
  <2> QED BY <1>0, <1>4, <2>1, <2>2 DEF Started, Routed, Here
<1>5. CASE StartNic /\ UNCHANGED init_status
  <2>1. UNCHANGED <<functions, at>> /\ pc = "start_nic" /\ pc' = "wire_nic"
    BY <1>5 DEF StartNic, Step, At
  <2>2. nic'.receiving
    BY <1>5 DEF StartNic, Wires
  <2> QED BY <1>0, <1>5, <2>1, <2>2 DEF Started, Routed, Here
<1>6. CASE WireNic
  <2>1. UNCHANGED <<functions, at>> /\ pc = "wire_nic" /\ pc' = "calibrate"
    BY <1>6 DEF WireNic, Step, At
  <2>2. /\ Here.power = "D0" /\ "master" \in Here.decode /\ Here.irq_line \in IRQS
        /\ nic.receiving
    BY <2>1 DEF Started, Routed
  <2>3. nic'.receiving /\ nic'.enabled
    BY <1>6, <2>2 DEF WireNic, Wires
  <2>4. nic_poll' = DriverOf[Here.vendor] /\ irq_handlers'[Here.irq_line] = nic_poll'
    <3>1. Driver = DriverOf[Here.vendor]
      BY <2>1 DEF Driver, Wires, WithNic
    <3>2. irq_handlers' = [irq_handlers EXCEPT ![Here.irq_line] = Driver] /\ nic_poll' = Driver
      BY <1>6, <2>2 DEF WireNic, register_irq_handler, IRQS
    <3>3. irq_handlers'[Here.irq_line] = Driver
      BY <2>2, <3>2 DEF TypeOK
    <3> QED BY <3>1, <3>2, <3>3
  <2>5. Unmasked(Here.irq_line) \cap masked' = {}
    BY <1>6, UnmaskedLine DEF WireNic
  <2> QED BY <2>1, <2>2, <2>3, <2>4, <2>5 DEF Started, Routed, Here
<1> QED
  BY <1>1, <1>2, <1>3, <1>4, <1>5, <1>6 DEF pci_scan_bus

(* So do the others: frames and interrupts change nothing but its cause.   *)
LEMMA StartedStep ==
  TypeOK /\ Wires /\ Scanned /\ Flagged /\ Started /\ [Next]_vars => Started'
<1> SUFFICES ASSUME TypeOK, Wires, Scanned, Flagged, Started, [Next]_vars PROVE Started'
  OBVIOUS
<1>1. CASE pci_scan_bus
  BY <1>1, StartedScan
<1>2. CASE /\ UNCHANGED <<functions, at, nic_poll, irq_handlers, masked>>
           /\ \/ UNCHANGED nic
              \/ \E cause \in BOOLEAN : nic' = [nic EXCEPT !.cause = cause]
           /\ pc' \in WithNic => pc' = pc
           /\ "pci" \in init_status' => "pci" \in init_status
  <2>1. nic'.receiving = nic.receiving /\ nic'.enabled = nic.enabled
    BY <1>2 DEF Wires
  <2>2. UNCHANGED Here
    BY <1>2 DEF Here
  <2> QED BY <1>2, <2>1, <2>2 DEF Started, Routed, WithNic
<1> QED
  BY <1>1, <1>2, ScanAlone

-----------------------------------------------------------------------------
(* The theorems about them.                                                *)

(* The first Ethernet controller is what the scan stands at.               *)
LEMMA TheFirst ==
  ASSUME Scanned, at \in DOMAIN functions, IsEthernet(Here)
  PROVE  Ethernets # {} /\ Min(Ethernets) = at
<1>1. PICK n \in Nat : DOMAIN functions = 1 .. n
  BY DEF Scanned
<1>2. at \in Ethernets /\ Ethernets \in SUBSET Nat
  BY <1>1 DEF Ethernets, IsEthernet, Here
<1>3. Min(Ethernets) \in Ethernets /\ \A y \in Ethernets : Min(Ethernets) <= y
  BY <1>2, MinFact
<1>4. \A i \in Ethernets : ~(i < at)
  BY DEF Ethernets, Scanned, IsEthernet
<1> QED
  BY <1>2, <1>3, <1>4

(* The parts about the scan and its flags, which need no assumption on     *)
(* what the firmware wrote.                                                *)
LEMMA FirstFound == Spec => [](Scanned /\ Flagged)
<1>1. Init => Scanned /\ Flagged
  <2> SUFFICES ASSUME Init PROVE Scanned /\ Flagged
    OBVIOUS
  <2>1. functions \in Buses /\ at = 1 /\ limine \in Answered /\ pc = "handshake" /\ init_status = {}
    BY DEF Init, PciInit
  <2>2. /\ Len(functions) \in Nat /\ DOMAIN functions = 1 .. Len(functions)
        /\ \A i \in DOMAIN functions : Fields \subseteq DOMAIN functions[i]
        /\ limine \subseteq Requests
    BY <2>1, BootAssumption
  <2>3. \A i \in DOMAIN functions : ~(i < at)
    BY <2>1, <2>2
  <2>4. Scanned
    <3>1. \E n \in Nat : DOMAIN functions = 1 .. n
      BY <2>2
    <3>2. pc \notin WithNic /\ "pci" \notin init_status /\ at \in Nat \ {0}
      BY <2>1 DEF WithNic
    <3> QED BY <2>2, <2>3, <3>1, <3>2 DEF Scanned
  <2>5. Flagged
    BY <2>1, <2>2 DEF Flagged
  <2> QED BY <2>4, <2>5
<1>2. Scanned /\ Flagged /\ [Next]_vars => (Scanned /\ Flagged)'
  BY ScannedStep, FlaggedStep
<1> QED
  BY <1>1, <1>2, PTL DEF Spec

(* On every bus the scan rewrites no function but the first Ethernet       *)
(* controller.                                                             *)
THEOREM ScanTouchesNic == Spec => OnlyNicTouched
<1> DEFINE Only == \A i \in DOMAIN functions :
                     functions'[i] # functions[i] => Ethernets # {} /\ i = Min(Ethernets)
<1>1. Scanned /\ Flagged /\ [Next]_vars => [Only]_functions
  <2> SUFFICES ASSUME Scanned, [Next]_vars, NEW i \in DOMAIN functions,
                      functions'[i] # functions[i]
               PROVE  Ethernets # {} /\ i = Min(Ethernets)
    OBVIOUS
  <2>1. pci_scan_bus
    BY ScanAlone
  <2>2. pci_wake_device \/ Enable
    BY <2>1 DEF pci_scan_bus, Skip, NothingFound, Found, ResetNic, StartNic, WireNic, pciVars
  <2>3. pc \in WithNic /\ \E f : Write(f)
    BY <2>2 DEF pci_wake_device, Enable, At, WithNic
  <2>4. at \in DOMAIN functions /\ IsEthernet(Here)
    BY <2>3 DEF Scanned
  <2>5. i = at
    BY <2>3, <2>4, Written
  <2> QED BY <2>4, <2>5, TheFirst
<1>2. Spec => [][Only]_functions
  BY <1>1, FirstFound, PTL DEF Spec
<1> QED
  BY <1>2 DEF OnlyNicTouched

(* The firmware names a line of the controllers, or says that it knows     *)
(* none: any other number has no entry in irq_handlers.                    *)
LinesNamed ==
  \A bus \in Buses : \A i \in DOMAIN bus : bus[i].irq_line \in IRQS \cup {255}

(* Whatever the bus, Limine's answers and the interrupts: kernel_main gets *)
(* to its loop only with a NIC that is awake, receiving, unmasked and      *)
(* served by its own driver, if its vendor has one.                        *)
THEOREM ReadyToPoll ==
  ASSUME LinesNamed
  PROVE  Spec => []PollingMeansReady
<1>1. Init => Started
  <2> SUFFICES ASSUME Init PROVE Started
    OBVIOUS
  <2>1. functions \in Buses /\ pc = "handshake" /\ init_status = {}
    BY DEF Init, PciInit
  <2> QED BY <2>1, LinesNamed DEF Started, Routed, LinesNamed
<1>2. IInv /\ (Scanned /\ Flagged) /\ Started /\ [Next]_vars => Started'
  BY StartedStep DEF IInv
<1>3. IInv /\ (Scanned /\ Flagged) /\ Started => PollingMeansReady
  <2> SUFFICES ASSUME IInv, Scanned, Flagged, Started, pc = "polling"
               PROVE  PollingMeansReady
    BY DEF PollingMeansReady
  <2>1. Checked \subseteq init_status
    BY DEF Flagged
  <2>2. limine = Requests /\ tsc_freq_hz # 0 /\ "pci" \in init_status
    BY <2>1 DEF Flagged, Checked
  <2>3. gates = 0 .. 47 /\ offsets = <<32, 40>>
    BY DEF IInv, Order, BeforeIdt
  <2>4. Ethernets # {} /\ TheNic = Here
    BY <2>2, TheFirst DEF Scanned, TheNic, Here
  <2>5. TheNic.vendor # "other" =>
          LET irq == TheNic.irq_line
          IN  /\ TheNic.power = "D0" /\ "master" \in TheNic.decode
              /\ nic.receiving /\ nic.enabled
              /\ irq_handlers[irq] = nic_poll /\ nic_poll = DriverOf[TheNic.vendor]
              /\ {irq} \cap masked = {} /\ (irq >= 8 => CASCADE \notin masked)
    <3> SUFFICES ASSUME Here.vendor # "other"
                 PROVE  LET irq == Here.irq_line
                        IN  /\ Here.power = "D0" /\ "master" \in Here.decode
                            /\ nic.receiving /\ nic.enabled
                            /\ irq_handlers[irq] = nic_poll /\ nic_poll = DriverOf[Here.vendor]
                            /\ {irq} \cap masked = {} /\ (irq >= 8 => CASCADE \notin masked)
      BY <2>4
    <3>1. /\ Here.power = "D0" /\ "master" \in Here.decode /\ Here.irq_line \in IRQS
          /\ nic.receiving /\ nic.enabled
          /\ nic_poll = DriverOf[Here.vendor] /\ irq_handlers[Here.irq_line] = nic_poll
          /\ Unmasked(Here.irq_line) \cap masked = {}
      BY <2>2 DEF Started
    <3>2. {Here.irq_line} \cap masked = {} /\ (Here.irq_line >= 8 => CASCADE \notin masked)
      BY <3>1 DEF Unmasked, IRQS
    <3> QED BY <3>1, <3>2
  <2> QED BY <2>2, <2>3, <2>4, <2>5 DEF PollingMeansReady
<1> QED
  BY <1>1, <1>2, <1>3, Inductive, FirstFound, PTL DEF Spec
=============================================================================
