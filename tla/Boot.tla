-------------------------------- MODULE Boot --------------------------------
(***************************************************************************)
(* kernel_main from the bootloader's handshake to its main loop, with the  *)
(* interrupt machinery, the bus scan and the calibration that it starts.   *)
(* What pmm_init and vmm_init do is in Pmm and Vmm; here, that they read   *)
(* Limine's answers.  A NULL answer that is read is undefined behaviour.   *)
(***************************************************************************)
EXTENDS Pci, Timer, Sequences

CONSTANTS
  Answered,   \* sets of Limine requests that may be answered
  Cpus,       \* sets of CPU features
  Buses       \* sequences of PCI functions

Requests == {"revision", "memmap", "hhdm", "kernel_addr", "framebuffer"}

ASSUME BootAssumption ==
  /\ Answered \subseteq SUBSET Requests
  /\ Cpus \subseteq SUBSET {"xsave", "avx"}
  /\ \A bus \in Buses :
       /\ Len(bus) \in Nat /\ DOMAIN bus = 1 .. Len(bus)
       /\ \A i \in DOMAIN bus :
            /\ Fields \subseteq DOMAIN bus[i]
            /\ bus[i].wire \in IRQS /\ bus[i].vendor \in DOMAIN DriverOf

VARIABLES
  limine,       \* the requests answered, "revision" if the base revision is supported
  cpu,          \* of "xsave", "avx"
  init_status   \* kernel_main

vars == <<pc, irqVars, pciVars, timerVars, limine, cpu, init_status>>
machineVars == <<limine, cpu>>

Init ==
  /\ pc = "handshake"
  /\ InterruptsInit /\ PciInit /\ TimerInit
  /\ limine \in Answered /\ cpu \in Cpus /\ functions \in Buses
  /\ init_status = {}

Success(flag) == init_status' = init_status \cup {flag}
Reads(answers, step) == IF answers \subseteq limine THEN step ELSE "undefined"

-----------------------------------------------------------------------------
Handshake ==
  /\ Step("handshake", "answers")
  /\ init_status' = IF Requests \subseteq limine THEN {"limine"} ELSE {}
  /\ UNCHANGED <<irqVars, pciVars, timerVars, machineVars>>

(* The answers are read whether or not the handshake succeeded.            *)
ReadAnswers ==
  /\ Step("answers", Reads({"framebuffer", "hhdm"}, "pic"))
  /\ UNCHANGED <<irqVars, pciVars, timerVars, machineVars, init_status>>

RemapPic ==
  /\ Step("pic", "gdt")
  /\ pic_remap(32, 40)
  /\ UNCHANGED <<pciVars, timerVars, machineVars, init_status>>

gdt_init ==
  /\ Step("gdt", "idt")
  /\ Success("gdt")
  /\ UNCHANGED <<irqVars, pciVars, timerVars, machineVars>>

InitIdt ==
  /\ Step("idt", "pmm")
  /\ idt_init /\ Success("idt")
  /\ UNCHANGED <<pciVars, timerVars, machineVars>>

InitMemory ==
  /\ \/ Step("pmm", Reads({"memmap"}, "vmm")) /\ Success("pmm")
     \/ Step("vmm", Reads({"memmap", "kernel_addr"}, "simd")) /\ Success("vmm")
  /\ UNCHANGED <<irqVars, pciVars, timerVars, machineVars>>

(* The test is for XSAVE; what is then set in XCR0 takes AVX, else the     *)
(* instruction is a general protection fault.  Without XSAVE it succeeds.  *)
enable_simd ==
  /\ At("simd")
  /\ IF "xsave" \in cpu /\ "avx" \notin cpu
     THEN Exception(13) /\ UNCHANGED init_status
     ELSE pc' = "display" /\ Success("simd") /\ UNCHANGED <<frame, interrupts>>
  /\ UNCHANGED <<tableVars, picVars, spurious, pciVars, timerVars, machineVars>>

InitOutput ==
  /\ \/ Step("display", "serial") /\ Success("display")
     \/ Step("serial", "scan") /\ Success("serial")
  /\ UNCHANGED <<irqVars, pciVars, timerVars, machineVars>>

pci_scan_bus ==
  /\ \/ (Skip \/ NothingFound \/ Found \/ pci_wake_device \/ ResetNic \/ StartNic)
        /\ UNCHANGED init_status
     \/ WireNic /\ Success("pci")
     \/ Enable /\ IF Driver = "none" THEN Success("pci") ELSE UNCHANGED init_status
  /\ UNCHANGED <<timerVars, machineVars>>

timer_calibrate ==
  /\ \/ (CalibrateStart \/ Measure) /\ UNCHANGED init_status
     \/ CalibrateEnd /\ IF tsc_freq_hz' = 0 THEN UNCHANGED init_status ELSE Success("timer")
  /\ UNCHANGED <<pciVars, machineVars>>

-----------------------------------------------------------------------------
(* Mutant of Checked: a missing NIC is not looked at.                      *)
CheckedLocal == {"limine", "gdt", "idt", "pmm", "vmm", "display", "serial", "timer"}

(* SIMD is not among them.                                                 *)
Checked == {"limine", "gdt", "idt", "pmm", "vmm", "display", "serial", "pci", "timer"}

CheckStatus ==
  /\ Step("checks", IF Checked \subseteq init_status THEN "sti" ELSE "hcf")
  /\ UNCHANGED <<irqVars, pciVars, timerVars, machineVars, init_status>>

Sti ==
  /\ Step("sti", "api")
  /\ interrupts' = TRUE
  /\ UNCHANGED <<frame, tableVars, picVars, spurious, pciVars, timerVars, machineVars,
                 init_status>>

(* The API page is mapped and filled (Vmm), and the main loop entered.     *)
EnterLoop ==
  /\ Step("api", "polling")
  /\ UNCHANGED <<irqVars, pciVars, timerVars, machineVars, init_status>>

Kernel ==
  \/ Handshake \/ ReadAnswers \/ RemapPic \/ gdt_init \/ InitIdt \/ InitMemory
  \/ enable_simd \/ InitOutput \/ pci_scan_bus \/ timer_calibrate
  \/ CheckStatus \/ Sti \/ EnterLoop

Dispatch ==
  /\ \/ (Panic \/ NoHandler \/ EndInterrupt) /\ UNCHANGED pciVars
     \/ NicHandler
  /\ UNCHANGED <<timerVars, machineVars, init_status>>

Interrupt == TakeInterrupt /\ UNCHANGED <<pciVars, timerVars, machineVars, init_status>>
Spurious == TakeSpurious /\ UNCHANGED <<pciVars, timerVars, machineVars, init_status>>
Network == NicReceives /\ UNCHANGED <<timerVars, machineVars, init_status>>

Next == Kernel \/ Dispatch \/ Interrupt \/ Spurious \/ Network

(* The CPU runs, and takes an interrupt that is pending and allowed.       *)
Fairness == WF_vars(Kernel) /\ WF_vars(Dispatch) /\ WF_vars(Interrupt)
Spec == Init /\ [][Next]_vars /\ Fairness

-----------------------------------------------------------------------------
Ends == {"polling", "hcf", "panic", "undefined"}

(* Types, and the dispatcher's entry: interrupts are off in a handler, and *)
(* the vector it runs for is one a gate was loaded for.                    *)
TypeOK ==
  /\ interrupts \in BOOLEAN /\ masked \subseteq IRQS /\ raised \subseteq IRQS
  /\ service \subseteq IRQS /\ gates \subseteq 0 .. 255
  /\ irq_handlers \in [IRQS -> {"none", "i219", "rtl8139"}]
  /\ init_status \subseteq Checked \cup {"simd"}
  /\ frame.at \in {"idle", "dispatch", "eoi"}
  /\ frame.at # "idle" => ~interrupts /\ frame.vector \in gates

(* No interrupt, spurious ones included, finds the IDT without its gate,   *)
(* and none is taken for an exception: the only panic of boot is that of   *)
(* a CPU with XSAVE and without AVX.                                       *)
InterruptsAreNotExceptions ==
  /\ pc # "reset"
  /\ pc = "panic" => cpu = {"xsave"}

(* pic_send_eoi ends what was taken, of master and slave, spurious         *)
(* interrupts included: after a handler no line is left in service, where  *)
(* it would hold back all the lines below it.                              *)
ServiceClean == frame = Idle => service = {}

(* timer_calibrate: the frequency is exact whether or not the counter      *)
(* passed 0 during the measurement, for any gaps between the reads.        *)
CalibrationExact == tsc_freq_hz \in {0, CyclesPerTick * PIT_FREQ_HZ}

Ethernets == {i \in DOMAIN functions : functions[i].class = ETHERNET}
TheNic == functions[Min(Ethernets)]

(* kernel_main gets to its loop only if every step of boot did what the    *)
(* loop relies on: gates and vectors are in place, the clock is measured,  *)
(* there is a NIC, and if its vendor is known it is awake, receives, may   *)
(* interrupt on the line it was told, and is polled by its own driver.     *)
PollingMeansReady ==
  pc = "polling" =>
    /\ limine = Requests /\ gates = 0 .. 47 /\ offsets = <<32, 40>> /\ tsc_freq_hz # 0
    /\ Ethernets # {}
    /\ TheNic.vendor # "other" =>
         LET irq == TheNic.irq_line
         IN  /\ TheNic.power = "D0" /\ "master" \in TheNic.decode
             /\ nic.receiving /\ nic.enabled
             /\ irq_handlers[irq] = nic_poll /\ nic_poll = DriverOf[TheNic.vendor]
             /\ {irq} \cap masked = {} /\ (irq >= 8 => CASCADE \notin masked)

(* The scan writes the configuration of no function but the first          *)
(* Ethernet controller.                                                    *)
OnlyNicTouched ==
  [][\A i \in DOMAIN functions :
       functions'[i] # functions[i] => Ethernets # {} /\ i = Min(Ethernets)]_functions

(* What the drivers' reset loops rely on: a NIC that keeps its BAR when it *)
(* is woken and, for the RTL8139, whose I/O ports the firmware enabled.    *)
NicCanAnswer ==
  Ethernets = {} \/ TheNic.vendor = "other"
    \/ /\ TheNic.keeps_bar \/ (TheNic.power = "D0" /\ TheNic.bar0 # "none")
       /\ TheNic.vendor = "realtek" => "io" \in TheNic.decode

(* Boot comes to an end: the walk of capabilities, the reset loop, the     *)
(* measurement and the interrupts during the checks all do.                *)
BootEnds == []NicCanAnswer => <>(pc \in Ends)

(* A NIC that wants an interrupt is served, as long as it is wired to the  *)
(* line its configuration names.                                           *)
NicServed ==
  (nic.cause /\ nic.enabled /\ Here.irq_line = Here.wire) ~> ~nic.cause
=============================================================================
