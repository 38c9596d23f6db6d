-------------------------------- MODULE Pci --------------------------------
(***************************************************************************)
(* pci.c: the scan that finds the first Ethernet controller, wakes it,     *)
(* enables it and starts its driver; with the start of the two drivers     *)
(* (i219_init, rtl8139_init) and the NIC as far as its interrupt goes.     *)
(* What the drivers do with frames is in Receive and Rtl8139.              *)
(*                                                                         *)
(* A function of the bus is [vendor, class, power, caps, first_cap, bar0,  *)
(* keeps_bar, decode, irq_line, wire]: caps are its capabilities by their  *)
(* pointer, keeps_bar says if its BARs survive waking, decode what its     *)
(* command register enables, wire where its interrupt pin leads.           *)
(***************************************************************************)
EXTENDS Interrupts

CONSTANT FrameBound  \* bound: interrupts' worth of frames from the network

ASSUME FrameAssumption == FrameBound \in Nat

VARIABLES
  functions,  \* the functions of the bus in scan order
  at,         \* pci_scan_bus: the function looked at
  bar0,       \* pci_scan_bus
  cap_ptr,    \* pci_wake_device
  nic_poll,   \* network.c
  nic,        \* the NIC: receiving, cause of an interrupt, is it enabled
  frames      \* frames it may still receive

pciVars == <<functions, at, bar0, cap_ptr, nic_poll, nic, frames>>

(* What the scan reads and writes of every function, and where its pin is. *)
Fields == {"vendor", "class", "power", "bar0", "keeps_bar", "decode", "irq_line", "wire"}

ETHERNET == <<2, 0>>
POWER_MANAGEMENT == 1
DriverOf == [intel |-> "i219", realtek |-> "rtl8139", other |-> "none"]
DecodeOf == [i219 |-> "mem", rtl8139 |-> "io"]

PciInit ==
  /\ at = 1 /\ bar0 = "none" /\ cap_ptr = 0 /\ nic_poll = "none"
  /\ nic = [receiving |-> FALSE, cause |-> FALSE, enabled |-> FALSE]
  /\ frames = FrameBound

Here == functions[at]
Driver == IF at \in DOMAIN functions THEN DriverOf[Here.vendor] ELSE "none"

(* pci_write_dword, to the function looked at.                             *)
Write(function) == functions' = [functions EXCEPT ![at] = function]

-----------------------------------------------------------------------------
(* pci_scan_bus, a step per function and per capability.                   *)

(* Mutant of IsEthernet: any network controller.                           *)
IsEthernetAny(function) == function.class[1] = ETHERNET[1]

IsEthernet(function) == function.class = ETHERNET

Skip ==
  /\ Step("scan", "scan")
  /\ at \in DOMAIN functions /\ ~IsEthernet(Here)
  /\ at' = at + 1
  /\ UNCHANGED <<irqVars, functions, bar0, cap_ptr, nic_poll, nic, frames>>

NothingFound ==
  /\ Step("scan", "calibrate")
  /\ at \notin DOMAIN functions
  /\ UNCHANGED <<irqVars, pciVars>>

(* BAR0 is read before the device is woken.                                *)
Found ==
  /\ Step("scan", "wake")
  /\ at \in DOMAIN functions /\ IsEthernet(Here)
  /\ bar0' = Here.bar0 /\ cap_ptr' = Here.first_cap
  /\ UNCHANGED <<irqVars, functions, at, nic_poll, nic, frames>>

Awake(function) ==
  IF function.power = "D0" THEN function
  ELSE [function EXCEPT !.power = "D0", !.bar0 = IF function.keeps_bar THEN @ ELSE "none"]

(* Mutant of pci_wake_device: looks at the first capability only.          *)
pci_wake_device_first ==
  /\ Step("wake", "enable")
  /\ Write(IF cap_ptr # 0 /\ Here.caps[cap_ptr].id = POWER_MANAGEMENT THEN Awake(Here) ELSE Here)
  /\ UNCHANGED <<irqVars, at, bar0, cap_ptr, nic_poll, nic, frames>>

pci_wake_device ==
  /\ At("wake")
  /\ \/ /\ cap_ptr = 0
        /\ pc' = "enable" /\ UNCHANGED <<functions, cap_ptr>>
     \/ /\ cap_ptr # 0 /\ Here.caps[cap_ptr].id = POWER_MANAGEMENT
        /\ pc' = "enable" /\ Write(Awake(Here)) /\ UNCHANGED cap_ptr
     \/ /\ cap_ptr # 0 /\ Here.caps[cap_ptr].id # POWER_MANAGEMENT
        /\ cap_ptr' = Here.caps[cap_ptr].next /\ UNCHANGED <<pc, functions>>
  /\ UNCHANGED <<irqVars, at, bar0, nic_poll, nic, frames>>

Enabled(function) ==
  [function EXCEPT !.decode = @ \cup {"mem", "master"},
                   !.irq_line = IF @ = 255 THEN 11 ELSE @]

(* The driver of an unknown vendor is none, and that is a success.         *)
Enable ==
  /\ At("enable")
  /\ Write(Enabled(Here))
  /\ pc' = IF Driver = "none" THEN "calibrate" ELSE "reset_nic"
  /\ UNCHANGED <<irqVars, at, bar0, cap_ptr, nic_poll, nic, frames>>

-----------------------------------------------------------------------------
(* i219_init and rtl8139_init.                                             *)

Answers(function, bar) ==
  /\ function.power = "D0" /\ function.bar0 = bar
  /\ DecodeOf[DriverOf[function.vendor]] \in function.decode

(* What does not answer reads as ones: the loop on the reset bit goes on.  *)
ResetNic ==
  /\ Step("reset_nic", "start_nic")
  /\ Answers(Here, bar0)
  /\ nic' = [receiving |-> FALSE, cause |-> FALSE, enabled |-> FALSE]
  /\ UNCHANGED <<irqVars, functions, at, bar0, cap_ptr, nic_poll, frames>>

(* The ring is given to the NIC and receiving enabled.                     *)
StartNic ==
  /\ Step("start_nic", "wire_nic")
  /\ nic' = [nic EXCEPT !.receiving = TRUE]
  /\ UNCHANGED <<irqVars, functions, at, bar0, cap_ptr, nic_poll, frames>>

Line(cause, enabled) == IF cause /\ enabled THEN {Here.wire} ELSE {}

(* IMS or IMR, pic_unmask, register_irq_handler; then network_set_poll_fn. *)
WireNic ==
  /\ Step("wire_nic", "calibrate")
  /\ nic' = [nic EXCEPT !.enabled = TRUE]
  /\ raised' = raised \cup Line(nic.cause, TRUE)
  /\ pic_unmask(Here.irq_line)
  /\ register_irq_handler(Here.irq_line, Driver)
  /\ nic_poll' = Driver
  /\ UNCHANGED <<interrupts, frame, gates, offsets, service, spurious,
                 functions, at, bar0, cap_ptr, frames>>

(* A frame comes in: ICR or ISR is set.                                    *)
NicReceives ==
  /\ nic.receiving /\ frames > 0 /\ pc # "reset"
  /\ frames' = frames - 1
  /\ nic' = [nic EXCEPT !.cause = TRUE]
  /\ raised' = raised \cup Line(TRUE, nic.enabled)
  /\ UNCHANGED <<pc, interrupts, frame, tableVars, offsets, masked, service, spurious,
                 functions, at, bar0, cap_ptr, nic_poll>>

(* i219_interrupt_handler reads ICR, rtl8139_interrupt_handler writes ISR  *)
(* back: either takes the line down.                                       *)
NicHandler ==
  /\ Driver # "none" /\ Calls(Driver)
  /\ nic' = [nic EXCEPT !.cause = FALSE]
  /\ raised' = raised \ {Here.wire}
  /\ UNCHANGED <<pc, interrupts, tableVars, offsets, masked, service, spurious,
                 functions, at, bar0, cap_ptr, nic_poll, frames>>
=============================================================================
