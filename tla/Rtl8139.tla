------------------------------ MODULE Rtl8139 ------------------------------
(***************************************************************************)
(* rtl8139.c: the byte ring between NIC and driver, drained by             *)
(* rtl8139_poll in two contexts, read_ethernet's loop and the interrupt    *)
(* handler, which share rx_read_ptr.  The NIC is modelled from what the    *)
(* driver programs it to do: ring of RING bytes, packets not split at its  *)
(* end but written past it (WRAP, in the filter word 0x8f).                *)
(*                                                                         *)
(* A packet in the ring is 4 bytes of header, the frame and its CRC;       *)
(* total_len counts frame and CRC.  Frames are told apart by number.       *)
(***************************************************************************)
EXTENDS Naturals, Sequences

CONSTANTS
  RING,        \* 8192
  WORD,        \* values of a 16-bit register
  Lengths,     \* total_len of frames
  FrameBound,  \* bound: frames accepted
  Prompt       \* an interrupt is taken before the next instruction of kernel_main

ASSUME RingAssumption ==
  /\ RING \in Nat \ {0} /\ RING % 4 = 0 /\ WORD \in Nat \ {0} /\ WORD % RING = 0
  /\ Lengths \subseteq Nat /\ \A len \in Lengths : len > 4 /\ len + 8 <= RING
  /\ FrameBound \in Nat /\ Prompt \in BOOLEAN

VARIABLES
  main,         \* read_ethernet: in rtl8139_poll, before its hlt, halted
  irq,          \* the handler, "out" if it does not run
  where,        \* rtl8139_poll: next step, by context
  packet,       \* rtl8139_poll: the header read, by context
  rx_read_ptr,  \* rtl8139.c
  isr,          \* rtl8139_interrupt_handler
  ring,         \* by offset: header of the packet there, or Junk
  RxBufAddr,    \* NIC: where it writes next
  RxBufPtr,     \* NIC: how far it was told everything is read
  rok,          \* NIC: receive-OK bit of its interrupt status
  accepted,     \* history: frames put in the ring
  delivered     \* history: frames given to network_receive_frame

nicVars == <<ring, RxBufAddr, rok, accepted>>
vars == <<main, irq, where, packet, rx_read_ptr, isr, nicVars, RxBufPtr, delivered>>

Offsets == {o \in 0 .. RING - 1 : o % 4 = 0}
Junk == [frame |-> 0, total_len |-> 0]
Headers == [frame : 1 .. FrameBound, total_len : Lengths]

(* The driver's statics, and the ring as rtl8139_init clears and hands it  *)
(* over; the NIC's pointers are 0 after its reset.                         *)
Init ==
  /\ main = "poll" /\ irq = "out" /\ isr = FALSE
  /\ where = [main |-> "test", irq |-> "test"]
  /\ packet = [main |-> Junk, irq |-> Junk]
  /\ rx_read_ptr = 0 /\ RxBufAddr = 0 /\ RxBufPtr = 0
  /\ ring = [o \in Offsets |-> Junk]
  /\ rok = FALSE /\ accepted = <<>> /\ delivered = <<>>

-----------------------------------------------------------------------------
(* Mutant of Aligned: packets are taken to follow each other directly.     *)
AlignedNot(n) == n

Aligned(n) == ((n + 3) \div 4) * 4

Rounded(n) == ((n + 3) \div 4) * 4

Empty == RxBufAddr = RxBufPtr
Space == (RING + RxBufPtr - RxBufAddr) % RING

(* A frame for which there is no space is lost: nothing changes.           *)
NicAccepts ==
  /\ Len(accepted) < FrameBound
  /\ \E len \in Lengths :
       LET frame == Len(accepted) + 1
           size  == Rounded(len + 4)
       IN  /\ Empty \/ size < Space
           /\ ring' = [o \in Offsets |->
                         IF o = RxBufAddr THEN [frame |-> frame, total_len |-> len]
                         ELSE IF o > RxBufAddr /\ o < RxBufAddr + size THEN Junk ELSE ring[o]]
           /\ RxBufAddr' = (RxBufAddr + size) % RING
           /\ accepted' = Append(accepted, frame)
  /\ rok' = TRUE
  /\ UNCHANGED <<main, irq, where, packet, rx_read_ptr, isr, RxBufPtr, delivered>>

-----------------------------------------------------------------------------
(* rtl8139_poll in context c: main or irq.                                 *)

MainRuns == irq = "out" /\ (Prompt => ~rok)
Runs(c) == IF c = "main" THEN main = "poll" /\ MainRuns ELSE irq = "poll"
At(c, step) == Runs(c) /\ where[c] = step
Goto(c, step) == where' = [where EXCEPT ![c] = step]

(* The loop ends: read_ethernet goes to its hlt, the handler returns.      *)
Leave(c) ==
  /\ At(c, "test") /\ Empty
  /\ IF c = "main" THEN main' = "hlt" /\ UNCHANGED irq ELSE irq' = "out" /\ UNCHANGED main
  /\ UNCHANGED <<where, packet, rx_read_ptr, isr, nicVars, RxBufPtr, delivered>>

(* What is no header reads as anything.                                    *)
ReadHeader(c) ==
  /\ At(c, "test") /\ ~Empty
  /\ \E header \in IF rx_read_ptr \in Offsets /\ ring[rx_read_ptr] # Junk
                   THEN {ring[rx_read_ptr]} ELSE Headers :
       packet' = [packet EXCEPT ![c] = header]
  /\ Goto(c, "deliver")
  /\ UNCHANGED <<main, irq, rx_read_ptr, isr, nicVars, RxBufPtr, delivered>>

Deliver(c) ==
  /\ At(c, "deliver")
  /\ delivered' = IF packet[c].total_len > 4 THEN Append(delivered, packet[c].frame)
                                             ELSE delivered
  /\ Goto(c, "advance")
  /\ UNCHANGED <<main, irq, packet, rx_read_ptr, isr, nicVars, RxBufPtr>>

(* Mutant of Wrapped: the end of the ring is not yet past it.              *)
WrappedLate(ptr) == IF ptr > RING THEN ptr - RING ELSE ptr

Wrapped(ptr) == IF ptr >= RING THEN ptr - RING ELSE ptr

(* rx_read_ptr is read again, after network_receive_frame.                 *)
Advance(c) ==
  /\ At(c, "advance")
  /\ rx_read_ptr' = Wrapped(Aligned(rx_read_ptr + packet[c].total_len + 4))
  /\ packet' = [packet EXCEPT ![c] = Junk]
  /\ Goto(c, "capr")
  /\ UNCHANGED <<main, irq, isr, nicVars, RxBufPtr, delivered>>

(* Mutant of WriteCapr: the pointer itself.                                *)
WriteCaprPlain(c) ==
  /\ At(c, "capr")
  /\ RxBufPtr' = (rx_read_ptr + 16) % RING
  /\ Goto(c, "test")
  /\ UNCHANGED <<main, irq, packet, rx_read_ptr, isr, nicVars, delivered>>

(* Mutant of WriteCapr: the handler takes one packet.                      *)
WriteCaprOnce(c) ==
  /\ At(c, "capr")
  /\ RxBufPtr' = rx_read_ptr % RING
  /\ irq' = "out"
  /\ Goto(c, "test")
  /\ UNCHANGED <<main, packet, rx_read_ptr, isr, nicVars, delivered>>

(* A 16-bit register, which the NIC takes to be 16 behind.                 *)
WriteCapr(c) ==
  /\ At(c, "capr")
  /\ LET CAPR == (WORD + rx_read_ptr - 16) % WORD IN RxBufPtr' = (CAPR + 16) % RING
  /\ Goto(c, "test")
  /\ UNCHANGED <<main, irq, packet, rx_read_ptr, isr, nicVars, delivered>>

rtl8139_poll(c) == Leave(c) \/ ReadHeader(c) \/ Deliver(c) \/ Advance(c) \/ WriteCapr(c)

-----------------------------------------------------------------------------
(* hlt in read_ethernet; the rest of that loop is in Receive.              *)
Halt ==
  /\ main = "hlt" /\ MainRuns
  /\ main' = "halted"
  /\ UNCHANGED <<irq, where, packet, rx_read_ptr, isr, nicVars, RxBufPtr, delivered>>

Interrupt ==
  /\ rok /\ irq = "out"
  /\ irq' = "read_isr"
  /\ main' = IF main = "halted" THEN "poll" ELSE main
  /\ UNCHANGED <<where, packet, rx_read_ptr, isr, nicVars, RxBufPtr, delivered>>

ReadIsr ==
  /\ irq = "read_isr"
  /\ isr' = rok /\ irq' = "clear_isr"
  /\ UNCHANGED <<main, where, packet, rx_read_ptr, nicVars, RxBufPtr, delivered>>

ClearIsr ==
  /\ irq = "clear_isr"
  /\ rok' = (rok /\ ~isr)
  /\ irq' = IF isr THEN "poll" ELSE "out"
  /\ isr' = FALSE
  /\ UNCHANGED <<main, where, packet, rx_read_ptr, ring, RxBufAddr, accepted, RxBufPtr,
                 delivered>>

Handler == ReadIsr \/ ClearIsr \/ rtl8139_poll("irq")
Kernel == Halt \/ rtl8139_poll("main")

Next == NicAccepts \/ Interrupt \/ Handler \/ Kernel

(* The CPU executes, and takes a pending interrupt.                        *)
Spec ==
  Init /\ [][Next]_vars /\ WF_vars(Kernel) /\ WF_vars(Handler) /\ WF_vars(Interrupt)

-----------------------------------------------------------------------------
(* Types; the read pointer is always where a packet may start, and the     *)
(* handler and kernel_main are each at a step of their own.                *)
TypeOK ==
  /\ main \in {"poll", "hlt", "halted"}
  /\ irq \in {"out", "read_isr", "clear_isr", "poll"}
  /\ where \in [{"main", "irq"} -> {"test", "deliver", "advance", "capr"}]
  /\ packet \in [{"main", "irq"} -> Headers \cup {Junk}]
  /\ {rx_read_ptr, RxBufAddr, RxBufPtr} \subseteq Offsets
  /\ ring \in [Offsets -> Headers \cup {Junk}]

(* Between two packets driver and NIC agree on what has been read, and     *)
(* what the NIC says is unread starts with a header, not overwritten: the  *)
(* lengths, the rounding, the end of the ring and CAPR's 16 all fit.       *)
RingInStep ==
  (\A c \in {"main", "irq"} : where[c] = "test") =>
    /\ RxBufPtr = rx_read_ptr
    /\ ~Empty => ring[rx_read_ptr].frame = Len(delivered) + 1

(* The kernel does not sleep on a packet without an interrupt to come: the *)
(* bit is cleared before the ring is drained to the end, so that what      *)
(* arrives meanwhile is seen by the loop or raises the line again.         *)
NothingForgotten == main = "halted" /\ irq = "out" /\ ~rok => Empty

(* Frames reach the network once each, in order, and all of them at last.  *)
Undelivered == SubSeq(accepted, Len(delivered) + 1, Len(accepted))
Queue == INSTANCE RxQueue WITH Frames <- 1 .. FrameBound, queue <- Undelivered
ImplementsRxQueue == Queue!Spec
=============================================================================
