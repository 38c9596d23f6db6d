------------------------------ MODULE Receive ------------------------------
(***************************************************************************)
(* How a workload gets from the wire into the huge pages and is run:       *)
(* the receive ring of nic_drivers/i219.c, network.c, loader.c and the     *)
(* POLLING / EXECUTING / EXTRACTING loop of kernel.c.                      *)
(*                                                                         *)
(* One CPU runs kernel_main (pc) and, over it, the NIC's interrupt         *)
(* handler (irq).  The handler runs with interrupts off, so kernel_main    *)
(* sees each of its frames delivered in one step; kernel_main itself is    *)
(* interrupted between any two of its steps, and its steps are the single  *)
(* loads and stores of the shared variables, in the order of the source,   *)
(* which gcc -O2 keeps but in PollAdvance.  The NIC writes the ring at any *)
(* time.                                                                   *)
(***************************************************************************)
EXTENDS Integers, Sequences

CONSTANTS
  NUM_RX_DESC,        \* descriptors of the ring: 32
  HEADER_FRAME_SIZE,  \* bytes of hdr_buf: 16
  MAGIC_NUMBER,       \* the bytes "GO!!" as a sequence
  SizeBytes,          \* bytes of the announced size: 8
  ByteBase,           \* values of a byte: 256
  PageBytes,          \* bytes of a huge page: 2MB
  Payloads,           \* the workloads the host streams, each a sequence of bytes
  ChunkBytes,         \* payload bytes of a data frame: 1486
  Noise,              \* other frames on the wire
  NoiseBound,         \* bound: how many of them arrive
  Pace,               \* when the host sends: "free", "waiting" or "halted"
  EqualMeansAll       \* does the NIC own every descriptor when RDT = RDH, not none as Intel's do

HeaderBytes == Len(MAGIC_NUMBER) + SizeBytes  \* the 12 of read_ethernet
Bytes == 0 .. (ByteBase - 1)

ASSUME ReceiveAssumption ==
  /\ NUM_RX_DESC \in Nat \ {0, 1}
  /\ SizeBytes \in Nat \ {0} /\ ByteBase \in Nat \ {0, 1}
  /\ MAGIC_NUMBER \in Seq(Bytes \ {0}) /\ Len(MAGIC_NUMBER) > 0
  /\ PageBytes \in Nat \ {0}
  /\ HEADER_FRAME_SIZE \in Nat /\ HEADER_FRAME_SIZE >= HeaderBytes
  /\ ChunkBytes \in Nat /\ ChunkBytes >= HEADER_FRAME_SIZE
  /\ Payloads \in Seq(Seq(Bytes)) /\ NoiseBound \in Nat
  /\ Pace \in {"free", "waiting", "halted"} /\ EqualMeansAll \in BOOLEAN
  /\ \A f \in Noise : f.payload \in Seq(Bytes) /\ Len(f.payload) >= HEADER_FRAME_SIZE

VARIABLES
  workload, sent, noise,  \* host: what it streams, frames of it sent, noise left
  dd, buf, rdh, credits,  \* NIC: DD bits, buffers, RDH, descriptors it owns
  icr,                    \* NIC: interrupt cause pending
  rx_tail,                \* i219.c
  rx_dest, rx_expected, rx_received,                      \* network.c, payload
  rx_ready, hdr_buf, hdr_len, hdr_read, hdr_done,         \* network.c, header
  irq,                    \* is the interrupt handler running
  pc, k,                  \* where kernel_main is, and which store of a group
  caller,                 \* who is waiting: unlock, poll_payload_size, poll_payload
  magic_number, number_of_bytes, i,  \* loader.c locals
  at, byte, slot, copied, \* read_ethernet and i219_poll_rx locals
  heap, mem,              \* huge pages mapped, bytes written to them
  executed                \* history: what has been jumped to

host == <<workload, sent, noise>>
nic == <<dd, buf, rdh, credits>>
dest == <<rx_dest, rx_expected, rx_received>>
header == <<rx_ready, hdr_buf, hdr_len, hdr_read, hdr_done>>
loader == <<caller, magic_number, number_of_bytes, i>>
locals == <<at, byte, slot, copied>>
memory == <<heap, mem, executed>>
vars == <<host, nic, icr, rx_tail, dest, header, irq, pc, k, loader, locals, memory>>

Zeros(n) == [j \in 1 .. n |-> 0]
Slots == 0 .. (NUM_RX_DESC - 1)
HEAP_START == 1     \* rx_dest is NULL, that is 0, or this

(* What byte j of the announced size counts for: the shift by 8 * j.       *)
Weight[j \in 0 .. SizeBytes] == IF j = 0 THEN 1 ELSE ByteBase * Weight[j - 1]
-----------------------------------------------------------------------------
(* The host, as the README describes its streaming protocol: a frame with  *)
(* magic and size, then the binary in chunks.  Ethernet pads short frames. *)

LittleEndian(n) == [j \in 1 .. SizeBytes |-> (n \div Weight[j - 1]) % ByteBase]
Padded(s) == s \o Zeros(IF Len(s) < HEADER_FRAME_SIZE THEN HEADER_FRAME_SIZE - Len(s) ELSE 0)
Work(role, s) == [kind |-> "work", role |-> role, payload |-> Padded(s)]

Chunks(p) == (Len(p) + ChunkBytes - 1) \div ChunkBytes
Chunk(p, c) ==
  SubSeq(p, (c - 1) * ChunkBytes + 1,
         IF c * ChunkBytes < Len(p) THEN c * ChunkBytes ELSE Len(p))
Stream(p) ==
  <<Work("header", MAGIC_NUMBER \o LittleEndian(Len(p)))>>
    \o [c \in 1 .. Chunks(p) |-> Work("data", Chunk(p, c))]

(* "waiting": a frame is sent only once the code that consumes it is being *)
(* executed; "halted": only once, moreover, the CPU has gone to sleep in   *)
(* it.  Noise of a "waiting" host is not paced.                            *)
ReadLoop == {"read", "poll", "deliver", "copy", "publish", "retire", "advance", "hlt", "halted"}
Consumer(role) ==
  CASE role = "header" -> caller = "unlock" /\ pc \in ReadLoop
    [] role = "data"   -> caller = "payload" /\ pc \in {"wait", "hlt", "halted"}
    [] OTHER           -> TRUE
PaceAllows(f) ==
  /\ Pace # "free" => Consumer(f.role)
  /\ Pace = "halted" => pc = "halted" /\ irq = "off"

-----------------------------------------------------------------------------
(* The NIC: a frame goes to the descriptor at RDH if the NIC owns it, and  *)
(* is lost otherwise.  RDT hands over the descriptors up to it.            *)

Fill(f) ==
  IF credits > 0
  THEN /\ dd' = [dd EXCEPT ![rdh] = TRUE]
       /\ buf' = [buf EXCEPT ![rdh] = f]
       /\ rdh' = (rdh + 1) % NUM_RX_DESC
       /\ credits' = credits - 1
       /\ icr' = TRUE
  ELSE UNCHANGED <<nic, icr>>

CreditsAt(rdt) ==
  LET n == (rdt - rdh) % NUM_RX_DESC
  IN  IF n = 0 /\ EqualMeansAll THEN NUM_RX_DESC ELSE n

HostSends ==
  /\ workload <= Len(Payloads)
  /\ LET frames == Stream(Payloads[workload])
         f == frames[sent + 1]
     IN  /\ PaceAllows(f)
         /\ Fill(f)
         /\ IF sent + 1 = Len(frames)
            THEN workload' = workload + 1 /\ sent' = 0
            ELSE sent' = sent + 1 /\ UNCHANGED workload
  /\ UNCHANGED <<noise, rx_tail, dest, header, irq, pc, k, loader, locals, memory>>

NoiseArrives ==
  /\ noise > 0
  /\ noise' = noise - 1
  /\ \E f \in Noise : PaceAllows(f) /\ Fill(f)
  /\ UNCHANGED <<workload, sent, rx_tail, dest, header, irq, pc, k, loader, locals, memory>>

-----------------------------------------------------------------------------
(* network_receive_frame.                                                  *)

(* Another EtherType or a receive error: dropped without a trace.          *)
Ignored(f) == f.kind # "work"

(* Mutant of ToHeader: payload_len is not cut to HEADER_FRAME_SIZE.        *)
ToHeaderUncut(f) ==
  /\ ~Ignored(f) /\ ~hdr_done
  /\ hdr_buf' = f.payload
  /\ hdr_len' = HEADER_FRAME_SIZE
  /\ hdr_read' = 0
  /\ rx_ready' = TRUE
  /\ UNCHANGED <<hdr_done, dest, mem>>

(* Before magic and size are consumed a frame replaces the header buffer.  *)
ToHeader(f) ==
  /\ ~Ignored(f) /\ ~hdr_done
  /\ hdr_buf' = SubSeq(f.payload, 1, HEADER_FRAME_SIZE)
  /\ hdr_len' = HEADER_FRAME_SIZE
  /\ hdr_read' = 0
  /\ rx_ready' = TRUE
  /\ UNCHANGED <<hdr_done, dest, mem>>

(* Mutant of Room: each frame may be as long as the whole transfer.        *)
RoomForWhole == rx_expected

(* Afterwards it is appended at rx_dest, up to rx_expected bytes.          *)
Room == IF rx_received < rx_expected THEN rx_expected - rx_received ELSE 0

(* Mutant of ToHeap: every frame is copied to the start of the page.       *)
ToHeapStart(f) ==
  LET n == IF Len(f.payload) < Room THEN Len(f.payload) ELSE Room
  IN  /\ ~Ignored(f) /\ hdr_done /\ rx_dest # 0
      /\ mem' = [o \in DOMAIN mem \cup 0 .. (n - 1) |->
                   IF o \in 0 .. (n - 1) THEN f.payload[o + 1] ELSE mem[o]]
      /\ rx_received' = rx_received + n
      /\ UNCHANGED <<header, rx_dest, rx_expected>>

ToHeap(f) ==
  LET n == IF Len(f.payload) < Room THEN Len(f.payload) ELSE Room
  IN  /\ ~Ignored(f) /\ hdr_done /\ rx_dest # 0
      /\ mem' = [o \in DOMAIN mem \cup rx_received .. (rx_received + n - 1) |->
                   IF o \in rx_received .. (rx_received + n - 1)
                   THEN f.payload[o - rx_received + 1] ELSE mem[o]]
      /\ rx_received' = rx_received + n
      /\ UNCHANGED <<header, rx_dest, rx_expected>>

Dropped(f) ==
  /\ Ignored(f) \/ (hdr_done /\ rx_dest = 0)
  /\ UNCHANGED <<header, dest, mem>>

network_receive_frame(f) == ToHeader(f) \/ ToHeap(f) \/ Dropped(f)

-----------------------------------------------------------------------------
(* The interrupt: i219_interrupt_handler reads ICR, then drains the ring.  *)
(* hlt ends when an interrupt is taken.                                    *)

IrqEnter ==
  /\ irq = "off" /\ icr /\ pc # "panic"
  /\ irq' = "on"
  /\ icr' = FALSE
  /\ pc' = IF pc # "halted" THEN pc
           ELSE IF caller = "payload" THEN "wait" ELSE "read"
  /\ UNCHANGED <<host, nic, rx_tail, dest, header, k, loader, locals, memory>>

IrqDrain ==
  /\ irq = "on" /\ dd[rx_tail]
  /\ network_receive_frame(buf[rx_tail])
  /\ dd' = [dd EXCEPT ![rx_tail] = FALSE]
  /\ rx_tail' = (rx_tail + 1) % NUM_RX_DESC
  /\ credits' = CreditsAt(rx_tail')
  /\ UNCHANGED <<host, buf, rdh, icr, irq, pc, k, loader, locals, heap, executed>>

(* Mutant of IrqExit: the ring need not be drained, if for while.          *)
IrqExitEarly ==
  /\ irq = "on"
  /\ irq' = "off"
  /\ UNCHANGED <<host, nic, icr, rx_tail, dest, header, pc, k, loader, locals, memory>>

IrqExit ==
  /\ irq = "on" /\ ~dd[rx_tail]
  /\ irq' = "off"
  /\ UNCHANGED <<host, nic, icr, rx_tail, dest, header, pc, k, loader, locals, memory>>

-----------------------------------------------------------------------------
(* kernel_main.  At names the step; the handler is not running.            *)
At(step) == pc = step /\ irq = "off"
Goto(step) == pc' = step /\ k' = 1
Unshared == UNCHANGED <<host, nic, icr, rx_tail, irq>>

(* Mutant of reset_header: hdr_done is left set.                           *)
reset_header_done ==
  /\ At("reset")
  /\ hdr_len' = 0 /\ hdr_read' = 0 /\ rx_ready' = FALSE
  /\ Goto("read")
  /\ caller' = "unlock"
  /\ magic_number' = Zeros(Len(MAGIC_NUMBER))
  /\ UNCHANGED <<number_of_bytes, i>>
  /\ Unshared /\ UNCHANGED <<hdr_done, hdr_buf, dest, locals, memory>>

(* reset_header: four stores. *)
reset_header ==
  /\ At("reset")
  /\ CASE k = 1 -> hdr_done' = FALSE /\ UNCHANGED <<hdr_len, hdr_read, rx_ready>>
       [] k = 2 -> hdr_len' = 0      /\ UNCHANGED <<hdr_done, hdr_read, rx_ready>>
       [] k = 3 -> hdr_read' = 0     /\ UNCHANGED <<hdr_done, hdr_len, rx_ready>>
       [] k = 4 -> rx_ready' = FALSE /\ UNCHANGED <<hdr_done, hdr_len, hdr_read>>
  /\ IF k < 4
     THEN k' = k + 1 /\ UNCHANGED <<pc, loader>>
     ELSE /\ Goto("read")
          /\ caller' = "unlock"
          /\ magic_number' = Zeros(Len(MAGIC_NUMBER))
          /\ UNCHANGED <<number_of_bytes, i>>
  /\ Unshared /\ UNCHANGED <<hdr_buf, dest, locals, memory>>

(* A byte read_ethernet returns goes to unlock's rolling window or into    *)
(* poll_payload_size's little-endian number.                               *)
Return(b) ==
  \/ /\ caller = "unlock"
     /\ magic_number' = Append(Tail(magic_number), b)
     /\ caller' = IF magic_number' = MAGIC_NUMBER THEN "size" ELSE "unlock"
     /\ number_of_bytes' = 0 /\ i' = 0
     /\ Goto("read")
  \/ /\ caller = "size"
     /\ number_of_bytes' = number_of_bytes + b * Weight[i]
     /\ i' = i + 1
     /\ Goto(IF i' = SizeBytes THEN "alloc" ELSE "read")
     /\ UNCHANGED <<caller, magic_number>>

(* read_ethernet: a byte is there, or poll the NIC once and halt.  Once    *)
(* hdr_done is set it returns zeros as soon as any payload was received.   *)
HeaderByte == rx_ready /\ hdr_read < hdr_len
Read ==
  /\ At("read")
  /\ \/ /\ ~hdr_done /\ HeaderByte
        /\ at' = hdr_read
        /\ Goto("take")
        /\ UNCHANGED loader
     \/ /\ hdr_done /\ rx_received > 0
        /\ Return(0)
        /\ UNCHANGED at
     \/ /\ IF hdr_done THEN rx_received = 0 ELSE ~HeaderByte
        /\ Goto("poll")
        /\ UNCHANGED <<loader, at>>
  /\ Unshared /\ UNCHANGED <<dest, header, byte, slot, copied, memory>>

Take ==
  /\ At("take")
  /\ byte' = hdr_buf[at + 1]
  /\ Goto("mark")
  /\ Unshared /\ UNCHANGED <<dest, header, loader, at, slot, copied, memory>>

(* Two stores if the byte is the last of the header, one if it is not.     *)
Mark ==
  /\ At("mark")
  /\ LET last == at + 1 >= HeaderBytes IN
       \/ /\ k = 1
          /\ hdr_read' = at + 1
          /\ IF last THEN k' = 2 /\ UNCHANGED <<pc, loader>> ELSE Return(byte)
          /\ UNCHANGED hdr_done
       \/ /\ k = 2
          /\ hdr_done' = TRUE
          /\ Return(byte)
          /\ UNCHANGED hdr_read
  /\ Unshared /\ UNCHANGED <<rx_ready, hdr_buf, hdr_len, dest, locals, memory>>

(* hlt, a step after the test that led to it.                              *)
Halt ==
  /\ At("hlt")
  /\ Goto("halted")
  /\ Unshared /\ UNCHANGED <<dest, header, loader, locals, memory>>

-----------------------------------------------------------------------------
(* i219_poll_rx called from read_ethernet, with interrupts on: the handler *)
(* may run the same function between any two of these steps.               *)

PollTest ==
  /\ At("poll")
  /\ IF dd[rx_tail] THEN slot' = rx_tail /\ Goto("deliver")
                    ELSE UNCHANGED slot /\ Goto("hlt")
  /\ Unshared /\ UNCHANGED <<dest, header, loader, at, byte, copied, memory>>

(* Only a header frame is copied here: kernel_main polls with hdr_done set *)
(* only while no payload has ever been received, so rx_dest is NULL.       *)
PollDeliver ==
  /\ At("deliver")
  /\ copied' = 0
  /\ Goto(IF Ignored(buf[slot]) \/ hdr_done THEN "retire" ELSE "copy")
  /\ Unshared /\ UNCHANGED <<dest, header, loader, at, byte, slot, memory>>

PollCopy ==
  /\ At("copy")
  /\ hdr_buf' = [hdr_buf EXCEPT ![copied + 1] = buf[slot].payload[copied + 1]]
  /\ copied' = copied + 1
  /\ Goto(IF copied' = HEADER_FRAME_SIZE THEN "publish" ELSE "copy")
  /\ Unshared
  /\ UNCHANGED <<dest, rx_ready, hdr_len, hdr_read, hdr_done, loader, at, byte, slot, memory>>

PollPublish ==
  /\ At("publish")
  /\ CASE k = 1 -> hdr_len' = HEADER_FRAME_SIZE /\ UNCHANGED <<hdr_read, rx_ready>>
       [] k = 2 -> hdr_read' = 0                /\ UNCHANGED <<hdr_len, rx_ready>>
       [] k = 3 -> rx_ready' = TRUE             /\ UNCHANGED <<hdr_len, hdr_read>>
  /\ IF k < 3 THEN k' = k + 1 /\ UNCHANGED pc ELSE Goto("retire")
  /\ Unshared /\ UNCHANGED <<dest, hdr_buf, hdr_done, loader, locals, memory>>

(* rx_tail is read again after network_receive_frame returns.              *)
PollRetire ==
  /\ At("retire")
  /\ slot' = rx_tail
  /\ dd' = [dd EXCEPT ![rx_tail] = FALSE]
  /\ Goto("advance")
  /\ UNCHANGED <<host, buf, rdh, credits, icr, rx_tail, irq>>
  /\ UNCHANGED <<dest, header, loader, at, byte, copied, memory>>

(* rx_tail is stored and RDT written with the same value; rx_tail is not   *)
(* volatile, so that the compiler may do, and does, the second one first.  *)
PollAdvance ==
  LET tail == (slot + 1) % NUM_RX_DESC
      StoreTail == rx_tail' = tail /\ UNCHANGED credits
      WriteRdt == credits' = CreditsAt(tail) /\ UNCHANGED rx_tail
  IN  /\ At("advance")
      /\ \/ k = 1 /\ StoreTail /\ k' = 2 /\ UNCHANGED pc
         \/ k = 1 /\ WriteRdt /\ k' = 3 /\ UNCHANGED pc
         \/ k = 2 /\ WriteRdt /\ Goto("poll")
         \/ k = 3 /\ StoreTail /\ Goto("poll")
      /\ UNCHANGED <<host, dd, buf, rdh, icr, irq, dest, header, loader, locals, memory>>

-----------------------------------------------------------------------------
(* poll_payload, EXECUTING and back to POLLING.                            *)

CeilDiv(a, b) == (a + b - 1) \div b

(* vmm_alloc_huge_page: freshly zeroed pages at HEAP_START. *)
AllocPages ==
  /\ At("alloc")
  /\ heap' = CeilDiv(number_of_bytes, PageBytes)
  /\ mem' = <<>>
  /\ Goto("dest")
  /\ Unshared /\ UNCHANGED <<dest, header, loader, locals, executed>>

(* Mutant of network_set_dest: rx_received keeps the last transfer's count. *)
network_set_dest_counted ==
  /\ At("dest")
  /\ rx_dest' = HEAP_START /\ rx_expected' = number_of_bytes
  /\ Goto("wait") /\ caller' = "payload"
  /\ Unshared
  /\ UNCHANGED <<rx_received, header, magic_number, number_of_bytes, i, locals, memory>>

(* network_set_dest: three stores. *)
network_set_dest ==
  /\ At("dest")
  /\ CASE k = 1 -> rx_dest' = HEAP_START           /\ UNCHANGED <<rx_expected, rx_received>>
       [] k = 2 -> rx_expected' = number_of_bytes  /\ UNCHANGED <<rx_dest, rx_received>>
       [] k = 3 -> rx_received' = 0                /\ UNCHANGED <<rx_dest, rx_expected>>
  /\ IF k < 3 THEN k' = k + 1 /\ UNCHANGED <<pc, caller>>
              ELSE Goto("wait") /\ caller' = "payload"
  /\ Unshared /\ UNCHANGED <<header, magic_number, number_of_bytes, i, locals, memory>>

(* Mutant of poll_payload: it waits for the first byte only.               *)
poll_payload_first ==
  /\ At("wait")
  /\ Goto(IF rx_received <= 0 THEN "hlt" ELSE "exec")
  /\ Unshared /\ UNCHANGED <<dest, header, loader, locals, memory>>

poll_payload ==
  /\ At("wait")
  /\ Goto(IF rx_received < number_of_bytes THEN "hlt" ELSE "exec")
  /\ Unshared /\ UNCHANGED <<dest, header, loader, locals, memory>>

(* The payload is jumped to; with no page mapped the jump itself faults    *)
(* and the exception handler stops the machine.  The workload returns.     *)
Launched == [o \in 1 .. number_of_bytes |-> IF o - 1 \in DOMAIN mem THEN mem[o - 1] ELSE 0]
Execute ==
  /\ At("exec")
  /\ IF heap = 0
     THEN Goto("panic") /\ UNCHANGED executed
     ELSE Goto("free") /\ executed' = Append(executed, Launched)
  /\ Unshared /\ UNCHANGED <<dest, header, loader, locals, heap, mem>>

(* vmm_reset_heap; EXTRACTING does nothing. *)
ResetHeap ==
  /\ At("free")
  /\ heap' = 0
  /\ mem' = <<>>
  /\ Goto("reset")
  /\ Unshared /\ UNCHANGED <<dest, header, loader, locals, executed>>

-----------------------------------------------------------------------------
Init ==
  /\ workload = 1 /\ sent = 0 /\ noise = NoiseBound
  /\ dd = [s \in Slots |-> FALSE] /\ buf = [s \in Slots |-> Work("none", <<>>)]
  /\ rdh = 0 /\ credits = NUM_RX_DESC - 1
  /\ icr = FALSE /\ rx_tail = 0 /\ irq = "off"
  /\ rx_dest = 0 /\ rx_expected = 0 /\ rx_received = 0
  /\ rx_ready = FALSE /\ hdr_buf = Zeros(HEADER_FRAME_SIZE)
  /\ hdr_len = 0 /\ hdr_read = 0 /\ hdr_done = FALSE
  /\ pc = "reset" /\ k = 1
  /\ caller = "unlock" /\ magic_number = Zeros(Len(MAGIC_NUMBER))
  /\ number_of_bytes = 0 /\ i = 0
  /\ at = 0 /\ byte = 0 /\ slot = 0 /\ copied = 0
  /\ heap = 0 /\ mem = <<>> /\ executed = <<>>

Kernel ==
  \/ reset_header \/ Read \/ Take \/ Mark \/ Halt
  \/ PollTest \/ PollDeliver \/ PollCopy \/ PollPublish \/ PollRetire \/ PollAdvance
  \/ AllocPages \/ network_set_dest \/ poll_payload \/ Execute \/ ResetHeap

Interrupt == IrqEnter \/ IrqDrain \/ IrqExit

Next == HostSends \/ NoiseArrives \/ Interrupt \/ Kernel

Spec == Init /\ [][Next]_vars

(* The CPU keeps executing, a raised interrupt is taken, and a host whose  *)
(* turn it is sends.  Noise is never owed.                                 *)
Fairness == WF_vars(Kernel) /\ WF_vars(Interrupt) /\ WF_vars(HostSends)

FairSpec == Spec /\ Fairness

-----------------------------------------------------------------------------
(* Properties.                                                             *)

Steps == ReadLoop \cup {"reset", "take", "mark", "alloc", "dest", "wait", "exec", "free", "panic"}

(* Type invariant; hdr_len and hdr_read stay within hdr_buf although two   *)
(* contexts write them.                                                    *)
TypeOK ==
  /\ workload \in 1 .. (Len(Payloads) + 1) /\ sent \in Nat /\ noise \in 0 .. NoiseBound
  /\ dd \in [Slots -> BOOLEAN] /\ DOMAIN buf = Slots
  /\ rdh \in Slots /\ rx_tail \in Slots /\ credits \in 0 .. NUM_RX_DESC
  /\ icr \in BOOLEAN /\ irq \in {"on", "off"}
  /\ rx_dest \in {0, HEAP_START} /\ rx_expected \in Nat /\ rx_received \in Nat
  /\ rx_ready \in BOOLEAN /\ hdr_done \in BOOLEAN
  /\ hdr_buf \in [1 .. HEADER_FRAME_SIZE -> Bytes]
  /\ hdr_len \in {0, HEADER_FRAME_SIZE} /\ hdr_read \in 0 .. HEADER_FRAME_SIZE
  /\ pc \in Steps /\ k \in 1 .. 4 /\ caller \in {"unlock", "size", "payload"}
  /\ magic_number \in [1 .. Len(MAGIC_NUMBER) -> Bytes]
  /\ number_of_bytes \in 0 .. (Weight[SizeBytes] - 1) /\ i \in 0 .. SizeBytes
  /\ heap \in Nat /\ DOMAIN mem \subseteq Nat

(* Whatever the host and the wire do, in whatever state kernel_main is     *)
(* interrupted, a frame never lands outside the huge pages now mapped: the *)
(* handler's rx_dest, rx_expected and rx_received are from two different   *)
(* transfers while network_set_dest runs.                                  *)
HeapSafe == DOMAIN mem \subseteq 0 .. (heap * PageBytes - 1)

(* The payload is jumped to only when the wire has filled every byte of    *)
(* it, and nothing beyond it.                                              *)
LaunchIsComplete == pc = "exec" => DOMAIN mem = 0 .. (number_of_bytes - 1)

(* A running workload is never overwritten by a frame that comes late.     *)
RunningIsFrozen ==
  [][pc = "free" \/ pc' = "free" => mem' = mem \/ pc' = "reset"]_vars

(* The driver's tail follows the NIC's head: the unread descriptors are    *)
(* those from rx_tail up to RDH, so when kernel_main sleeps none is left   *)
(* behind and the next frame will be written where the driver looks.       *)
RingInStep ==
  (pc = "halted" /\ irq = "off" /\ ~icr) => rx_tail = rdh /\ \A s \in Slots : ~dd[s]

(* What is run is, in order, what the host streamed.                       *)
RunsWhatWasSent == executed = SubSeq(Payloads, 1, Len(executed))

(* Once the host has sent its first header, which is valid, kernel_main    *)
(* stops looking for one and turns to the payload.                         *)
WorkloadAccepted == (workload > 1 \/ sent > 0) ~> (caller = "payload" \/ executed # <<>>)

(* The host has streamed a workload when its last frame is on the wire.    *)
WS == INSTANCE WorkloadService WITH streamed <- workload - 1

(* A streamed workload is executed once, unchanged, before the next, and   *)
(* it is executed.                                                         *)
ImplementsWorkloadService == WS!Spec
=============================================================================
