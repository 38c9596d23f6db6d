--------------------------- MODULE Receive_proof ---------------------------
(* Proofs about Receive for every ring, magic number, size field, page,    *)
(* stream of workloads and foreign frame that ReceiveAssumption allows.    *)
EXTENDS Receive, NatFacts, SequenceTheorems

-----------------------------------------------------------------------------
(* The constants and the frames.                                           *)

(* Lengths and sizes are positive; the header frame holds magic and size.  *)
LEMMA Sizes ==
  /\ NUM_RX_DESC \in Nat \ {0, 1} /\ PageBytes \in Nat \ {0} /\ ChunkBytes \in Nat \ {0}
  /\ SizeBytes \in Nat \ {0} /\ ByteBase \in Nat \ {0, 1} /\ NoiseBound \in Nat
  /\ Len(MAGIC_NUMBER) \in Nat \ {0} /\ MAGIC_NUMBER \in Seq(Bytes)
  /\ HeaderBytes \in Nat \ {0} /\ HEADER_FRAME_SIZE \in Nat \ {0}
  /\ HeaderBytes <= HEADER_FRAME_SIZE /\ HEADER_FRAME_SIZE <= ChunkBytes
<1>1. MAGIC_NUMBER \in Seq(Bytes \ {0}) /\ Len(MAGIC_NUMBER) > 0
  BY ReceiveAssumption
<1>2. Len(MAGIC_NUMBER) \in Nat \ {0}
  BY <1>1
<1>3. MAGIC_NUMBER \in Seq(Bytes)
  <2>1. MAGIC_NUMBER \in [1 .. Len(MAGIC_NUMBER) -> Bytes]
    BY <1>1, LenProperties
  <2> QED BY <2>1, <1>2
<1>4. SizeBytes \in Nat \ {0} /\ HeaderBytes \in Nat \ {0}
  BY <1>2, ReceiveAssumption DEF HeaderBytes
<1> QED
  BY <1>2, <1>3, <1>4, ReceiveAssumption DEF HeaderBytes

(* A buffer of zeros, as reset_header and Ethernet's padding leave it.     *)
LEMMA ZerosFact ==
  ASSUME NEW n \in Nat
  PROVE  /\ Zeros(n) \in [1 .. n -> Bytes] /\ Zeros(n) \in Seq(Bytes) /\ Len(Zeros(n)) = n
<1>1. 0 \in Bytes
  BY Sizes DEF Bytes
<1> QED
  BY <1>1 DEF Zeros

(* The shifts of poll_payload_size, as numbers: powers of ByteBase.  That   *)
(* the recursion defines them is an argument by least counterexample.      *)
IsWeight(w, n) ==
  /\ w \in [0 .. n -> Nat \ {0}]
  /\ \A j \in 0 .. n : w[j] = IF j = 0 THEN 1 ELSE ByteBase * w[j - 1]

(* Weights can be computed up to any number of bytes.                       *)
LEMMA WeightsExist ==
  \A n \in Nat : \E w \in [0 .. n -> Nat \ {0}] : IsWeight(w, n)
<1> DEFINE S == {n \in Nat : ~ \E w \in [0 .. n -> Nat \ {0}] : IsWeight(w, n)}
<1>1. SUFFICES ASSUME S # {} PROVE FALSE
  OBVIOUS
<1> DEFINE m == Min(S)
<1>2. m \in S /\ \A y \in S : m <= y
  <2>1. S \in SUBSET Nat
    OBVIOUS
  <2> HIDE DEF S
  <2> QED BY <1>1, <2>1, MinFact
<1>3. m \in Nat
  <2> HIDE DEF m
  <2> QED BY <1>2
<1>4. m # 0
  <2> DEFINE w == [j \in 0 .. 0 |-> 1]
  <2>1. w \in [0 .. 0 -> Nat \ {0}] /\ IsWeight(w, 0)
    BY DEF IsWeight
  <2>2. 0 \notin S
    BY <2>1
  <2> HIDE DEF S
  <2> QED BY <1>2, <2>2
<1>5. m - 1 \in Nat /\ m - 1 \notin S
  <2> HIDE DEF m, S
  <2> QED BY <1>2, <1>3, <1>4
<1>6. PICK v \in [0 .. (m - 1) -> Nat \ {0}] : IsWeight(v, m - 1)
  BY <1>5
<1> HIDE DEF m
<1> DEFINE w == [j \in 0 .. m |-> IF j = m THEN ByteBase * v[m - 1] ELSE v[j]]
<1>7. w \in [0 .. m -> Nat \ {0}]
  <2> DEFINE z == v[m - 1]
  <2>1. z \in Nat \ {0}
    BY <1>5
  <2> HIDE DEF z
  <2>2. ByteBase * z \in Nat \ {0}
    BY <2>1, Sizes
  <2>3. ByteBase * v[m - 1] \in Nat \ {0}
    BY <2>2 DEF z
  <2>4. \A j \in 0 .. m : j # m => v[j] \in Nat \ {0}
    BY <1>3
  <2> HIDE DEF z
  <2> QED BY <2>3, <2>4
<1>8. ASSUME NEW j \in 0 .. m PROVE w[j] = IF j = 0 THEN 1 ELSE ByteBase * w[j - 1]
  <2>1. CASE j = m
    BY <2>1, <1>3, <1>4
  <2>2. CASE j # m
    <3>1. j \in 0 .. (m - 1) /\ (j = 0 \/ (j - 1 \in 0 .. m /\ j - 1 # m))
      BY <2>2, <1>3
    <3> QED BY <2>2, <3>1, <1>6 DEF IsWeight
  <2> QED BY <2>1, <2>2
<1> HIDE DEF w
<1>9. m \notin S
  BY <1>7, <1>8 DEF IsWeight
<1> QED
  BY <1>2, <1>9

(* Byte j of the announced size counts ByteBase times what byte j - 1 does. *)
LEMMA WeightFact ==
  /\ Weight \in [0 .. SizeBytes -> Nat \ {0}] /\ Weight[0] = 1
  /\ \A j \in 0 .. (SizeBytes - 1) : Weight[j + 1] = ByteBase * Weight[j]
<1> DEFINE Fix(w) == w = [j \in 0 .. SizeBytes |-> IF j = 0 THEN 1 ELSE ByteBase * w[j - 1]]
<1>1. PICK v \in [0 .. SizeBytes -> Nat \ {0}] : IsWeight(v, SizeBytes)
  BY WeightsExist, Sizes
<1>2. Fix(v)
  BY <1>1 DEF IsWeight
<1>3. Fix(Weight)
  <2> HIDE DEF Fix
  <2>1. Weight = CHOOSE w : Fix(w)
    BY DEF Weight, Fix
  <2> QED BY <1>2, <2>1
<1>4. /\ DOMAIN Weight = 0 .. SizeBytes /\ Weight = [j \in 0 .. SizeBytes |-> Weight[j]]
      /\ \A j \in 0 .. SizeBytes : Weight[j] = IF j = 0 THEN 1 ELSE ByteBase * Weight[j - 1]
  <2>1. Weight = [j \in 0 .. SizeBytes |-> IF j = 0 THEN 1 ELSE ByteBase * Weight[j - 1]]
    BY <1>3
  <2> QED BY <2>1
<1> DEFINE S == {j \in 0 .. SizeBytes : Weight[j] # v[j]}
<1>5. S = {}
  <2>1. SUFFICES ASSUME S # {} PROVE FALSE
    OBVIOUS
  <2> DEFINE m == Min(S)
  <2>2. m \in S /\ \A y \in S : m <= y
    <3>1. S \in SUBSET Nat
      OBVIOUS
    <3> HIDE DEF S
    <3> QED BY <2>1, <3>1, MinFact
  <2> HIDE DEF m
  <2>3. m \in 0 .. SizeBytes /\ m # 0
    BY <2>2, <1>1, <1>4, Sizes DEF IsWeight
  <2>4. m - 1 \in 0 .. SizeBytes /\ m - 1 \notin S
    <3> HIDE DEF S
    <3> QED BY <2>2, <2>3, Sizes
  <2>5. Weight[m] = v[m]
    BY <2>3, <2>4, <1>1, <1>4 DEF IsWeight
  <2> QED BY <2>2, <2>5
<1>6. \A j \in 0 .. SizeBytes : Weight[j] = v[j]
  BY <1>5
<1>7. Weight \in [0 .. SizeBytes -> Nat \ {0}]
  BY <1>4, <1>6
<1>8. ASSUME NEW j \in 0 .. (SizeBytes - 1) PROVE Weight[j + 1] = ByteBase * Weight[j]
  <2>1. j + 1 \in 0 .. SizeBytes /\ j + 1 # 0 /\ (j + 1) - 1 = j
    BY Sizes
  <2> QED BY <2>1, <1>4
<1> QED
  BY <1>4, <1>7, <1>8, Sizes

(* What network_receive_frame may rely on: a frame carries at least the    *)
(* bytes of a header, for Ethernet pads shorter ones.                      *)
IsFrame(f) == f.payload \in Seq(Bytes) /\ Len(f.payload) >= HEADER_FRAME_SIZE

(* Every frame of the kernel's own protocol is padded to a header.         *)
LEMMA WorkIsFrame ==
  ASSUME NEW role, NEW s \in Seq(Bytes)
  PROVE  IsFrame(Work(role, s))
<1> DEFINE n == IF Len(s) < HEADER_FRAME_SIZE THEN HEADER_FRAME_SIZE - Len(s) ELSE 0
<1>1. n \in Nat /\ Len(s) \in Nat /\ Len(s) + n >= HEADER_FRAME_SIZE
  BY Sizes
<1> HIDE DEF n
<1>2. Zeros(n) \in Seq(Bytes) /\ Len(Zeros(n)) = n
  BY <1>1, ZerosFact
<1>3. s \o Zeros(n) \in Seq(Bytes) /\ Len(s \o Zeros(n)) = Len(s) + n
  BY <1>2, ConcatProperties
<1>4. Work(role, s).payload = s \o Zeros(n)
  BY DEF Work, Padded, n
<1> QED
  BY <1>1, <1>3, <1>4 DEF IsFrame

(* A piece of a sequence of bytes is one, also when it is empty.           *)
LEMMA PieceOfBytes ==
  ASSUME NEW p \in Seq(Bytes), NEW m \in Nat \ {0}, NEW n \in Nat, n <= Len(p)
  PROVE  SubSeq(p, m, n) \in Seq(Bytes)
<1>1. \A j \in m .. n : p[j] \in Bytes
  BY ElementOfSeq
<1> QED
  BY <1>1

(* The number of data frames of a workload.                                *)
LEMMA ChunksFact ==
  ASSUME NEW p \in Seq(Bytes)
  PROVE  /\ Chunks(p) \in Nat
         /\ Len(p) <= Chunks(p) * ChunkBytes
         /\ Chunks(p) > 0 => (Chunks(p) - 1) * ChunkBytes < Len(p)
<1> DEFINE n == Len(p) + ChunkBytes - 1
           q == n \div ChunkBytes
<1>1. n \in Nat /\ Len(p) \in Nat /\ ChunkBytes \in Nat \ {0}
  BY Sizes
<1>2. q \in Nat /\ ChunkBytes * q <= n /\ n < ChunkBytes * q + ChunkBytes
  BY <1>1, DivNat
<1>3. q = Chunks(p)
  BY DEF Chunks
<1>4. q * ChunkBytes = ChunkBytes * q /\ (q - 1) * ChunkBytes = ChunkBytes * q - ChunkBytes
  BY <1>1, <1>2
<1> HIDE DEF q
<1>5. q * ChunkBytes \in Nat
  BY <1>1, <1>2
<1> QED
  BY <1>1, <1>2, <1>3, <1>4, <1>5

(* A stream is a header and the chunks, each a frame.                      *)
LEMMA StreamFact ==
  ASSUME NEW p \in Seq(Bytes)
  PROVE  /\ Len(Stream(p)) = Chunks(p) + 1
         /\ Stream(p)[1] = Work("header", MAGIC_NUMBER \o LittleEndian(Len(p)))
         /\ \A c \in 1 .. Chunks(p) : Stream(p)[c + 1] = Work("data", Chunk(p, c))
         /\ \A j \in 1 .. (Chunks(p) + 1) : IsFrame(Stream(p)[j])
<1> DEFINE head == Work("header", MAGIC_NUMBER \o LittleEndian(Len(p)))
           data == [c \in 1 .. Chunks(p) |-> Work("data", Chunk(p, c))]
           F == {head} \cup {data[c] : c \in 1 .. Chunks(p)}
<1>1. Chunks(p) \in Nat
  BY ChunksFact
<1>2. data \in Seq(F) /\ <<head>> \in Seq(F) /\ Len(data) = Chunks(p)
  <2>1. \A c \in 1 .. Chunks(p) : data[c] \in F
    OBVIOUS
  <2> HIDE DEF F, head
  <2>2. data \in Seq(F) /\ Len(data) = Chunks(p)
    BY <1>1, <2>1
  <2>3. head \in F
    BY DEF F
  <2>4. <<head>> \in Seq(F)
    BY <2>3
  <2> QED BY <2>2, <2>4
<1>3. Stream(p) = <<head>> \o data
  BY DEF Stream
<1>4. /\ Len(Stream(p)) = Chunks(p) + 1
      /\ Stream(p)[1] = head
      /\ \A c \in 1 .. Chunks(p) : Stream(p)[c + 1] = data[c]
  <2> HIDE DEF data, head, F
  <2>1. Len(<<head>>) = 1 /\ <<head>>[1] = head
    OBVIOUS
  <2>2. /\ Len(<<head>> \o data) = 1 + Len(data)
        /\ \A j \in 1 .. 1 + Len(data) :
              (<<head>> \o data)[j] = IF j <= 1 THEN <<head>>[j] ELSE data[j - 1]
    BY <1>2, <2>1, ConcatProperties
  <2>3. \A c \in 1 .. Chunks(p) : (<<head>> \o data)[c + 1] = data[c]
    BY <1>1, <1>2, <2>2
  <2> QED BY <1>1, <1>2, <1>3, <2>1, <2>2, <2>3
<1>5. IsFrame(head)
  <2>1. LittleEndian(Len(p)) \in Seq(Bytes)
    <3>1. \A j \in 1 .. SizeBytes : (Len(p) \div Weight[j - 1]) % ByteBase \in Bytes
      <4> SUFFICES ASSUME NEW j \in 1 .. SizeBytes
                   PROVE  (Len(p) \div Weight[j - 1]) % ByteBase \in Bytes
        OBVIOUS
      <4>1. Weight[j - 1] \in Nat \ {0}
        BY WeightFact, Sizes
      <4>2. Len(p) \div Weight[j - 1] \in Nat
        BY <4>1, DivNat
      <4>3. \A a \in Nat : a % ByteBase \in 0 .. (ByteBase - 1)
        BY Sizes
      <4> QED BY <4>2, <4>3 DEF Bytes
    <3> QED BY <3>1, Sizes DEF LittleEndian
  <2>2. MAGIC_NUMBER \o LittleEndian(Len(p)) \in Seq(Bytes)
    BY <2>1, Sizes, ConcatProperties
  <2> QED BY <2>2, WorkIsFrame
<1>6. \A c \in 1 .. Chunks(p) : IsFrame(data[c])
  <2> SUFFICES ASSUME NEW c \in 1 .. Chunks(p) PROVE IsFrame(Work("data", Chunk(p, c)))
    OBVIOUS
  <2> DEFINE m == (c - 1) * ChunkBytes + 1
             n == IF c * ChunkBytes < Len(p) THEN c * ChunkBytes ELSE Len(p)
  <2>1. m \in Nat \ {0} /\ n \in Nat /\ n <= Len(p)
    <3>1. c \in Nat /\ c - 1 \in Nat /\ ChunkBytes \in Nat
      BY <1>1, Sizes
    <3>2. c * ChunkBytes \in Nat /\ (c - 1) * ChunkBytes \in Nat
      BY <3>1
    <3> QED BY <3>2
  <2>2. Chunk(p, c) = SubSeq(p, m, n)
    BY DEF Chunk
  <2> HIDE DEF m, n
  <2>3. Chunk(p, c) \in Seq(Bytes)
    BY <2>1, <2>2, PieceOfBytes
  <2> QED BY <2>3, WorkIsFrame
<1>7. ASSUME NEW j \in 1 .. (Chunks(p) + 1) PROVE IsFrame(Stream(p)[j])
  <2>1. j = 1 \/ (j - 1 \in 1 .. Chunks(p) /\ j = (j - 1) + 1)
    BY <1>1
  <2> QED BY <2>1, <1>4, <1>5, <1>6
<1> QED
  BY <1>4, <1>7

-----------------------------------------------------------------------------
(* Which steps touch which part of the state.                              *)

(* Only the wire moves the host along.                                     *)
LEMMA HostAlone ==
  ASSUME [Next]_vars, ~HostSends, ~NoiseArrives
  PROVE  UNCHANGED host
<1>1. CASE UNCHANGED vars
  BY <1>1 DEF vars, host
<1>2. CASE Interrupt
  BY <1>2 DEF Interrupt, IrqEnter, IrqDrain, IrqExit, host
<1>3. CASE reset_header \/ Read \/ Take \/ Mark \/ Halt
  BY <1>3 DEF reset_header, Read, Take, Mark, Halt, Unshared, host
<1>4. CASE PollTest \/ PollDeliver \/ PollCopy \/ PollPublish \/ PollRetire \/ PollAdvance
  BY <1>4 DEF PollTest, PollDeliver, PollCopy, PollPublish, PollRetire, PollAdvance, Unshared, host
<1>5. CASE AllocPages \/ network_set_dest \/ poll_payload \/ Execute \/ ResetHeap
  BY <1>5 DEF AllocPages, network_set_dest, poll_payload, Execute, ResetHeap, Unshared, host
<1> QED
  BY <1>1, <1>2, <1>3, <1>4, <1>5 DEF Next, Kernel

(* The ring and the handler's state change with the wire, in the handler   *)
(* and in i219_poll_rx.                                                    *)
LEMMA RingAlone ==
  ASSUME [Next]_vars, ~HostSends, ~NoiseArrives, ~Interrupt, ~PollRetire, ~PollAdvance
  PROVE  UNCHANGED <<nic, icr, rx_tail, irq>>
<1>1. CASE UNCHANGED vars
  BY <1>1 DEF vars, nic
<1>3. CASE reset_header \/ Read \/ Take \/ Mark \/ Halt
  BY <1>3 DEF reset_header, Read, Take, Mark, Halt, Unshared, nic
<1>4. CASE PollTest \/ PollDeliver \/ PollCopy \/ PollPublish
  BY <1>4 DEF PollTest, PollDeliver, PollCopy, PollPublish, Unshared, nic
<1>5. CASE AllocPages \/ network_set_dest \/ poll_payload \/ Execute \/ ResetHeap
  BY <1>5 DEF AllocPages, network_set_dest, poll_payload, Execute, ResetHeap, Unshared, nic
<1> QED
  BY <1>1, <1>3, <1>4, <1>5 DEF Next, Kernel

(* The destination triple changes when a frame lands and in                *)
(* network_set_dest.                                                       *)
LEMMA DestAlone ==
  ASSUME [Next]_vars, ~IrqDrain, ~network_set_dest
  PROVE  UNCHANGED dest
<1>1. CASE UNCHANGED vars \/ HostSends \/ NoiseArrives \/ IrqEnter \/ IrqExit
  BY <1>1 DEF vars, HostSends, NoiseArrives, IrqEnter, IrqExit, dest
<1>3. CASE reset_header \/ Read \/ Take \/ Mark \/ Halt
  BY <1>3 DEF reset_header, Read, Take, Mark, Halt, dest
<1>4. CASE PollTest \/ PollDeliver \/ PollCopy \/ PollPublish \/ PollRetire \/ PollAdvance
  BY <1>4 DEF PollTest, PollDeliver, PollCopy, PollPublish, PollRetire, PollAdvance, dest
<1>5. CASE AllocPages \/ poll_payload \/ Execute \/ ResetHeap
  BY <1>5 DEF AllocPages, poll_payload, Execute, ResetHeap, dest
<1> QED
  BY <1>1, <1>3, <1>4, <1>5 DEF Next, Interrupt, Kernel

(* The header buffer and its indices change when a frame lands, when       *)
(* kernel_main polls one in, and as kernel_main reads and resets them.     *)
LEMMA HeaderAlone ==
  ASSUME [Next]_vars, ~IrqDrain, ~reset_header, ~Mark, ~PollCopy, ~PollPublish
  PROVE  UNCHANGED header
<1>1. CASE UNCHANGED vars \/ HostSends \/ NoiseArrives \/ IrqEnter \/ IrqExit
  BY <1>1 DEF vars, HostSends, NoiseArrives, IrqEnter, IrqExit, header
<1>3. CASE Read \/ Take \/ Halt
  BY <1>3 DEF Read, Take, Halt, header
<1>4. CASE PollTest \/ PollDeliver \/ PollRetire \/ PollAdvance
  BY <1>4 DEF PollTest, PollDeliver, PollRetire, PollAdvance, header
<1>5. CASE AllocPages \/ network_set_dest \/ poll_payload \/ Execute \/ ResetHeap
  BY <1>5 DEF AllocPages, network_set_dest, poll_payload, Execute, ResetHeap, header
<1> QED
  BY <1>1, <1>3, <1>4, <1>5 DEF Next, Interrupt, Kernel

(* The loader's variables change as a byte is returned to it, when it is   *)
(* called again, and when it goes on to the payload.                       *)
LEMMA LoaderAlone ==
  ASSUME [Next]_vars, ~reset_header, ~Read, ~Mark, ~network_set_dest
  PROVE  UNCHANGED loader
<1>1. CASE UNCHANGED vars \/ HostSends \/ NoiseArrives \/ Interrupt
  BY <1>1 DEF vars, HostSends, NoiseArrives, Interrupt, IrqEnter, IrqDrain, IrqExit, loader
<1>3. CASE Take \/ Halt
  BY <1>3 DEF Take, Halt, loader
<1>4. CASE PollTest \/ PollDeliver \/ PollCopy \/ PollPublish \/ PollRetire \/ PollAdvance
  BY <1>4 DEF PollTest, PollDeliver, PollCopy, PollPublish, PollRetire, PollAdvance, loader
<1>5. CASE AllocPages \/ poll_payload \/ Execute \/ ResetHeap
  BY <1>5 DEF AllocPages, poll_payload, Execute, ResetHeap, loader
<1> QED
  BY <1>1, <1>3, <1>4, <1>5 DEF Next, Kernel

(* The locals of read_ethernet and i219_poll_rx are theirs.                *)
LEMMA LocalsAlone ==
  ASSUME [Next]_vars, ~Read, ~Take, ~PollTest, ~PollDeliver, ~PollCopy, ~PollRetire
  PROVE  UNCHANGED locals
<1>1. CASE UNCHANGED vars \/ HostSends \/ NoiseArrives \/ Interrupt
  BY <1>1 DEF vars, HostSends, NoiseArrives, Interrupt, IrqEnter, IrqDrain, IrqExit, locals
<1>3. CASE reset_header \/ Mark \/ Halt
  BY <1>3 DEF reset_header, Mark, Halt, locals
<1>4. CASE PollPublish \/ PollAdvance
  BY <1>4 DEF PollPublish, PollAdvance, locals
<1>5. CASE AllocPages \/ network_set_dest \/ poll_payload \/ Execute \/ ResetHeap
  BY <1>5 DEF AllocPages, network_set_dest, poll_payload, Execute, ResetHeap, locals
<1> QED
  BY <1>1, <1>3, <1>4, <1>5 DEF Next, Kernel

(* The heap is mapped, written by a frame, and given back.                 *)
LEMMA HeapAlone ==
  ASSUME [Next]_vars, ~IrqDrain, ~AllocPages, ~ResetHeap
  PROVE  UNCHANGED <<heap, mem>>
<1>1. CASE UNCHANGED vars \/ HostSends \/ NoiseArrives \/ IrqEnter \/ IrqExit
  BY <1>1 DEF vars, HostSends, NoiseArrives, IrqEnter, IrqExit, memory
<1>3. CASE reset_header \/ Read \/ Take \/ Mark \/ Halt
  BY <1>3 DEF reset_header, Read, Take, Mark, Halt, memory
<1>4. CASE PollTest \/ PollDeliver \/ PollCopy \/ PollPublish \/ PollRetire \/ PollAdvance
  BY <1>4 DEF PollTest, PollDeliver, PollCopy, PollPublish, PollRetire, PollAdvance, memory
<1>5. CASE network_set_dest \/ poll_payload \/ Execute
  BY <1>5 DEF network_set_dest, poll_payload, Execute, memory
<1> QED
  BY <1>1, <1>3, <1>4, <1>5 DEF Next, Interrupt, Kernel

(* pc, k move with kernel_main, but for the interrupt that ends hlt.       *)
LEMMA ControlAlone ==
  ASSUME [Next]_vars, ~IrqEnter, ~Kernel
  PROVE  UNCHANGED <<pc, k>>
BY DEF Next, vars, HostSends, NoiseArrives, Interrupt, IrqDrain, IrqExit

-----------------------------------------------------------------------------
(* Types.  TypeOK, and what it rests on: that buffers hold frames, that a  *)
(* stream has a frame to send, who calls read_ethernet from where, and the *)
(* ranges of the locals while they are used.                               *)
HostTyped ==
  /\ workload \in 1 .. (Len(Payloads) + 1) /\ sent \in Nat /\ noise \in 0 .. NoiseBound
  /\ workload <= Len(Payloads) => sent < Len(Stream(Payloads[workload]))

RingTyped ==
  /\ dd \in [Slots -> BOOLEAN]
  /\ DOMAIN buf = Slots /\ \A s \in Slots : IsFrame(buf[s])
  /\ rdh \in Slots /\ rx_tail \in Slots /\ credits \in 0 .. NUM_RX_DESC
  /\ icr \in BOOLEAN /\ irq \in {"on", "off"}

DestTyped == rx_dest \in {0, HEAP_START} /\ rx_expected \in Nat /\ rx_received \in Nat

HeaderTyped ==
  /\ rx_ready \in BOOLEAN /\ hdr_done \in BOOLEAN
  /\ hdr_buf \in [1 .. HEADER_FRAME_SIZE -> Bytes]
  /\ hdr_len \in {0, HEADER_FRAME_SIZE} /\ hdr_read \in 0 .. HEADER_FRAME_SIZE

LocalsTyped ==
  /\ at \in Nat /\ (pc \in {"take", "mark"} => at < HEADER_FRAME_SIZE)
  /\ copied \in Nat /\ (pc = "copy" => copied < HEADER_FRAME_SIZE)
  /\ byte \in Bytes /\ slot \in Slots

HeaderSteps ==
  {"read", "take", "mark", "poll", "deliver", "copy", "publish", "retire", "advance"}

ControlTyped ==
  /\ pc \in Steps /\ k \in 1 .. 4 /\ caller \in {"unlock", "size", "payload"}
  /\ pc # "reset" => k <= 3
  /\ pc \in HeaderSteps => caller # "payload"
  /\ pc \in {"alloc", "dest"} => caller = "size"
  /\ pc \in {"wait", "exec", "free", "panic"} => caller = "payload"

NumberTyped ==
  /\ magic_number \in [1 .. Len(MAGIC_NUMBER) -> Bytes]
  /\ i \in 0 .. SizeBytes
  /\ number_of_bytes \in 0 .. (Weight[SizeBytes] - 1)
  /\ caller = "size" => number_of_bytes < Weight[i]
  /\ caller = "size" /\ pc \notin {"alloc", "dest"} => i < SizeBytes

HeapTyped == heap \in Nat /\ DOMAIN mem \subseteq Nat

Typed ==
  /\ HostTyped /\ RingTyped /\ DestTyped /\ HeaderTyped /\ LocalsTyped
  /\ ControlTyped /\ NumberTyped /\ HeapTyped

(* The stream of a workload that is left is one of bytes.                  *)
LEMMA PayloadFact ==
  ASSUME NEW w \in 1 .. Len(Payloads)
  PROVE  Payloads[w] \in Seq(Bytes)
<1>1. Payloads \in Seq(Seq(Bytes))
  BY ReceiveAssumption
<1> QED
  BY <1>1, ElementOfSeq

(* A host always has a frame of the workload it streams.                   *)
LEMMA HostStep ==
  ASSUME HostTyped, [Next]_vars
  PROVE  HostTyped'
<1>1. Len(Payloads) \in Nat
  BY ReceiveAssumption
<1>2. \A w \in 1 .. Len(Payloads) :
         Len(Stream(Payloads[w])) \in Nat /\ 0 < Len(Stream(Payloads[w]))
  BY PayloadFact, StreamFact, ChunksFact
<1>3. CASE HostSends
  <2>1. /\ workload \in 1 .. Len(Payloads)
        /\ noise' = noise
        /\ IF sent + 1 = Len(Stream(Payloads[workload]))
           THEN workload' = workload + 1 /\ sent' = 0
           ELSE sent' = sent + 1 /\ workload' = workload
    BY <1>1, <1>3 DEF HostSends, HostTyped
  <2>2. CASE sent + 1 = Len(Stream(Payloads[workload]))
    <3>1. workload' \in 1 .. (Len(Payloads) + 1) /\ sent' = 0
      BY <1>1, <2>1, <2>2
    <3>2. workload' <= Len(Payloads) => sent' < Len(Stream(Payloads[workload']))
      BY <1>1, <1>2, <3>1
    <3> QED BY <2>1, <3>1, <3>2 DEF HostTyped
  <2>3. CASE sent + 1 # Len(Stream(Payloads[workload]))
    <3>1. sent < Len(Stream(Payloads[workload])) /\ Len(Stream(Payloads[workload])) \in Nat
      BY <2>1, <1>1, <1>2 DEF HostTyped
    <3> QED BY <2>1, <2>3, <3>1 DEF HostTyped
  <2> QED BY <2>2, <2>3
<1>4. CASE NoiseArrives
  BY <1>4, Sizes DEF NoiseArrives, HostTyped
<1>5. CASE UNCHANGED host
  BY <1>5 DEF host, HostTyped
<1> QED
  BY <1>3, <1>4, <1>5, HostAlone

(* The next frame of a stream is one.                                      *)
LEMMA SentIsFrame ==
  ASSUME HostTyped, workload <= Len(Payloads)
  PROVE  IsFrame(Stream(Payloads[workload])[sent + 1])
<1>1. workload \in 1 .. Len(Payloads)
  BY ReceiveAssumption DEF HostTyped
<1>2. Payloads[workload] \in Seq(Bytes)
  BY <1>1, PayloadFact
<1>3. Chunks(Payloads[workload]) \in Nat /\ sent < Chunks(Payloads[workload]) + 1
  BY <1>2, ChunksFact, StreamFact DEF HostTyped
<1>4. sent + 1 \in 1 .. (Chunks(Payloads[workload]) + 1)
  BY <1>3 DEF HostTyped
<1> QED
  BY <1>2, <1>4, StreamFact

(* Ring indices come back to 0 after the last descriptor.                  *)
LEMMA SlotFact ==
  /\ 0 \in Slots
  /\ \A a \in Nat : a % NUM_RX_DESC \in Slots
  /\ \A a \in Int : a % NUM_RX_DESC \in Slots
  /\ \A s \in Slots : s \in Nat
BY Sizes DEF Slots

(* The NIC fills a descriptor of its own.                                  *)
LEMMA FillTyped ==
  ASSUME RingTyped, NEW f, IsFrame(f), Fill(f), UNCHANGED <<rx_tail, irq>>
  PROVE  RingTyped'
<1>1. CASE credits > 0
  <2>1. /\ dd' = [dd EXCEPT ![rdh] = TRUE] /\ buf' = [buf EXCEPT ![rdh] = f]
        /\ rdh' = (rdh + 1) % NUM_RX_DESC /\ credits' = credits - 1 /\ icr' = TRUE
    BY <1>1 DEF Fill
  <2>2. rdh' \in Slots
    BY <2>1, SlotFact DEF RingTyped
  <2>3. credits' \in 0 .. NUM_RX_DESC
    BY <1>1, <2>1, Sizes DEF RingTyped
  <2>4. DOMAIN buf' = Slots /\ \A s \in Slots : IsFrame(buf'[s])
    BY <2>1 DEF RingTyped
  <2> QED BY <2>1, <2>2, <2>3, <2>4 DEF RingTyped, IsFrame
<1>2. CASE ~(credits > 0)
  BY <1>2 DEF Fill, RingTyped, nic, IsFrame
<1> QED
  BY <1>1, <1>2

(* What RDT hands over is at most the ring.                                *)
LEMMA CreditsTyped ==
  ASSUME NEW rdt \in Slots, RingTyped
  PROVE  CreditsAt(rdt) \in 0 .. NUM_RX_DESC
<1>1. (rdt - rdh) % NUM_RX_DESC \in Slots
  BY SlotFact DEF RingTyped
<1> QED
  BY <1>1, Sizes DEF CreditsAt, Slots

(* Every step keeps the ring well-formed.                                  *)
LEMMA RingStep ==
  ASSUME HostTyped, RingTyped, LocalsTyped, [Next]_vars
  PROVE  RingTyped'
<1>1. CASE HostSends
  BY <1>1, SentIsFrame, FillTyped DEF HostSends
<1>2. CASE NoiseArrives
  <2>1. PICK f \in Noise : Fill(f)
    BY <1>2 DEF NoiseArrives
  <2>2. IsFrame(f)
    BY ReceiveAssumption DEF IsFrame
  <2> QED BY <1>2, <2>1, <2>2, FillTyped DEF NoiseArrives
<1>3. CASE IrqEnter \/ IrqExit
  BY <1>3 DEF IrqEnter, IrqExit, RingTyped, nic, IsFrame
<1>4. CASE IrqDrain
  <2>1. /\ dd' = [dd EXCEPT ![rx_tail] = FALSE]
        /\ rx_tail' = (rx_tail + 1) % NUM_RX_DESC
        /\ credits' = CreditsAt(rx_tail')
        /\ UNCHANGED <<buf, rdh, icr, irq>>
    BY <1>4 DEF IrqDrain
  <2>2. rx_tail' \in Slots
    BY <2>1, SlotFact DEF RingTyped
  <2>3. credits' \in 0 .. NUM_RX_DESC
    BY <2>1, <2>2, CreditsTyped
  <2> QED BY <2>1, <2>2, <2>3 DEF RingTyped, IsFrame
<1>5. CASE PollRetire
  BY <1>5 DEF PollRetire, RingTyped, IsFrame
<1>6. CASE PollAdvance
  <2> DEFINE tail == (slot + 1) % NUM_RX_DESC
  <2>1. /\ UNCHANGED <<dd, buf, rdh, icr, irq>>
        /\ rx_tail' \in {rx_tail, tail} /\ credits' \in {credits, CreditsAt(tail)}
    BY <1>6 DEF PollAdvance
  <2>2. tail \in Slots
    BY SlotFact DEF LocalsTyped
  <2> HIDE DEF tail
  <2>3. CreditsAt(tail) \in 0 .. NUM_RX_DESC
    BY <2>2, CreditsTyped
  <2> QED BY <2>1, <2>2, <2>3 DEF RingTyped, IsFrame
<1>7. CASE UNCHANGED <<nic, icr, rx_tail, irq>>
  BY <1>7 DEF nic, RingTyped, IsFrame
<1> QED
  BY <1>1, <1>2, <1>3, <1>4, <1>5, <1>6, <1>7, RingAlone DEF Interrupt

(* A frame that lands leaves the counts natural numbers.                    *)
LEMMA LandTyped ==
  ASSUME NEW f, IsFrame(f), DestTyped, HeapTyped, network_receive_frame(f)
  PROVE  /\ DestTyped' /\ DOMAIN mem' \subseteq Nat
         /\ UNCHANGED <<rx_dest, rx_expected>> /\ rx_received <= rx_received'
<1>1. CASE ToHeader(f) \/ Dropped(f)
  BY <1>1 DEF ToHeader, Dropped, dest, DestTyped, HeapTyped
<1>2. CASE ToHeap(f)
  <2> DEFINE n == IF Len(f.payload) < Room THEN Len(f.payload) ELSE Room
  <2>1. /\ mem' = [o \in DOMAIN mem \cup rx_received .. (rx_received + n - 1) |->
                     IF o \in rx_received .. (rx_received + n - 1)
                     THEN f.payload[o - rx_received + 1] ELSE mem[o]]
        /\ rx_received' = rx_received + n
        /\ UNCHANGED <<header, rx_dest, rx_expected>>
    BY <1>2 DEF ToHeap
  <2>2. n \in Nat
    BY DEF Room, DestTyped, IsFrame
  <2> HIDE DEF n
  <2>3. DOMAIN mem' \subseteq Nat
    BY <2>1, <2>2 DEF DestTyped, HeapTyped
  <2> QED BY <2>1, <2>2, <2>3 DEF DestTyped
<1> QED
  BY <1>1, <1>2 DEF network_receive_frame

(* The slot the handler drains holds a frame.                              *)
LEMMA DrainsFrame ==
  ASSUME RingTyped, IrqDrain
  PROVE  IsFrame(buf[rx_tail]) /\ network_receive_frame(buf[rx_tail])
BY DEF RingTyped, IrqDrain

(* Every step keeps the destination triple well-formed.                    *)
LEMMA DestStep ==
  ASSUME RingTyped, DestTyped, HeapTyped, ControlTyped, NumberTyped, [Next]_vars
  PROVE  DestTyped'
<1>1. CASE IrqDrain
  BY <1>1, DrainsFrame, LandTyped
<1>2. CASE network_set_dest
  <2>1. number_of_bytes \in Nat
    BY DEF NumberTyped
  <2>2. k \in {1, 2, 3}
    BY <1>2 DEF network_set_dest, At, ControlTyped
  <2>3. rx_dest' \in {rx_dest, HEAP_START} /\ rx_expected' \in {rx_expected, number_of_bytes}
        /\ rx_received' \in {rx_received, 0}
    BY <1>2, <2>2 DEF network_set_dest
  <2> QED BY <2>1, <2>3 DEF DestTyped
<1>3. CASE UNCHANGED dest
  BY <1>3 DEF dest, DestTyped
<1> QED
  BY <1>1, <1>2, <1>3, DestAlone

(* ... and what is mapped and written.                                      *)
LEMMA HeapStep ==
  ASSUME RingTyped, DestTyped, HeapTyped, NumberTyped, [Next]_vars
  PROVE  HeapTyped'
<1>1. CASE IrqDrain
  BY <1>1, DrainsFrame, LandTyped DEF IrqDrain, HeapTyped
<1>2. CASE AllocPages
  <2>1. number_of_bytes + PageBytes - 1 \in Nat
    BY Sizes DEF NumberTyped
  <2>2. CeilDiv(number_of_bytes, PageBytes) \in Nat
    BY <2>1, Sizes, DivNat DEF CeilDiv
  <2> QED BY <1>2, <2>2 DEF AllocPages, HeapTyped
<1>3. CASE ResetHeap
  BY <1>3 DEF ResetHeap, HeapTyped
<1>4. CASE UNCHANGED <<heap, mem>>
  BY <1>4 DEF HeapTyped
<1> QED
  BY <1>1, <1>2, <1>3, <1>4, HeapAlone

(* The weights grow, so that a number of i bytes is one of SizeBytes.       *)
LEMMA WeightsGrow ==
  \A j \in 0 .. SizeBytes : Weight[j] <= Weight[SizeBytes]
<1> DEFINE S == {d \in 0 .. SizeBytes : ~(Weight[SizeBytes - d] <= Weight[SizeBytes])}
<1>1. S = {}
  <2>1. SUFFICES ASSUME S # {} PROVE FALSE
    OBVIOUS
  <2> DEFINE m == Min(S)
  <2>2. m \in S /\ \A y \in S : m <= y
    <3>1. S \in SUBSET Nat
      OBVIOUS
    <3> HIDE DEF S
    <3> QED BY <2>1, <3>1, MinFact
  <2> HIDE DEF m
  <2>3. m \in 0 .. SizeBytes /\ m # 0
    BY <2>2, WeightFact, Sizes
  <2>4. m - 1 \in 0 .. SizeBytes /\ m - 1 \notin S
    <3> HIDE DEF S
    <3> QED BY <2>2, <2>3, Sizes
  <2> DEFINE j == SizeBytes - m
  <2>5. j \in 0 .. (SizeBytes - 1) /\ j + 1 = SizeBytes - (m - 1)
    BY <2>3, Sizes
  <2>6. Weight[j + 1] <= Weight[SizeBytes]
    BY <2>4, <2>5
  <2> HIDE DEF j, S
  <2>7. Weight[j] \in Nat \ {0} /\ Weight[j + 1] = ByteBase * Weight[j]
    BY <2>5, WeightFact, Sizes
  <2>8. Weight[SizeBytes] \in Nat
    BY WeightFact, Sizes
  <2>9. ByteBase * Weight[j] \in Nat /\ ByteBase * Weight[j] >= Weight[j]
    <3> DEFINE w == Weight[j]
    <3>1. w \in Nat
      BY <2>7
    <3> HIDE DEF w
    <3>2. ByteBase * w \in Nat /\ ByteBase * w >= w
      BY <3>1, Sizes
    <3> QED BY <3>2 DEF w
  <2>10. Weight[j] <= Weight[SizeBytes]
    BY <2>6, <2>7, <2>8, <2>9
  <2> QED BY <2>2, <2>10 DEF j, S
<1>2. SUFFICES ASSUME NEW j \in 0 .. SizeBytes PROVE Weight[j] <= Weight[SizeBytes]
  OBVIOUS
<1>3. SizeBytes - j \in 0 .. SizeBytes /\ SizeBytes - (SizeBytes - j) = j
  BY Sizes
<1> QED
  BY <1>1, <1>3

(* read_ethernet returns a byte to its caller, which is unlock or          *)
(* poll_payload_size; after the last one the pages are allocated.          *)
LEMMA ReturnTyped ==
  ASSUME ControlTyped, NumberTyped, pc \in {"read", "mark"}, NEW b \in Bytes, Return(b)
  PROVE  ControlTyped' /\ NumberTyped' /\ pc' \in {"read", "alloc"} /\ k' = 1
<1>1. CASE caller = "unlock"
  <2>1. /\ magic_number' = Append(Tail(magic_number), b)
        /\ caller' \in {"size", "unlock"} /\ number_of_bytes' = 0 /\ i' = 0
        /\ pc' = "read" /\ k' = 1
    BY <1>1 DEF Return, Goto
  <2>2. magic_number' \in [1 .. Len(MAGIC_NUMBER) -> Bytes]
    <3> DEFINE n == Len(MAGIC_NUMBER)
               m == magic_number
    <3>1. n \in Nat \ {0} /\ m \in [1 .. n -> Bytes]
      BY Sizes DEF NumberTyped
    <3> HIDE DEF m, n
    <3>2. m \in Seq(Bytes) /\ Len(m) = n
      BY <3>1
    <3>3. Tail(m) \in Seq(Bytes) /\ Len(Tail(m)) = n - 1
      BY <3>1, <3>2
    <3>4. Append(Tail(m), b) \in Seq(Bytes) /\ Len(Append(Tail(m), b)) = n
      BY <3>1, <3>3
    <3>5. Append(Tail(m), b) \in [1 .. n -> Bytes]
      BY <3>4, LenProperties
    <3> QED BY <2>1, <3>5 DEF m, n
  <2>3. /\ Weight[SizeBytes] \in Nat \ {0} /\ Weight[0] = 1 /\ 0 < SizeBytes
        /\ 0 \in 0 .. SizeBytes
    BY WeightFact, Sizes
  <2>4. NumberTyped'
    BY <2>1, <2>2, <2>3 DEF NumberTyped
  <2>5. ControlTyped'
    BY <2>1 DEF ControlTyped, HeaderSteps, Steps, ReadLoop
  <2> QED BY <2>1, <2>4, <2>5
<1>2. CASE caller = "size"
  <2>1. /\ number_of_bytes' = number_of_bytes + b * Weight[i] /\ i' = i + 1
        /\ pc' = IF i' = SizeBytes THEN "alloc" ELSE "read"
        /\ k' = 1 /\ UNCHANGED <<caller, magic_number>>
    BY <1>2 DEF Return, Goto
  <2>2. i \in 0 .. (SizeBytes - 1) /\ i' \in 0 .. SizeBytes
    BY <1>2, <2>1, Sizes DEF NumberTyped
  <2>3. Weight[i] \in Nat \ {0} /\ Weight[i'] = ByteBase * Weight[i]
    BY <2>1, <2>2, WeightFact, Sizes
  <2>4. number_of_bytes' \in Nat /\ number_of_bytes' < Weight[i']
    <3> DEFINE w == Weight[i]
               n == number_of_bytes
    <3>1. w \in Nat \ {0} /\ n \in Nat /\ n < w /\ b \in Nat /\ b <= ByteBase - 1
      BY <1>2, <2>3, Sizes DEF NumberTyped, Bytes
    <3> HIDE DEF w, n
    <3>2. b * w <= (ByteBase - 1) * w /\ b * w \in Nat
      BY <3>1, Sizes
    <3>3. (ByteBase - 1) * w = ByteBase * w - w /\ ByteBase * w \in Nat
      BY <3>1, Sizes
    <3>4. n + b * w \in Nat /\ n + b * w < ByteBase * w
      BY <3>1, <3>2, <3>3
    <3> QED BY <2>1, <2>3, <3>4 DEF w, n
  <2>5. number_of_bytes' <= Weight[SizeBytes] - 1
    <3>1. Weight[i'] <= Weight[SizeBytes]
      BY <2>2, WeightsGrow
    <3>2. Weight[i'] \in Nat /\ Weight[SizeBytes] \in Nat
      BY <2>2, WeightFact, Sizes
    <3> QED BY <2>4, <3>1, <3>2
  <2>6. NumberTyped'
    <3>1. i' # SizeBytes => i' < SizeBytes
      BY <2>2, Sizes
    <3>2. number_of_bytes' \in 0 .. (Weight[SizeBytes] - 1)
      BY <2>4, <2>5, WeightFact, Sizes
    <3> QED BY <1>2, <2>1, <2>2, <2>4, <3>1, <3>2 DEF NumberTyped
  <2>7. ControlTyped'
    BY <1>2, <2>1 DEF ControlTyped, HeaderSteps, Steps, ReadLoop
  <2> QED BY <2>1, <2>6, <2>7
<1> QED
  BY <1>1, <1>2 DEF ControlTyped, HeaderSteps

(* kernel_main goes from step to step, and its callers with it.             *)
LEMMA ControlStep ==
  ASSUME LocalsTyped, ControlTyped, NumberTyped, [Next]_vars
  PROVE  ControlTyped' /\ NumberTyped'
<1>1. 0 \in Bytes /\ byte \in Bytes
  BY Sizes DEF LocalsTyped, Bytes
<1>2. CASE UNCHANGED <<pc, k, caller, magic_number, number_of_bytes, i>>
  BY <1>2 DEF ControlTyped, NumberTyped
<1>3. CASE IrqEnter
  <2>1. /\ pc' = IF pc # "halted" THEN pc ELSE IF caller = "payload" THEN "wait" ELSE "read"
        /\ UNCHANGED <<k, caller, magic_number, number_of_bytes, i>>
    BY <1>3 DEF IrqEnter, loader
  <2>2. ControlTyped'
    BY <2>1 DEF ControlTyped, HeaderSteps, Steps, ReadLoop
  <2>3. NumberTyped'
    BY <2>1 DEF NumberTyped
  <2> QED BY <2>2, <2>3
<1>4. CASE reset_header
  <2>1. CASE k < 4
    BY <1>4, <2>1 DEF reset_header, At, loader, ControlTyped, NumberTyped, HeaderSteps
  <2>2. CASE ~(k < 4)
    <3>1. /\ pc' = "read" /\ k' = 1 /\ caller' = "unlock"
          /\ magic_number' = Zeros(Len(MAGIC_NUMBER)) /\ UNCHANGED <<number_of_bytes, i>>
      BY <1>4, <2>2 DEF reset_header, Goto
    <3>2. magic_number' \in [1 .. Len(MAGIC_NUMBER) -> Bytes]
      BY <3>1, Sizes, ZerosFact
    <3> QED BY <3>1, <3>2 DEF ControlTyped, NumberTyped, HeaderSteps, Steps, ReadLoop
  <2> QED BY <2>1, <2>2
<1>5. CASE Read
  <2>1. CASE Return(0)
    BY <1>1, <1>5, <2>1, ReturnTyped DEF Read, At
  <2>2. CASE ~Return(0)
    <3>1. pc = "read" /\ pc' \in {"take", "poll"} /\ k' = 1 /\ UNCHANGED loader
      BY <1>5, <2>2 DEF Read, Goto, At
    <3> QED BY <3>1 DEF ControlTyped, NumberTyped, HeaderSteps, Steps, ReadLoop, loader
  <2> QED BY <2>1, <2>2
<1>6. CASE Mark
  <2>1. CASE Return(byte)
    BY <1>1, <1>6, <2>1, ReturnTyped DEF Mark, At
  <2>2. CASE ~Return(byte)
    <3>1. k' = 2 /\ UNCHANGED pc /\ UNCHANGED loader
      BY <1>6, <2>2 DEF Mark
    <3> QED BY <3>1 DEF ControlTyped, NumberTyped, loader
  <2> QED BY <2>1, <2>2
<1>7. CASE network_set_dest
  <2>1. CASE k < 3
    BY <1>7, <2>1 DEF network_set_dest, At, ControlTyped, NumberTyped
  <2>2. CASE ~(k < 3)
    <3>1. pc' = "wait" /\ k' = 1 /\ caller' = "payload"
          /\ UNCHANGED <<magic_number, number_of_bytes, i>>
      BY <1>7, <2>2 DEF network_set_dest, Goto
    <3> QED BY <3>1 DEF ControlTyped, NumberTyped, HeaderSteps, Steps, ReadLoop
  <2> QED BY <2>1, <2>2
<1>8. CASE Take \/ Halt
  <2>1. /\ UNCHANGED loader /\ k' = 1
        /\ \/ pc = "take" /\ pc' = "mark"
           \/ pc = "hlt" /\ pc' = "halted"
    BY <1>8 DEF Take, Halt, At, Goto
  <2> QED BY <2>1 DEF loader, ControlTyped, NumberTyped, HeaderSteps, Steps, ReadLoop
<1>9. CASE PollTest \/ PollDeliver \/ PollCopy \/ PollRetire
  <2>1. /\ UNCHANGED loader /\ k' = 1
        /\ pc \in {"poll", "deliver", "copy", "retire"}
        /\ pc' \in {"deliver", "hlt", "retire", "copy", "publish", "advance"}
    BY <1>9 DEF PollTest, PollDeliver, PollCopy, PollRetire, At, Goto
  <2> QED BY <2>1 DEF loader, ControlTyped, NumberTyped, HeaderSteps, Steps, ReadLoop
<1>10. CASE PollPublish
  <2>1. /\ UNCHANGED loader /\ pc = "publish"
        /\ \/ k < 3 /\ k' = k + 1 /\ pc' = pc
           \/ k' = 1 /\ pc' = "retire"
    BY <1>10 DEF PollPublish, At, Goto
  <2> QED BY <2>1 DEF loader, ControlTyped, NumberTyped, HeaderSteps, Steps, ReadLoop
<1>11. CASE PollAdvance
  <2>1. /\ UNCHANGED loader /\ pc = "advance"
        /\ \/ k' \in {2, 3} /\ pc' = pc
           \/ k' = 1 /\ pc' = "poll"
    BY <1>11 DEF PollAdvance, At, Goto
  <2> QED BY <2>1 DEF loader, ControlTyped, NumberTyped, HeaderSteps, Steps, ReadLoop
<1>12. CASE AllocPages \/ poll_payload \/ Execute \/ ResetHeap
  <2>1. /\ UNCHANGED loader /\ k' = 1
        /\ \/ pc = "alloc" /\ pc' = "dest"
           \/ pc = "wait" /\ pc' \in {"hlt", "exec"}
           \/ pc = "exec" /\ pc' \in {"panic", "free"}
           \/ pc = "free" /\ pc' = "reset"
    BY <1>12 DEF AllocPages, poll_payload, Execute, ResetHeap, At, Goto
  <2> QED BY <2>1 DEF loader, ControlTyped, NumberTyped, HeaderSteps, Steps, ReadLoop
<1>13. CASE UNCHANGED vars \/ HostSends \/ NoiseArrives \/ IrqDrain \/ IrqExit
  BY <1>2, <1>13 DEF vars, HostSends, NoiseArrives, IrqDrain, IrqExit, loader
<1> QED
  BY <1>3, <1>4, <1>5, <1>6, <1>7, <1>8, <1>9, <1>10, <1>11, <1>12, <1>13
     DEF Next, Interrupt, Kernel

(* read_ethernet only reads a byte that hdr_buf has, and the copy of a     *)
(* frame ends with the buffer.                                             *)
LEMMA LocalsStep ==
  ASSUME RingTyped, HeaderTyped, LocalsTyped, ControlTyped, [Next]_vars
  PROVE  LocalsTyped'
<1>1. CASE Read
  <2>1. CASE pc' = "take" /\ at' = hdr_read /\ HeaderByte
    <3>1. at' \in Nat /\ at' < HEADER_FRAME_SIZE
      BY <2>1, Sizes DEF HeaderTyped, HeaderByte
    <3> QED BY <1>1, <2>1, <3>1 DEF Read, LocalsTyped
  <2>2. CASE pc' \notin {"take", "mark", "copy"} /\ UNCHANGED at
    BY <1>1, <2>2 DEF Read, LocalsTyped
  <2> QED BY <1>1, <2>1, <2>2 DEF Read, Return, Goto
<1>2. CASE Take
  <2>1. at \in Nat /\ at < HEADER_FRAME_SIZE
    BY <1>2 DEF Take, At, LocalsTyped
  <2>2. byte' \in Bytes
    <3>1. at + 1 \in 1 .. HEADER_FRAME_SIZE
      BY <2>1, Sizes
    <3> QED BY <1>2, <3>1 DEF Take, HeaderTyped
  <2> QED BY <1>2, <2>1, <2>2 DEF Take, Goto, LocalsTyped
<1>3. CASE PollTest \/ PollRetire
  <2>1. slot' \in Slots /\ pc' \notin {"take", "mark", "copy"} /\ UNCHANGED <<at, byte, copied>>
    BY <1>3 DEF PollTest, PollRetire, Goto, RingTyped, LocalsTyped
  <2> QED BY <2>1 DEF LocalsTyped
<1>4. CASE PollDeliver
  <2>1. copied' = 0 /\ pc' \notin {"take", "mark"} /\ UNCHANGED <<at, byte, slot>>
    BY <1>4 DEF PollDeliver, Goto
  <2> QED BY <2>1, Sizes DEF LocalsTyped
<1>5. CASE PollCopy
  <2>1. /\ copied' = copied + 1 /\ copied < HEADER_FRAME_SIZE
        /\ pc' = IF copied' = HEADER_FRAME_SIZE THEN "publish" ELSE "copy"
        /\ UNCHANGED <<at, byte, slot>>
    BY <1>5 DEF PollCopy, At, Goto, LocalsTyped
  <2> QED BY <2>1, Sizes DEF LocalsTyped
<1>6. CASE UNCHANGED locals /\ (pc' \in {"take", "mark", "copy"} => pc' = pc)
  <2>1. UNCHANGED <<at, byte, slot, copied>>
    BY <1>6 DEF locals
  <2> QED BY <1>6, <2>1 DEF LocalsTyped
<1>7. CASE UNCHANGED <<pc, locals>>
  BY <1>6, <1>7
<1>8. CASE IrqEnter
  BY <1>6, <1>8 DEF IrqEnter
<1>9. CASE reset_header \/ Mark \/ Halt \/ PollPublish \/ PollAdvance
  <2>1. pc' \in {"take", "mark", "copy"} => pc' = pc
    BY <1>9 DEF reset_header, Mark, Halt, PollPublish, PollAdvance, Goto, Return
  <2>2. UNCHANGED locals
    BY <1>9 DEF reset_header, Mark, Halt, PollPublish, PollAdvance
  <2> QED BY <1>6, <2>1, <2>2
<1>10. CASE AllocPages \/ network_set_dest \/ poll_payload \/ Execute \/ ResetHeap
  <2>1. pc' \in {"take", "mark", "copy"} => pc' = pc
    BY <1>10 DEF AllocPages, network_set_dest, poll_payload, Execute, ResetHeap, Goto
  <2>2. UNCHANGED locals
    BY <1>10 DEF AllocPages, network_set_dest, poll_payload, Execute, ResetHeap
  <2> QED BY <1>6, <2>1, <2>2
<1>11. CASE UNCHANGED vars \/ HostSends \/ NoiseArrives \/ IrqDrain \/ IrqExit
  BY <1>7, <1>11 DEF vars, HostSends, NoiseArrives, IrqDrain, IrqExit
<1> QED
  BY <1>1, <1>2, <1>3, <1>4, <1>5, <1>8, <1>9, <1>10, <1>11 DEF Next, Interrupt, Kernel

(* Where the header indices are set to.                                    *)
LEMMA HeaderRange ==
  0 \in 0 .. HEADER_FRAME_SIZE /\ 0 \in {0, HEADER_FRAME_SIZE}
  /\ HEADER_FRAME_SIZE \in {0, HEADER_FRAME_SIZE}
BY Sizes

(* The header buffer and its indices: the handler stores a whole header or *)
(* nothing, and kernel_main's own copy of a frame stays in the buffer.     *)
LEMMA HeaderStep ==
  ASSUME RingTyped, HeaderTyped, LocalsTyped, ControlTyped, [Next]_vars
  PROVE  HeaderTyped'
<1>1. CASE IrqDrain
  <2> DEFINE f == buf[rx_tail]
  <2>1. IsFrame(f) /\ network_receive_frame(f)
    BY <1>1, DrainsFrame
  <2> HIDE DEF f
  <2>2. CASE ToHeader(f)
    <3>1. SubSeq(f.payload, 1, HEADER_FRAME_SIZE) \in [1 .. HEADER_FRAME_SIZE -> Bytes]
      <4>1. \A j \in 1 .. HEADER_FRAME_SIZE : f.payload[j] \in Bytes
        BY <2>1, Sizes, ElementOfSeq DEF IsFrame
      <4>2. SubSeq(f.payload, 1, HEADER_FRAME_SIZE)
              = [j \in 1 .. HEADER_FRAME_SIZE |-> f.payload[1 + j - 1]]
        BY Sizes
      <4>3. \A j \in 1 .. HEADER_FRAME_SIZE : 1 + j - 1 = j
        BY Sizes
      <4> QED BY <4>1, <4>2, <4>3
    <3> QED BY <2>2, <3>1, Sizes DEF ToHeader, HeaderTyped
  <2>3. CASE ToHeap(f) \/ Dropped(f)
    BY <2>3 DEF ToHeap, Dropped, header, HeaderTyped
  <2> QED BY <2>1, <2>2, <2>3 DEF network_receive_frame
<1>2. CASE reset_header
  <2>1. k \in {1, 2, 3, 4}
    BY DEF ControlTyped
  <2>2. /\ hdr_done' \in {hdr_done, FALSE} /\ hdr_len' \in {hdr_len, 0}
        /\ hdr_read' \in {hdr_read, 0} /\ rx_ready' \in {rx_ready, FALSE} /\ UNCHANGED hdr_buf
    BY <1>2, <2>1 DEF reset_header
  <2> QED BY <2>2, HeaderRange DEF HeaderTyped
<1>3. CASE Mark
  <2>1. /\ hdr_read' \in {hdr_read, at + 1} /\ hdr_done' \in {hdr_done, TRUE}
        /\ UNCHANGED <<rx_ready, hdr_buf, hdr_len>>
    BY <1>3 DEF Mark
  <2>2. at + 1 \in 0 .. HEADER_FRAME_SIZE
    BY <1>3, Sizes DEF Mark, At, LocalsTyped
  <2> QED BY <2>1, <2>2 DEF HeaderTyped
<1>4. CASE PollCopy
  <2>1. copied \in Nat /\ copied + 1 \in 1 .. HEADER_FRAME_SIZE
    BY <1>4, Sizes DEF PollCopy, At, LocalsTyped
  <2>2. buf[slot].payload[copied + 1] \in Bytes
    <3>1. IsFrame(buf[slot])
      BY DEF RingTyped, LocalsTyped
    <3>2. copied + 1 \in 1 .. Len(buf[slot].payload)
      BY <2>1, <3>1, Sizes DEF IsFrame
    <3> QED BY <3>1, <3>2, ElementOfSeq DEF IsFrame
  <2>3. hdr_buf' = [hdr_buf EXCEPT ![copied + 1] = buf[slot].payload[copied + 1]]
        /\ UNCHANGED <<rx_ready, hdr_len, hdr_read, hdr_done>>
    BY <1>4 DEF PollCopy
  <2> QED BY <2>1, <2>2, <2>3 DEF HeaderTyped
<1>5. CASE PollPublish
  <2>1. k \in {1, 2, 3}
    BY <1>5 DEF PollPublish, At, ControlTyped
  <2>2. /\ hdr_len' \in {hdr_len, HEADER_FRAME_SIZE} /\ hdr_read' \in {hdr_read, 0}
        /\ rx_ready' \in {rx_ready, TRUE} /\ UNCHANGED <<hdr_buf, hdr_done>>
    BY <1>5, <2>1 DEF PollPublish
  <2> QED BY <2>2, HeaderRange DEF HeaderTyped
<1>6. CASE UNCHANGED header
  BY <1>6 DEF header, HeaderTyped
<1> QED
  BY <1>1, <1>2, <1>3, <1>4, <1>5, <1>6, HeaderAlone

(* The machine starts well-typed.                                          *)
LEMMA InitTyped ==
  ASSUME Init PROVE Typed
<1>1. HostTyped
  <2>1. Len(Payloads) \in Nat
    BY ReceiveAssumption
  <2>2. 1 <= Len(Payloads) => 0 < Len(Stream(Payloads[1]))
    <3>1. SUFFICES ASSUME 1 <= Len(Payloads) PROVE 0 < Len(Stream(Payloads[1]))
      OBVIOUS
    <3>2. Payloads[1] \in Seq(Bytes)
      BY <2>1, <3>1, PayloadFact
    <3> QED BY <3>2, StreamFact, ChunksFact
  <2> QED BY <2>1, <2>2, Sizes DEF Init, HostTyped
<1>2. RingTyped
  <2>1. IsFrame(Work("none", <<>>))
    <3>1. <<>> \in Seq(Bytes)
      OBVIOUS
    <3> QED BY <3>1, WorkIsFrame
  <2>2. dd \in [Slots -> BOOLEAN] /\ DOMAIN buf = Slots /\ \A s \in Slots : buf[s] = Work("none", <<>>)
    BY DEF Init
  <2>3. rdh \in Slots /\ rx_tail \in Slots /\ credits \in 0 .. NUM_RX_DESC
    BY SlotFact, Sizes DEF Init
  <2> QED BY <2>1, <2>2, <2>3 DEF Init, RingTyped
<1>3. DestTyped /\ HeapTyped
  BY DEF Init, DestTyped, HeapTyped
<1>4. HeaderTyped
  <2>1. hdr_buf \in [1 .. HEADER_FRAME_SIZE -> Bytes]
    BY Sizes, ZerosFact DEF Init
  <2> QED BY <2>1, HeaderRange DEF Init, HeaderTyped
<1>5. LocalsTyped
  <2>1. 0 \in Bytes
    BY Sizes DEF Bytes
  <2> QED BY <2>1, SlotFact DEF Init, LocalsTyped
<1>6. ControlTyped
  BY DEF Init, ControlTyped, HeaderSteps, Steps
<1>7. NumberTyped
  <2>1. magic_number \in [1 .. Len(MAGIC_NUMBER) -> Bytes]
    BY Sizes, ZerosFact DEF Init
  <2>2. Weight[SizeBytes] \in Nat \ {0}
    BY WeightFact, Sizes
  <2>3. number_of_bytes = 0 /\ i = 0 /\ caller = "unlock"
    BY DEF Init
  <2> QED BY <2>1, <2>2, <2>3, Sizes DEF NumberTyped
<1> QED
  BY <1>1, <1>2, <1>3, <1>4, <1>5, <1>6, <1>7 DEF Typed

(* ... and stays so.                                                       *)
LEMMA NextTyped ==
  ASSUME Typed, [Next]_vars PROVE Typed'
BY HostStep, RingStep, DestStep, HeaderStep, LocalsStep, ControlStep, HeapStep DEF Typed

(* Typed is TypeOK and more.                                               *)
LEMMA TypedIsTypeOK ==
  ASSUME Typed PROVE TypeOK
BY DEF Typed, TypeOK, HostTyped, RingTyped, DestTyped, HeaderTyped, ControlTyped, NumberTyped,
       HeapTyped

(* Whoever writes the header buffer, its indices and the ring, and in      *)
(* whatever order, they stay in range: TypeOK of the any_order run.        *)
THEOREM TypeCorrect == Spec => []TypeOK
<1>1. Init => Typed
  BY InitTyped
<1>2. Typed /\ [Next]_vars => Typed'
  BY NextTyped
<1>3. Typed => TypeOK
  BY TypedIsTypeOK
<1> QED
  BY <1>1, <1>2, <1>3, PTL DEF Spec

-----------------------------------------------------------------------------
(* Where frames land.  While kernel_main waits for the payload, and from   *)
(* the second store of network_set_dest on, a frame has room up to the     *)
(* announced size, which is below the end of the mapped pages; at all      *)
(* other times the last transfer leaves it none.                           *)
Receiving == pc = "wait" \/ (pc \in {"hlt", "halted"} /\ caller = "payload")
Open == Receiving \/ (pc = "dest" /\ k = 3)
Mapped == Receiving \/ pc \in {"dest", "exec", "free"}

Landing ==
  /\ mem = [o \in DOMAIN mem |-> mem[o]]
  /\ ~Open => rx_expected <= rx_received
  /\ Open \/ pc = "exec" => rx_expected = number_of_bytes
  /\ Receiving => 0 .. (rx_received - 1) \subseteq DOMAIN mem
  /\ pc = "exec" => 0 .. (number_of_bytes - 1) \subseteq DOMAIN mem
  /\ Mapped => /\ DOMAIN mem \subseteq 0 .. (number_of_bytes - 1)
               /\ number_of_bytes <= heap * PageBytes
  /\ ~Mapped => DOMAIN mem = {}

(* Rounding the size up to pages loses nothing.                            *)
LEMMA PagesSuffice ==
  ASSUME NEW n \in Nat
  PROVE  CeilDiv(n, PageBytes) \in Nat /\ n <= CeilDiv(n, PageBytes) * PageBytes
<1> DEFINE c == n + PageBytes - 1
           q == c \div PageBytes
<1>1. c \in Nat /\ PageBytes \in Nat \ {0}
  BY Sizes
<1>2. q \in Nat /\ PageBytes * q <= c /\ c < PageBytes * q + PageBytes
  BY <1>1, DivNat
<1>3. q = CeilDiv(n, PageBytes)
  BY DEF CeilDiv
<1>4. q * PageBytes = PageBytes * q /\ PageBytes * q \in Nat
  BY <1>1, <1>2
<1> HIDE DEF q
<1> QED
  BY <1>1, <1>2, <1>3, <1>4

(* A frame that finds no room changes nothing.                             *)
LEMMA NoRoom ==
  ASSUME NEW f, IsFrame(f), DestTyped, network_receive_frame(f),
         mem = [o \in DOMAIN mem |-> mem[o]], rx_expected <= rx_received
  PROVE  UNCHANGED <<dest, mem>>
<1>1. CASE ToHeader(f) \/ Dropped(f)
  BY <1>1 DEF ToHeader, Dropped
<1>2. CASE ToHeap(f)
  <2> DEFINE n == IF Len(f.payload) < Room THEN Len(f.payload) ELSE Room
  <2>1. n = 0
    <3>1. Room = 0 /\ Len(f.payload) \in Nat
      BY DEF Room, DestTyped, IsFrame
    <3> QED BY <3>1
  <2>2. /\ mem' = [o \in DOMAIN mem \cup rx_received .. (rx_received + n - 1) |->
                     IF o \in rx_received .. (rx_received + n - 1)
                     THEN f.payload[o - rx_received + 1] ELSE mem[o]]
        /\ rx_received' = rx_received + n
        /\ UNCHANGED <<header, rx_dest, rx_expected>>
    BY <1>2 DEF ToHeap
  <2> HIDE DEF n
  <2>3. rx_received .. (rx_received + n - 1) = {}
    BY <2>1 DEF DestTyped
  <2>4. mem' = [o \in DOMAIN mem |-> mem[o]]
    BY <2>2, <2>3
  <2> QED BY <2>1, <2>2, <2>4 DEF dest, DestTyped
<1> QED
  BY <1>1, <1>2 DEF network_receive_frame

(* A frame that finds room is appended and does not go past rx_expected.   *)
LEMMA Appended ==
  ASSUME NEW f, IsFrame(f), DestTyped, network_receive_frame(f),
         mem = [o \in DOMAIN mem |-> mem[o]]
  PROVE  /\ mem' = [o \in DOMAIN mem' |-> mem'[o]]
         /\ UNCHANGED <<rx_dest, rx_expected>>
         /\ DOMAIN mem \subseteq DOMAIN mem'
         /\ rx_received .. (rx_received' - 1) \subseteq DOMAIN mem'
         /\ \A o \in DOMAIN mem' : o \in DOMAIN mem \/ (o \in Nat /\ o < rx_expected)
<1>1. CASE ToHeader(f) \/ Dropped(f)
  <2>1. UNCHANGED <<dest, mem>>
    BY <1>1 DEF ToHeader, Dropped
  <2>2. rx_received .. (rx_received - 1) = {}
    BY DEF DestTyped
  <2> QED BY <2>1, <2>2 DEF dest
<1>2. CASE ToHeap(f)
  <2> DEFINE n == IF Len(f.payload) < Room THEN Len(f.payload) ELSE Room
  <2>1. n \in Nat /\ n <= Room /\ Room \in Nat
    BY DEF Room, DestTyped, IsFrame
  <2>2. /\ mem' = [o \in DOMAIN mem \cup rx_received .. (rx_received + n - 1) |->
                     IF o \in rx_received .. (rx_received + n - 1)
                     THEN f.payload[o - rx_received + 1] ELSE mem[o]]
        /\ rx_received' = rx_received + n
        /\ UNCHANGED <<header, rx_dest, rx_expected>>
    BY <1>2 DEF ToHeap
  <2> HIDE DEF n
  <2>3. DOMAIN mem' = DOMAIN mem \cup rx_received .. (rx_received + n - 1)
    BY <2>2
  <2>4. ASSUME NEW o \in rx_received .. (rx_received + n - 1) PROVE o \in Nat /\ o < rx_expected
    BY <2>1, <2>4 DEF Room, DestTyped
  <2>5. mem' = [o \in DOMAIN mem' |-> mem'[o]]
    BY <2>2
  <2>6. rx_received' - 1 = rx_received + n - 1
    BY <2>1, <2>2 DEF DestTyped
  <2>7. rx_received .. (rx_received' - 1) \subseteq DOMAIN mem'
    BY <2>3, <2>6
  <2>8. \A o \in DOMAIN mem' : o \in DOMAIN mem \/ (o \in Nat /\ o < rx_expected)
    BY <2>3, <2>4
  <2> QED BY <2>2, <2>3, <2>5, <2>7, <2>8
<1> QED
  BY <1>1, <1>2 DEF network_receive_frame

(* A frame delivered by the handler, whatever kernel_main is doing.        *)
LEMMA LandingDrain ==
  ASSUME Typed, Landing, IrqDrain
  PROVE  Landing'
<1>1. PICK f : IsFrame(f) /\ network_receive_frame(f)
  BY DrainsFrame DEF Typed
<1>2. UNCHANGED <<pc, k, caller, number_of_bytes, heap>>
  BY DEF IrqDrain, loader
<1>3. (Receiving' <=> Receiving) /\ (Open' <=> Open) /\ (Mapped' <=> Mapped)
  BY <1>2 DEF Receiving, Open, Mapped
<1>4. CASE ~Open
  <2>1. UNCHANGED <<dest, mem>>
    BY <1>1, <1>4, NoRoom DEF Typed, Landing
  <2> QED BY <1>2, <1>3, <2>1 DEF Landing, dest
<1>5. CASE Open
  <2>1. /\ mem' = [o \in DOMAIN mem' |-> mem'[o]]
        /\ UNCHANGED <<rx_dest, rx_expected>>
        /\ DOMAIN mem \subseteq DOMAIN mem'
        /\ rx_received .. (rx_received' - 1) \subseteq DOMAIN mem'
        /\ \A o \in DOMAIN mem' : o \in DOMAIN mem \/ (o \in Nat /\ o < rx_expected)
    BY <1>1, Appended DEF Typed, Landing
  <2>2. rx_expected = number_of_bytes /\ Mapped
    BY <1>5 DEF Landing, Open, Mapped
  <2>3. rx_received \in Nat /\ rx_received' \in Nat /\ number_of_bytes \in Nat
    BY <1>1, LandTyped DEF Typed, DestTyped, NumberTyped
  <2>4. DOMAIN mem' \subseteq 0 .. (number_of_bytes - 1)
    BY <2>1, <2>2, <2>3 DEF Landing
  <2>5. Receiving => 0 .. (rx_received' - 1) \subseteq DOMAIN mem'
    <3>1. \A r \in Nat : \A o \in 0 .. (r - 1) :
             o \in 0 .. (rx_received - 1) \/ o \in rx_received .. (r - 1)
      BY <2>3
    <3>2. \A o \in 0 .. (rx_received' - 1) :
             o \in 0 .. (rx_received - 1) \/ o \in rx_received .. (rx_received' - 1)
      BY <2>3, <3>1
    <3> QED BY <2>1, <3>2 DEF Landing
  <2>6. pc = "exec" => 0 .. (number_of_bytes - 1) \subseteq DOMAIN mem'
    BY <2>1 DEF Landing
  <2> QED BY <1>2, <1>3, <1>5, <2>1, <2>2, <2>4, <2>5, <2>6 DEF Landing
<1> QED
  BY <1>4, <1>5

(* kernel_main outside a transfer: nothing is mapped and nothing lands.    *)
LEMMA LandingIdle ==
  ASSUME Landing, ~Mapped, ~Mapped', UNCHANGED <<dest, heap, mem>>, ~Open
  PROVE  Landing'
<1>1. ~Receiving /\ ~Receiving' /\ pc' # "exec" /\ ~Open'
  BY DEF Mapped, Open, Receiving
<1> QED
  BY <1>1 DEF Landing, dest

(* kernel_main inside one, but for the stores of network_set_dest.         *)
LEMMA LandingSame ==
  ASSUME Landing, UNCHANGED <<dest, heap, mem, number_of_bytes>>, Receiving' <=> Receiving,
         Open' <=> Open, Mapped' <=> Mapped, pc' = "exec" <=> pc = "exec"
  PROVE  Landing'
BY DEF Landing, dest

(* kernel_main's own steps.                                                *)
LEMMA LandingKernel ==
  ASSUME Typed, Landing, Kernel
  PROVE  Landing'
<1>1. number_of_bytes \in Nat /\ rx_received \in Nat /\ rx_expected \in Nat
  BY DEF Typed, NumberTyped, DestTyped
<1>2. CASE reset_header \/ Read \/ Take \/ Mark
  <2>1. UNCHANGED <<dest, heap, mem>>
    BY <1>2 DEF reset_header, Read, Take, Mark, memory
  <2>2. /\ pc \in {"reset", "read", "take", "mark"}
        /\ pc' \in {"reset", "read", "take", "mark", "poll", "alloc"}
    BY <1>2 DEF reset_header, Read, Take, Mark, Return, At, Goto
  <2>3. ~Mapped /\ ~Mapped' /\ ~Open
    BY <2>2 DEF Mapped, Receiving, Open
  <2> QED BY <2>1, <2>3, LandingIdle
<1>3. CASE PollTest \/ PollDeliver \/ PollCopy \/ PollPublish \/ PollRetire \/ PollAdvance
  <2>1. UNCHANGED <<dest, heap, mem, caller>>
    BY <1>3 DEF PollTest, PollDeliver, PollCopy, PollPublish, PollRetire, PollAdvance, memory, loader
  <2>2. /\ pc \in {"poll", "deliver", "copy", "publish", "retire", "advance"}
        /\ pc' \in {"poll", "deliver", "copy", "publish", "retire", "advance", "hlt"}
    BY <1>3 DEF PollTest, PollDeliver, PollCopy, PollPublish, PollRetire, PollAdvance, At, Goto
  <2>3. caller # "payload"
    BY <2>2 DEF Typed, ControlTyped, HeaderSteps
  <2>4. ~Mapped /\ ~Mapped' /\ ~Open
    BY <2>1, <2>2, <2>3 DEF Mapped, Receiving, Open
  <2> QED BY <2>1, <2>4, LandingIdle
<1>4. CASE Halt
  <2>1. /\ UNCHANGED <<dest, heap, mem, caller, number_of_bytes>>
        /\ pc = "hlt" /\ pc' = "halted"
    BY <1>4 DEF Halt, At, Goto, memory, loader
  <2> QED BY <2>1, LandingSame DEF Receiving, Open, Mapped
<1>5. CASE AllocPages
  <2>1. /\ pc = "alloc" /\ pc' = "dest" /\ k' = 1 /\ UNCHANGED <<dest, number_of_bytes>>
        /\ heap' = CeilDiv(number_of_bytes, PageBytes) /\ mem' = <<>>
    BY <1>5 DEF AllocPages, At, Goto, loader
  <2>2. rx_expected <= rx_received
    BY <2>1 DEF Landing, Open, Receiving
  <2>3. number_of_bytes <= heap' * PageBytes
    BY <1>1, <2>1, PagesSuffice
  <2>4. mem' = [o \in DOMAIN mem' |-> mem'[o]] /\ DOMAIN mem' = {}
    BY <2>1
  <2> QED BY <2>1, <2>2, <2>3, <2>4 DEF Landing, Open, Receiving, Mapped, dest
<1>6. CASE network_set_dest
  <2>1. /\ pc = "dest" /\ UNCHANGED <<heap, mem, number_of_bytes>> /\ caller = "size"
        /\ k \in {1, 2, 3}
    BY <1>6 DEF network_set_dest, At, memory, Typed, ControlTyped
  <2>2. ~Receiving /\ (Open <=> k = 3) /\ Mapped
    BY <2>1 DEF Receiving, Open, Mapped
  <2>3. CASE k = 1
    <3>1. /\ rx_expected' = rx_expected /\ rx_received' = rx_received
          /\ k' = 2 /\ pc' = pc /\ caller' = caller
      BY <1>6, <2>3 DEF network_set_dest
    <3> QED BY <2>1, <2>2, <2>3, <3>1 DEF Landing, Receiving, Open, Mapped
  <2>4. CASE k = 2
    <3>1. /\ rx_expected' = number_of_bytes /\ rx_received' = rx_received
          /\ k' = 3 /\ pc' = pc /\ caller' = caller
      BY <1>6, <2>4 DEF network_set_dest
    <3> QED BY <2>1, <2>2, <2>4, <3>1 DEF Landing, Receiving, Open, Mapped
  <2>5. CASE k = 3
    <3>1. /\ rx_expected' = rx_expected /\ rx_received' = 0
          /\ pc' = "wait" /\ caller' = "payload"
      BY <1>6, <2>5 DEF network_set_dest, Goto
    <3>2. Receiving' /\ Open' /\ Mapped' /\ pc' # "exec"
      BY <3>1 DEF Receiving, Open, Mapped
    <3>3. 0 .. (rx_received' - 1) = {}
      BY <3>1
    <3> QED BY <2>1, <2>2, <2>5, <3>1, <3>2, <3>3 DEF Landing
  <2> QED BY <2>1, <2>3, <2>4, <2>5
<1>7. CASE poll_payload
  <2>1. /\ pc = "wait" /\ UNCHANGED <<dest, heap, mem, number_of_bytes, caller>>
        /\ pc' = IF rx_received < number_of_bytes THEN "hlt" ELSE "exec"
    BY <1>7 DEF poll_payload, At, Goto, memory, loader
  <2>2. caller = "payload" /\ Receiving /\ Open /\ Mapped
    BY <2>1 DEF Typed, ControlTyped, Receiving, Open, Mapped
  <2>3. CASE rx_received < number_of_bytes
    <3>1. Receiving' /\ Open' /\ Mapped' /\ pc' # "exec"
      BY <2>1, <2>2, <2>3 DEF Receiving, Open, Mapped
    <3> QED BY <2>1, <2>2, <3>1, LandingSame
  <2>4. CASE ~(rx_received < number_of_bytes)
    <3>1. ~Receiving' /\ ~Open' /\ Mapped' /\ pc' = "exec"
      BY <2>1, <2>4 DEF Receiving, Open, Mapped
    <3>2. number_of_bytes <= rx_received /\ rx_expected = number_of_bytes
      BY <1>1, <2>2, <2>4 DEF Landing
    <3>3. 0 .. (number_of_bytes - 1) \subseteq DOMAIN mem
      <4>1. 0 .. (number_of_bytes - 1) \subseteq 0 .. (rx_received - 1)
        BY <1>1, <3>2
      <4> QED BY <2>2, <4>1 DEF Landing
    <3> QED BY <2>1, <2>2, <3>1, <3>2, <3>3 DEF Landing, dest
  <2> QED BY <2>3, <2>4
<1>8. CASE Execute
  <2>1. /\ pc = "exec" /\ UNCHANGED <<dest, heap, mem, number_of_bytes>>
        /\ pc' = IF heap = 0 THEN "panic" ELSE "free"
    BY <1>8 DEF Execute, At, Goto, loader
  <2>2. ~Receiving /\ ~Open /\ Mapped /\ ~Receiving' /\ ~Open' /\ pc' # "exec"
    BY <2>1 DEF Receiving, Open, Mapped
  <2>3. CASE heap = 0
    <3>1. ~Mapped'
      BY <2>1, <2>3 DEF Mapped, Receiving
    <3>2. heap * PageBytes = 0
      BY <2>3, Sizes
    <3>3. DOMAIN mem = {}
      <4>1. number_of_bytes <= 0
        BY <2>2, <3>2 DEF Landing
      <4>2. 0 .. (number_of_bytes - 1) = {}
        BY <1>1, <4>1
      <4> QED BY <2>2, <4>2 DEF Landing
    <3> QED BY <2>1, <2>2, <3>1, <3>3 DEF Landing, dest
  <2>4. CASE heap # 0
    <3>1. Mapped'
      BY <2>1, <2>4 DEF Mapped
    <3> QED BY <2>1, <2>2, <3>1 DEF Landing, dest
  <2> QED BY <2>3, <2>4
<1>9. CASE ResetHeap
  <2>1. pc = "free" /\ pc' = "reset" /\ UNCHANGED dest /\ mem' = <<>>
    BY <1>9 DEF ResetHeap, At, Goto
  <2>2. ~Receiving' /\ ~Open' /\ ~Mapped' /\ ~Open
    BY <2>1 DEF Receiving, Open, Mapped
  <2>3. mem' = [o \in DOMAIN mem' |-> mem'[o]] /\ DOMAIN mem' = {}
    BY <2>1
  <2> QED BY <2>1, <2>2, <2>3 DEF Landing, dest
<1> QED
  BY <1>2, <1>3, <1>4, <1>5, <1>6, <1>7, <1>8, <1>9 DEF Kernel

(* Every step keeps Landing.                                               *)
LEMMA LandingStep ==
  ASSUME Typed, Landing, [Next]_vars
  PROVE  Landing'
<1>1. CASE UNCHANGED vars \/ HostSends \/ NoiseArrives \/ IrqExit
  <2>1. UNCHANGED <<dest, heap, mem, number_of_bytes, pc, k, caller>>
    BY <1>1 DEF vars, HostSends, NoiseArrives, IrqExit, memory, loader
  <2> QED BY <2>1, LandingSame DEF Receiving, Open, Mapped
<1>2. CASE IrqEnter
  <2>1. /\ UNCHANGED <<dest, heap, mem, number_of_bytes, k, caller>>
        /\ pc' = IF pc # "halted" THEN pc ELSE IF caller = "payload" THEN "wait" ELSE "read"
    BY <1>2 DEF IrqEnter, memory, loader
  <2>2. /\ Receiving' <=> Receiving
        /\ Open' <=> Open
        /\ Mapped' <=> Mapped
        /\ pc' = "exec" <=> pc = "exec"
    BY <2>1 DEF Receiving, Open, Mapped
  <2> QED BY <2>1, <2>2, LandingSame
<1> QED
  BY <1>1, <1>2, LandingDrain, LandingKernel DEF Next, Interrupt

(* Nothing has been sent for when the machine starts.                      *)
LEMMA InitLanding ==
  ASSUME Init PROVE Landing
<1>1. /\ pc = "reset" /\ rx_expected = 0 /\ rx_received = 0 /\ mem = <<>>
  BY DEF Init
<1>2. ~Receiving /\ ~Open /\ ~Mapped
  BY <1>1 DEF Receiving, Open, Mapped
<1>3. mem = [o \in DOMAIN mem |-> mem[o]] /\ DOMAIN mem = {}
  BY <1>1
<1> QED
  BY <1>1, <1>2, <1>3 DEF Landing

(* The inductive invariant behind the properties of the any_order run.     *)
LEMMA Inductive ==
  /\ Init => Typed /\ Landing
  /\ Typed /\ Landing /\ [Next]_vars => Typed' /\ Landing'
BY InitTyped, InitLanding, NextTyped, LandingStep

(* No frame is written outside the mapped huge pages: HeapSafe.            *)
THEOREM HeapIsSafe == Spec => []HeapSafe
<1>1. Typed /\ Landing => HeapSafe
  <2>1. SUFFICES ASSUME Typed, Landing PROVE HeapSafe
    OBVIOUS
  <2>2. heap * PageBytes \in Nat /\ number_of_bytes \in Nat
    BY <2>1, Sizes DEF Typed, HeapTyped, NumberTyped
  <2>3. CASE Mapped
    BY <2>1, <2>2, <2>3 DEF Landing, HeapSafe
  <2>4. CASE ~Mapped
    BY <2>1, <2>4 DEF Landing, HeapSafe
  <2> QED BY <2>3, <2>4
<1> QED
  BY <1>1, Inductive, PTL DEF Spec

(* A payload is jumped to only when every byte of it, and no other, has    *)
(* been written: LaunchIsComplete.                                         *)
THEOREM LaunchComplete == Spec => []LaunchIsComplete
<1>1. Typed /\ Landing => LaunchIsComplete
  BY DEF Landing, LaunchIsComplete, Mapped
<1> QED
  BY <1>1, Inductive, PTL DEF Spec

(* A workload that runs is not overwritten by a late frame:                *)
(* RunningIsFrozen.                                                        *)
THEOREM RunningFrozen == Spec => RunningIsFrozen
<1>1. ASSUME Typed, Landing, [Next]_vars, pc = "free" \/ pc' = "free"
      PROVE  mem' = mem \/ pc' = "reset"
  <2>1. CASE IrqDrain
    <3>1. UNCHANGED pc
      BY <2>1 DEF IrqDrain
    <3>2. ~Open
      BY <1>1, <3>1 DEF Open, Receiving
    <3>3. PICK f : IsFrame(f) /\ network_receive_frame(f)
      BY <1>1, <2>1, DrainsFrame DEF Typed
    <3> QED BY <1>1, <3>2, <3>3, NoRoom DEF Typed, Landing
  <2>2. CASE AllocPages \/ ResetHeap
    BY <1>1, <2>2 DEF AllocPages, ResetHeap, At, Goto
  <2> QED BY <1>1, <2>1, <2>2, HeapAlone
<1>2. Typed /\ Landing /\ [Next]_vars => [pc = "free" \/ pc' = "free" => mem' = mem \/ pc' = "reset"]_vars
  BY <1>1
<1> QED
  BY <1>2, Inductive, PTL DEF Spec, RunningIsFrozen

-----------------------------------------------------------------------------
(* From here on the host waits for the kernel to sleep (Pace = "halted"):  *)
(* the ring stays in step, and what is run is what was streamed, for every *)
(* ring size, stream and number of foreign frames.                         *)

(* Positions in the ring, counted from the driver's tail.                  *)
Slot(j) == (rx_tail + j) % NUM_RX_DESC
Unread == Cardinality({s \in Slots : dd[s]})

(* Position j from a tail is j slots on, around the end of the ring.       *)
LEMMA PositionIs ==
  ASSUME NEW t \in Slots, NEW j \in 0 .. NUM_RX_DESC
  PROVE  /\ (t + j) % NUM_RX_DESC = IF t + j < NUM_RX_DESC THEN t + j ELSE t + j - NUM_RX_DESC
         /\ (t + j) % NUM_RX_DESC \in Slots
BY RingIndex, Sizes DEF Slots

(* Two positions within one turn are different slots.                      *)
LEMMA PositionsDiffer ==
  ASSUME NEW t \in Slots, NEW j \in 0 .. (NUM_RX_DESC - 1), NEW l \in 0 .. (NUM_RX_DESC - 1),
         (t + j) % NUM_RX_DESC = (t + l) % NUM_RX_DESC
  PROVE  j = l
<1> DEFINE n == NUM_RX_DESC
           P(m) == IF t + m < n THEN t + m ELSE t + m - n
<1>1. n \in Nat \ {0} /\ t \in 0 .. (n - 1) /\ j \in 0 .. (n - 1) /\ l \in 0 .. (n - 1)
  BY Sizes DEF Slots
<1>2. j \in 0 .. n /\ l \in 0 .. n
  BY <1>1
<1>3. (t + j) % n = P(j) /\ (t + l) % n = P(l)
  BY <1>2, PositionIs
<1>4. P(j) = P(l)
  BY <1>3
<1> HIDE DEF n
<1> QED
  BY <1>1, <1>4

(* Every slot is a position.                                               *)
LEMMA PositionOf ==
  ASSUME NEW t \in Slots, NEW s \in Slots
  PROVE  \E j \in 0 .. (NUM_RX_DESC - 1) : s = (t + j) % NUM_RX_DESC
<1> DEFINE n == NUM_RX_DESC
           j == IF s >= t THEN s - t ELSE s - t + n
<1>1. n \in Nat \ {0} /\ t \in 0 .. (n - 1) /\ s \in 0 .. (n - 1)
  BY Sizes DEF Slots
<1>2. /\ j \in 0 .. (n - 1) /\ j \in 0 .. n
      /\ s = IF t + j < n THEN t + j ELSE t + j - n
  <2> HIDE DEF n
  <2> QED BY <1>1
<1> HIDE DEF j
<1>3. s = (t + j) % n
  BY <1>2, PositionIs
<1> QED
  BY <1>2, <1>3

(* One descriptor on, the positions move by one.                           *)
LEMMA NextPosition ==
  ASSUME NEW t \in Slots, NEW j \in 0 .. (NUM_RX_DESC - 1)
  PROVE  (((t + 1) % NUM_RX_DESC) + j) % NUM_RX_DESC = (t + (j + 1)) % NUM_RX_DESC
<1> DEFINE n == NUM_RX_DESC
           u == (t + 1) % n
<1>1. n \in Nat \ {0, 1} /\ t \in 0 .. (n - 1) /\ j \in 0 .. (n - 1)
  BY Sizes DEF Slots
<1>2. u \in Slots
  BY <1>1, SlotFact
<1>3. u = IF t + 1 < n THEN t + 1 ELSE t + 1 - n
  <2>1. 1 \in 0 .. n
    BY <1>1
  <2> QED BY <2>1, PositionIs
<1>4. (u + j) % n = IF u + j < n THEN u + j ELSE u + j - n
  <2>1. j \in 0 .. n
    BY <1>1
  <2> HIDE DEF u
  <2> QED BY <1>2, <2>1, PositionIs
<1>5. (t + (j + 1)) % n = IF t + (j + 1) < n THEN t + (j + 1) ELSE t + (j + 1) - n
  <2>1. j + 1 \in 0 .. n
    BY <1>1
  <2> QED BY <2>1, PositionIs
<1> HIDE DEF n, u
<1>6. (u + j) % n = (t + (j + 1)) % n
  BY <1>1, <1>3, <1>4, <1>5
<1> QED
  BY <1>6 DEF n, u

(* What RDT hands over when the tail is c descriptors behind the head.     *)
LEMMA CreditsBehind ==
  ASSUME NEW t \in Slots, NEW c \in 0 .. (NUM_RX_DESC - 1), rdh = (t + c) % NUM_RX_DESC
  PROVE  CreditsAt(t) = IF c > 0 THEN NUM_RX_DESC - c
                        ELSE IF EqualMeansAll THEN NUM_RX_DESC ELSE 0
<1> DEFINE n == NUM_RX_DESC
<1>1. n \in Nat \ {0, 1} /\ t \in 0 .. (n - 1) /\ c \in 0 .. (n - 1)
  BY Sizes DEF Slots
<1>2. rdh = IF t + c < n THEN t + c ELSE t + c - n
  <2>1. c \in 0 .. n
    BY <1>1
  <2> QED BY <2>1, PositionIs
<1>3. (t - rdh) % n = IF c = 0 THEN 0 ELSE n - c
  <2> HIDE DEF n
  <2>1. CASE t + c < n
    <3>1. t - rdh = 0 - c /\ t - rdh \in Int
      BY <1>1, <1>2, <2>1
    <3>2. CASE c = 0
      <4>1. t - rdh \in 0 .. (n - 1) /\ t - rdh = 0
        BY <1>1, <3>1, <3>2
      <4> QED BY <1>1, <3>1, <3>2, <4>1, ModSmall
    <3>3. CASE c # 0
      <4>1. t - rdh \in (0 - n) .. (0 - 1) /\ t - rdh + n = n - c
        BY <1>1, <3>1, <3>3
      <4> QED BY <1>1, <3>1, <3>3, <4>1, ModSmall
    <3> QED BY <3>2, <3>3
  <2>2. CASE ~(t + c < n)
    <3>1. t - rdh = n - c /\ t - rdh \in 0 .. (n - 1) /\ c # 0
      BY <1>1, <1>2, <2>2
    <3>2. t - rdh \in Int
      BY <1>1, <3>1
    <3> QED BY <1>1, <3>1, <3>2, ModSmall
  <2> QED BY <2>1, <2>2
<1>4. CreditsAt(t) = IF (t - rdh) % n = 0 /\ EqualMeansAll THEN n ELSE (t - rdh) % n
  BY DEF CreditsAt
<1> HIDE DEF n
<1>5. CreditsAt(t) = IF c > 0 THEN n - c ELSE IF EqualMeansAll THEN n ELSE 0
  BY <1>1, <1>3, <1>4
<1> QED
  BY <1>5 DEF n

(* The count of unread descriptors goes up and down with their DD bits.    *)
LEMMA UnreadFact ==
  ASSUME dd \in [Slots -> BOOLEAN]
  PROVE  /\ Unread \in 0 .. NUM_RX_DESC
         /\ \A s \in Slots : ~dd[s] /\ dd' = [dd EXCEPT ![s] = TRUE] => Unread' = Unread + 1
         /\ \A s \in Slots : dd[s] /\ dd' = [dd EXCEPT ![s] = FALSE] => Unread' = Unread - 1
<1> DEFINE U == {s \in Slots : dd[s]}
<1>1. IsFiniteSet(Slots) /\ Cardinality(Slots) = NUM_RX_DESC
  BY Sizes, FS_Interval DEF Slots
<1>2. IsFiniteSet(U) /\ Cardinality(U) \in Nat /\ Cardinality(U) <= NUM_RX_DESC
  BY <1>1, FS_Subset, FS_CardinalityType
<1>3. ASSUME NEW s \in Slots, ~dd[s], dd' = [dd EXCEPT ![s] = TRUE]
      PROVE  Unread' = Unread + 1
  <2>1. U' = U \cup {s} /\ s \notin U
    BY <1>3
  <2> QED BY <1>2, <2>1, FS_AddElement DEF Unread
<1>4. ASSUME NEW s \in Slots, dd[s], dd' = [dd EXCEPT ![s] = FALSE]
      PROVE  Unread' = Unread - 1
  <2>1. U' = U \ {s} /\ s \in U
    BY <1>4
  <2> QED BY <1>2, <2>1, FS_RemoveElement DEF Unread
<1> QED
  BY <1>2, <1>3, <1>4, Sizes DEF Unread

-----------------------------------------------------------------------------
(* The ring of a paced host.  The NIC is ahead of the driver by the unread *)
(* descriptors; while the handler is not running and no cause is pending   *)
(* there are none, so that kernel_main's own i219_poll_rx never finds one. *)
RingOk ==
  /\ rdh = Slot(Unread)
  /\ \A j \in 0 .. (NUM_RX_DESC - 1) : dd[Slot(j)] <=> j < Unread
  /\ credits <= NUM_RX_DESC - Unread
  /\ irq = "off" /\ ~icr => Unread = 0

Asleep ==
  /\ icr => pc = "halted" /\ irq = "off"
  /\ irq = "on" => pc \in {"read", "wait"}
  /\ pc \notin {"deliver", "copy", "publish", "retire", "advance"}

(* A frame that arrives becomes the last unread one, or is lost.           *)
LEMMA Arrival ==
  ASSUME RingTyped, RingOk, NEW f, Fill(f), UNCHANGED rx_tail, NEW c, c = Unread
  PROVE  /\ \A j \in 0 .. (NUM_RX_DESC - 1) : Slot(j)' = Slot(j)
         /\ \/ UNCHANGED <<nic, icr>> /\ ~(credits > 0)
            \/ /\ c \in 0 .. (NUM_RX_DESC - 1) /\ Unread' = c + 1
               /\ icr' /\ credits' = credits - 1
               /\ rdh' = (rdh + 1) % NUM_RX_DESC
               /\ \A j \in 0 .. (NUM_RX_DESC - 1) :
                    /\ dd'[Slot(j)] <=> j < c + 1
                    /\ buf'[Slot(j)] = IF j = c THEN f ELSE buf[Slot(j)]
<1> DEFINE n == NUM_RX_DESC
<1>1. n \in Nat \ {0, 1} /\ c \in 0 .. n /\ rx_tail \in Slots /\ Slots = 0 .. (n - 1)
  BY UnreadFact, Sizes DEF RingTyped, Slots
<1>2. \A j \in 0 .. (n - 1) : Slot(j) \in Slots /\ Slot(j)' = Slot(j)
  <2>1. \A j \in 0 .. (n - 1) : rx_tail + j \in Nat
    BY <1>1
  <2> QED BY <2>1, SlotFact DEF Slot
<1>3. CASE ~(credits > 0)
  BY <1>2, <1>3 DEF Fill
<1>4. CASE credits > 0
  <2>1. /\ dd' = [dd EXCEPT ![rdh] = TRUE] /\ buf' = [buf EXCEPT ![rdh] = f]
        /\ rdh' = (rdh + 1) % n /\ credits' = credits - 1 /\ icr' = TRUE
    BY <1>4 DEF Fill
  <2>2. c \in 0 .. (n - 1)
    <3>1. credits <= n - c /\ credits \in Nat
      BY <1>1 DEF RingOk, RingTyped
    <3> HIDE DEF n
    <3> QED BY <1>1, <1>4, <3>1
  <2>3. rdh = Slot(c) /\ rdh \in Slots /\ ~dd[rdh]
    <3>1. rdh = Slot(c) /\ rdh \in Slots
      BY DEF RingOk, RingTyped
    <3>2. dd[Slot(c)] <=> c < c
      BY <2>2 DEF RingOk
    <3> QED BY <1>1, <3>1, <3>2
  <2>4. Unread' = c + 1
    BY <2>1, <2>3, UnreadFact DEF RingTyped
  <2>5. \A j \in 0 .. (n - 1) : Slot(j) = rdh <=> j = c
    BY <1>1, <2>2, <2>3, PositionsDiffer DEF Slot
  <2>6. ASSUME NEW j \in 0 .. (n - 1)
        PROVE  /\ dd'[Slot(j)] <=> j < c + 1
               /\ buf'[Slot(j)] = IF j = c THEN f ELSE buf[Slot(j)]
    <3>1. /\ dd'[Slot(j)] = IF j = c THEN TRUE ELSE dd[Slot(j)]
          /\ buf'[Slot(j)] = IF j = c THEN f ELSE buf[Slot(j)]
      BY <1>2, <2>1, <2>5 DEF RingTyped
    <3>2. dd[Slot(j)] <=> j < c
      BY DEF RingOk
    <3>3. j < c + 1 <=> j = c \/ j < c
      BY <1>1
    <3> QED BY <3>1, <3>2, <3>3
  <2> QED BY <1>2, <2>1, <2>2, <2>4, <2>6
<1> QED
  BY <1>3, <1>4

(* The handler takes the first unread frame; the others move up.           *)
LEMMA Departure ==
  ASSUME RingTyped, RingOk, IrqDrain, NEW c, c = Unread
  PROVE  /\ c \in 1 .. NUM_RX_DESC /\ Unread' = c - 1 /\ rx_tail = Slot(0)
         /\ \A j \in 0 .. (NUM_RX_DESC - 1) : Slot(j)' = Slot(j + 1)
         /\ \A j \in 0 .. (NUM_RX_DESC - 1) : dd'[Slot(j + 1)] <=> j < c - 1
         /\ buf' = buf
<1> DEFINE n == NUM_RX_DESC
<1>1. n \in Nat \ {0, 1} /\ c \in 0 .. n /\ rx_tail \in Slots /\ Slots = 0 .. (n - 1)
  BY UnreadFact, Sizes DEF RingTyped, Slots
<1>2. /\ dd[rx_tail] /\ dd' = [dd EXCEPT ![rx_tail] = FALSE]
      /\ rx_tail' = (rx_tail + 1) % n /\ buf' = buf
  BY DEF IrqDrain
<1>3. rx_tail = Slot(0)
  <2>1. 0 \in 0 .. n /\ rx_tail + 0 = rx_tail /\ rx_tail + 0 < n
    BY <1>1
  <2> QED BY <1>1, <2>1, PositionIs DEF Slot
<1>4. c \in 1 .. n
  <2>1. 0 < c
    <3>1. 0 \in 0 .. (n - 1)
      BY <1>1
    <3> QED BY <1>2, <1>3, <3>1 DEF RingOk
  <2> QED BY <1>1, <2>1
<1>5. Unread' = c - 1
  BY <1>1, <1>2, UnreadFact DEF RingTyped
<1>6. \A j \in 0 .. (n - 1) : Slot(j)' = Slot(j + 1)
  BY <1>1, <1>2, NextPosition DEF Slot
<1>7. ASSUME NEW j \in 0 .. (n - 1) PROVE dd'[Slot(j + 1)] <=> j < c - 1
  <2>1. CASE j = n - 1
    <3>1. Slot(j + 1) = rx_tail
      <4>1. j + 1 = n /\ n \in 0 .. n /\ ~(rx_tail + n < n) /\ rx_tail + n - n = rx_tail
        BY <1>1, <2>1
      <4>2. Slot(n) = IF rx_tail + n < n THEN rx_tail + n ELSE rx_tail + n - n
        BY <1>1, <4>1, PositionIs DEF Slot
      <4> QED BY <4>1, <4>2
    <3>2. ~dd'[Slot(j + 1)]
      BY <1>1, <1>2, <3>1 DEF RingTyped
    <3> QED BY <1>1, <2>1, <3>2
  <2>2. CASE j # n - 1
    <3>1. j + 1 \in 0 .. (n - 1) /\ 0 \in 0 .. (n - 1) /\ j + 1 # 0
      BY <1>1, <2>2
    <3>2. Slot(j + 1) # rx_tail
      BY <1>1, <1>3, <3>1, PositionsDiffer DEF Slot
    <3>3. Slot(j + 1) \in Slots
      <4>1. rx_tail + (j + 1) \in Nat
        BY <1>1, <3>1
      <4> QED BY <4>1, SlotFact DEF Slot
    <3>4. dd'[Slot(j + 1)] = dd[Slot(j + 1)]
      BY <1>2, <3>2, <3>3 DEF RingTyped
    <3>5. dd[Slot(j + 1)] <=> j + 1 < c
      BY <3>1 DEF RingOk
    <3> QED BY <1>1, <3>4, <3>5
  <2> QED BY <2>1, <2>2
<1> QED
  BY <1>2, <1>3, <1>4, <1>5, <1>6, <1>7

(* RingOk speaks of the descriptors, the credits and the interrupt only.   *)
LEMMA RingSame ==
  ASSUME RingOk, UNCHANGED <<nic, rx_tail>>, irq' = "off" /\ ~icr' => Unread = 0
  PROVE  RingOk'
<1>1. UNCHANGED <<dd, rdh, credits, rx_tail>>
  BY DEF nic
<1>2. Unread' = Unread /\ \A j : Slot(j)' = Slot(j)
  BY <1>1 DEF Unread, Slot
<1> QED
  BY <1>1, <1>2 DEF RingOk

(* A paced frame keeps the ring in step.                                   *)
LEMMA RingFill ==
  ASSUME RingTyped, RingOk, Asleep, NEW f, Fill(f), UNCHANGED <<rx_tail, irq, pc>>,
         pc = "halted" /\ irq = "off"
  PROVE  RingOk' /\ Asleep'
<1>1. PICK c : c = Unread
  OBVIOUS
<1> DEFINE n == NUM_RX_DESC
<1>2. n \in Nat \ {0, 1} /\ c \in 0 .. n /\ rx_tail \in Slots /\ Slots = 0 .. (n - 1)
  BY <1>1, UnreadFact, Sizes DEF RingTyped, Slots
<1>3. CASE UNCHANGED <<nic, icr>> /\ ~(credits > 0)
  BY <1>3, RingSame DEF RingOk, Asleep
<1>4. CASE /\ c \in 0 .. (n - 1) /\ Unread' = c + 1
           /\ icr' /\ credits' = credits - 1
           /\ rdh' = (rdh + 1) % n
           /\ \A j \in 0 .. (n - 1) : dd'[Slot(j)] <=> j < c + 1
  <2>1. \A j \in 0 .. n : Slot(j)' = Slot(j)
    BY DEF Slot
  <2>2. rdh' = Slot(c + 1)
    <3>1. rdh = Slot(c) /\ c \in 0 .. n /\ c + 1 \in 0 .. n
      BY <1>1, <1>2, <1>4 DEF RingOk
    <3>2. Slot(c) = IF rx_tail + c < n THEN rx_tail + c ELSE rx_tail + c - n
      BY <1>2, <3>1, PositionIs DEF Slot
    <3>3. Slot(c + 1) = IF rx_tail + (c + 1) < n THEN rx_tail + (c + 1) ELSE rx_tail + (c + 1) - n
      BY <1>2, <3>1, PositionIs DEF Slot
    <3>4. 1 \in 0 .. n /\ rdh \in Slots
      BY <1>2 DEF RingTyped
    <3>5. (rdh + 1) % n = IF rdh + 1 < n THEN rdh + 1 ELSE rdh + 1 - n
      BY <3>4, PositionIs
    <3> HIDE DEF n
    <3> QED BY <1>2, <1>4, <3>1, <3>2, <3>3, <3>5
  <2>3. rdh' = (Slot(c + 1))'
    <3>1. c + 1 \in 0 .. n
      BY <1>2, <1>4
    <3> QED BY <2>1, <2>2, <3>1 DEF Slot
  <2>4. credits \in Nat /\ credits <= n - c
    BY <1>1 DEF RingOk, RingTyped
  <2>5. credits - 1 <= n - (c + 1)
    <3> HIDE DEF n
    <3> QED BY <1>2, <2>4
  <2>6. RingOk'
    <3>1. rdh' = Slot(Unread)'
      BY <1>4, <2>3 DEF Slot
    <3>2. \A j \in 0 .. (n - 1) : (dd[Slot(j)])' <=> j < Unread'
      BY <1>4 DEF Slot
    <3> QED BY <1>4, <2>5, <3>1, <3>2 DEF RingOk
  <2>7. Asleep'
    BY DEF Asleep
  <2> QED BY <2>6, <2>7
<1> QED
  BY <1>1, <1>3, <1>4, Arrival

(* The drained descriptor goes back to the NIC.                            *)
LEMMA RingDrain ==
  ASSUME RingTyped, RingOk, Asleep, IrqDrain
  PROVE  /\ RingOk' /\ Asleep'
         /\ Unread' = 0 => credits' = IF EqualMeansAll THEN NUM_RX_DESC ELSE 0
<1>1. PICK c : c = Unread
  OBVIOUS
<1> DEFINE n == NUM_RX_DESC
<1>2. /\ c \in 1 .. n /\ Unread' = c - 1
      /\ \A j \in 0 .. (n - 1) : Slot(j)' = Slot(j + 1)
      /\ \A j \in 0 .. (n - 1) : dd'[Slot(j + 1)] <=> j < c - 1
  BY <1>1, Departure
<1>3. /\ rx_tail' = (rx_tail + 1) % n /\ credits' = CreditsAt(rx_tail')
      /\ irq = "on" /\ UNCHANGED <<rdh, icr, irq, pc>>
  BY DEF IrqDrain
<1>4. n \in Nat \ {0, 1} /\ c - 1 \in 0 .. (n - 1) /\ rx_tail' \in Slots
  <2>1. rx_tail + 1 \in Nat
    BY SlotFact DEF RingTyped
  <2> QED BY <1>2, <1>3, <2>1, Sizes, SlotFact
<1>5. rdh = (rx_tail' + (c - 1)) % n
  <2>1. Slot(c - 1)' = Slot(c)
    <3>1. (c - 1) + 1 = c
      BY <1>2
    <3> QED BY <1>2, <1>4, <3>1
  <2>2. rdh = Slot(c)
    BY <1>1 DEF RingOk
  <2> QED BY <2>1, <2>2 DEF Slot
<1>6. credits' = IF c - 1 > 0 THEN n - (c - 1) ELSE IF EqualMeansAll THEN n ELSE 0
  <2>1. PICK t \in Slots : t = rx_tail'
    BY <1>4
  <2>2. CreditsAt(t) = IF c - 1 > 0 THEN n - (c - 1) ELSE IF EqualMeansAll THEN n ELSE 0
    BY <1>4, <1>5, <2>1, CreditsBehind
  <2> QED BY <1>3, <2>1, <2>2
<1>7. /\ credits' <= n - (c - 1)
      /\ c - 1 = 0 => credits' = IF EqualMeansAll THEN n ELSE 0
  <2> HIDE DEF n
  <2> QED BY <1>4, <1>6
<1>8. RingOk'
  <2>1. rdh' = Slot(Unread)'
    BY <1>2, <1>3, <1>5 DEF Slot
  <2>2. \A j \in 0 .. (n - 1) : (dd[Slot(j)])' <=> j < Unread'
    <3>1. \A j \in 0 .. (n - 1) : (dd[Slot(j)])' = dd'[Slot(j + 1)]
      BY <1>2
    <3> QED BY <1>2, <3>1
  <2> QED BY <1>2, <1>3, <1>7, <2>1, <2>2 DEF RingOk
<1>9. Asleep'
  BY <1>3 DEF Asleep
<1> QED
  BY <1>2, <1>7, <1>8, <1>9

(* At rest the driver looks at a descriptor that is not done.              *)
LEMMA TailNotDone ==
  ASSUME RingTyped, RingOk
  PROVE  /\ rx_tail = Slot(0)
         /\ Unread = 0 <=> ~dd[rx_tail]
         /\ Unread = 0 => rx_tail = rdh /\ \A s \in Slots : ~dd[s]
<1>1. rx_tail \in Slots /\ Unread \in 0 .. NUM_RX_DESC /\ 0 \in 0 .. (NUM_RX_DESC - 1)
  BY UnreadFact, Sizes DEF RingTyped
<1>2. rx_tail = Slot(0)
  <2>1. 0 \in 0 .. NUM_RX_DESC /\ rx_tail + 0 = rx_tail /\ rx_tail + 0 < NUM_RX_DESC
    BY <1>1, Sizes DEF Slots
  <2> QED BY <1>1, <2>1, PositionIs DEF Slot
<1>3. dd[Slot(0)] <=> 0 < Unread
  BY <1>1 DEF RingOk
<1>4. Unread = 0 => rx_tail = rdh
  BY <1>2 DEF RingOk
<1>5. ASSUME Unread = 0, NEW s \in Slots PROVE ~dd[s]
  <2>1. PICK j \in 0 .. (NUM_RX_DESC - 1) : s = Slot(j)
    BY <1>1, PositionOf DEF Slot
  <2>2. ~(j < Unread)
    BY <1>5, Sizes
  <2> QED BY <2>1, <2>2 DEF RingOk
<1> QED
  BY <1>1, <1>2, <1>3, <1>4, <1>5

(* The paced ring starts in step ...                                       *)
LEMMA PacedInit ==
  ASSUME Init PROVE RingOk /\ Asleep
<1>1. dd = [s \in Slots |-> FALSE] /\ rx_tail = 0 /\ rdh = 0 /\ credits = NUM_RX_DESC - 1
      /\ ~icr /\ irq = "off" /\ pc = "reset"
  BY DEF Init
<1>2. Unread = 0
  <2>1. {s \in Slots : dd[s]} = {}
    BY <1>1
  <2> QED BY <2>1, FS_EmptySet DEF Unread
<1>3. Slot(0) = 0 /\ \A j \in 0 .. (NUM_RX_DESC - 1) : Slot(j) \in Slots
  <2>1. rx_tail \in Slots /\ 0 \in 0 .. NUM_RX_DESC
    BY <1>1, Sizes, SlotFact
  <2>2. \A j \in 0 .. (NUM_RX_DESC - 1) : j \in 0 .. NUM_RX_DESC
    BY Sizes
  <2>3. 0 + 0 = 0 /\ 0 < NUM_RX_DESC
    BY Sizes
  <2> QED BY <1>1, <2>1, <2>2, <2>3, PositionIs DEF Slot
<1>4. \A j \in 0 .. (NUM_RX_DESC - 1) : ~dd[Slot(j)] /\ ~(j < 0)
  BY <1>1, <1>3, Sizes
<1>5. credits <= NUM_RX_DESC - 0
  BY <1>1, Sizes
<1> QED
  BY <1>1, <1>2, <1>3, <1>4, <1>5 DEF RingOk, Asleep

(* ... and every step keeps it so: the handler runs only over a kernel     *)
(* that was asleep, and leaves no frame behind.                            *)
LEMMA PacedStep ==
  ASSUME Pace = "halted", Typed, RingOk, Asleep, [Next]_vars
  PROVE  RingOk' /\ Asleep'
<1>1. RingTyped /\ ControlTyped
  BY DEF Typed
<1>2. CASE HostSends
  <2>1. PICK f : PaceAllows(f) /\ Fill(f)
    BY <1>2 DEF HostSends
  <2>2. pc = "halted" /\ irq = "off"
    BY <2>1 DEF PaceAllows
  <2> QED BY <1>1, <1>2, <2>1, <2>2, RingFill DEF HostSends
<1>3. CASE NoiseArrives
  <2>1. PICK f \in Noise : PaceAllows(f) /\ Fill(f)
    BY <1>3 DEF NoiseArrives
  <2>2. pc = "halted" /\ irq = "off"
    BY <2>1 DEF PaceAllows
  <2> QED BY <1>1, <1>3, <2>1, <2>2, RingFill DEF NoiseArrives
<1>4. CASE IrqEnter
  <2>1. /\ icr /\ irq = "off" /\ irq' = "on" /\ ~icr' /\ UNCHANGED <<nic, rx_tail>>
        /\ pc' = IF pc # "halted" THEN pc ELSE IF caller = "payload" THEN "wait" ELSE "read"
    BY <1>4 DEF IrqEnter
  <2>2. RingOk'
    BY <2>1, RingSame
  <2> QED BY <2>1, <2>2 DEF Asleep
<1>5. CASE IrqDrain
  BY <1>1, <1>5, RingDrain
<1>6. CASE IrqExit
  <2>1. irq' = "off" /\ irq = "on" /\ ~dd[rx_tail] /\ UNCHANGED <<nic, icr, rx_tail, pc>>
    BY <1>6 DEF IrqExit
  <2>2. Unread = 0
    BY <1>1, <2>1, TailNotDone
  <2>3. RingOk'
    BY <2>1, <2>2, RingSame
  <2> QED BY <2>1, <2>3 DEF Asleep
<1>7. CASE UNCHANGED vars
  <2>1. UNCHANGED <<nic, icr, rx_tail, irq, pc>>
    BY <1>7 DEF vars
  <2>2. RingOk'
    BY <2>1, RingSame DEF RingOk
  <2> QED BY <2>1, <2>2 DEF Asleep
<1>8. CASE Kernel
  <2>1. irq = "off" /\ ~PollDeliver /\ ~PollCopy /\ ~PollPublish /\ ~PollRetire /\ ~PollAdvance
    <3>1. irq = "off"
      BY <1>8 DEF Kernel, At, reset_header, Read, Take, Mark, Halt, PollTest, PollDeliver,
         PollCopy, PollPublish, PollRetire, PollAdvance, AllocPages, network_set_dest,
         poll_payload, Execute, ResetHeap
    <3> QED BY <3>1
        DEF Asleep, At, PollDeliver, PollCopy, PollPublish, PollRetire, PollAdvance
  <2>2. pc # "halted" /\ irq' = "off" /\ UNCHANGED <<nic, icr, rx_tail>>
    BY <1>8, <2>1 DEF Kernel, At, reset_header, Read, Take, Mark, Halt, PollTest, AllocPages,
       network_set_dest, poll_payload, Execute, ResetHeap, Unshared
  <2>3. ~icr /\ ~icr' /\ Unread = 0
    BY <1>1, <2>1, <2>2 DEF Asleep, RingOk, RingTyped
  <2>4. RingOk'
    BY <2>2, <2>3, RingSame
  <2>5. pc' \notin {"deliver", "copy", "publish", "retire", "advance"}
    <3>1. CASE PollTest
      <4>1. ~dd[rx_tail]
        BY <1>1, <2>3, TailNotDone
      <4> QED BY <3>1, <4>1 DEF PollTest, Goto
    <3>2. CASE reset_header \/ Read \/ Take \/ Mark \/ Halt
      BY <3>2 DEF reset_header, Read, Take, Mark, Halt, Goto, Return, At
    <3>3. CASE AllocPages \/ network_set_dest \/ poll_payload \/ Execute \/ ResetHeap
      BY <3>3 DEF AllocPages, network_set_dest, poll_payload, Execute, ResetHeap, Goto, At
    <3> QED BY <1>8, <2>1, <3>1, <3>2, <3>3 DEF Kernel
  <2> QED BY <2>2, <2>3, <2>4, <2>5 DEF Asleep
<1> QED
  BY <1>2, <1>3, <1>4, <1>5, <1>6, <1>7, <1>8 DEF Next, Interrupt

(* Paced: the inductive invariant of the ring.                             *)
Paced == Typed /\ RingOk /\ Asleep

(* It is one.                                                              *)
LEMMA PacedInvariant ==
  ASSUME Pace = "halted" PROVE Spec => []Paced
<1>1. Init => Paced
  BY InitTyped, PacedInit DEF Paced
<1>2. Paced /\ [Next]_vars => Paced'
  BY NextTyped, PacedStep DEF Paced
<1> QED
  BY <1>1, <1>2, PTL DEF Spec

(* When kernel_main sleeps the driver's tail is the NIC's head and no      *)
(* received frame is left in the ring, whatever its size.                  *)
THEOREM RingStaysInStep ==
  ASSUME Pace = "halted" PROVE Spec => []RingInStep
<1>1. Paced => RingInStep
  BY TailNotDone DEF Paced, RingOk, RingInStep, Typed
<1> QED
  BY <1>1, PacedInvariant, PTL

(* The other reading of i219.c:180, an empty ring when RDT = RDH: once the *)
(* first burst is drained the NIC never gets a descriptor again.  rx_tail  *)
(* is 0 until then, and not after, for a burst is shorter than the ring.   *)
HasPages == pc \in {"dest", "exec"} \/ Receiving
Starved ==
  /\ rx_received = 0 /\ executed = <<>>
  /\ pc = "exec" => number_of_bytes = 0
  /\ HasPages => heap = CeilDiv(number_of_bytes, PageBytes)
  /\ rx_tail = 0 => /\ credits + Unread = NUM_RX_DESC - 1
                    /\ ~hdr_done /\ ~rx_ready /\ pc \notin {"take", "mark"}
  /\ rx_tail # 0 => /\ Unread = 0 => credits = 0
                    /\ irq = "off" => Unread = 0
  /\ rx_tail + Unread <= NUM_RX_DESC - 1
  /\ Unread > 0 => ~hdr_done

(* Rounded up to pages, no bytes are no pages.                             *)
LEMMA NoPages == CeilDiv(0, PageBytes) = 0
<1>1. PageBytes \in Nat \ {0} /\ 0 + PageBytes - 1 \in 0 .. (PageBytes - 1)
  BY Sizes
<1>2. (0 + PageBytes - 1) \div PageBytes = 0
  <2>1. \A n \in Nat \ {0} : \A a \in 0 .. (n - 1) : a \div n = 0
    OBVIOUS
  <2> QED BY <1>1, <2>1
<1> QED
  BY <1>2 DEF CeilDiv

(* A frame arrives only in the first burst.                                *)
LEMMA StarvedFill ==
  ASSUME Paced, Starved, NEW f, Fill(f), pc = "halted" /\ irq = "off",
         UNCHANGED <<rx_tail, irq, pc, dest, header, loader, memory>>
  PROVE  Starved'
<1>1. PICK c : c = Unread
  OBVIOUS
<1>2. RingTyped /\ RingOk /\ NUM_RX_DESC \in Nat \ {0, 1}
  BY Sizes DEF Paced, Typed
<1>3. c \in Nat /\ credits \in Nat /\ rx_tail \in Nat
  BY <1>1, <1>2, UnreadFact DEF RingTyped, Slots
<1>4. CASE UNCHANGED <<nic, icr>> /\ ~(credits > 0)
  <2>1. UNCHANGED <<credits, Unread>>
    BY <1>4 DEF nic, Unread
  <2> QED BY <2>1 DEF Starved, HasPages, Receiving, dest, header, loader, memory
<1>5. CASE credits > 0 /\ Unread' = c + 1 /\ credits' = credits - 1
  <2>1. rx_tail = 0
    BY <1>3, <1>5 DEF Starved
  <2>2. credits' + Unread' = NUM_RX_DESC - 1 /\ Unread' <= NUM_RX_DESC - 1
    BY <1>1, <1>2, <1>3, <1>5, <2>1 DEF Starved
  <2>3. ~hdr_done'
    BY <2>1 DEF Starved, header
  <2>4. rx_tail' = 0 /\ rx_tail' + Unread' = Unread'
    BY <1>3, <1>5, <2>1
  <2> QED BY <2>2, <2>3, <2>4 DEF Starved, HasPages, Receiving, dest, header, loader, memory
<1>6. credits > 0 => Unread' = c + 1 /\ credits' = credits - 1
  BY <1>1, <1>2, Arrival
<1>7. ~(credits > 0) => UNCHANGED <<nic, icr>>
  BY DEF Fill
<1> QED
  BY <1>4, <1>5, <1>6, <1>7

(* The first burst goes to the header buffer and empties the ring.         *)
LEMMA StarvedDrain ==
  ASSUME EqualMeansAll = FALSE, Paced, Starved, IrqDrain
  PROVE  Starved'
<1>1. PICK c : c = Unread
  OBVIOUS
<1>2. /\ RingTyped /\ RingOk /\ Asleep /\ NUM_RX_DESC \in Nat \ {0, 1}
      /\ rx_tail \in 0 .. (NUM_RX_DESC - 1)
  BY Sizes DEF Paced, Typed, RingTyped, Slots
<1>3. /\ c \in 1 .. NUM_RX_DESC /\ Unread' = c - 1
      /\ Unread' = 0 => credits' = 0
  BY <1>1, <1>2, Departure, RingDrain
<1>4. /\ irq = "on" /\ network_receive_frame(buf[rx_tail])
      /\ rx_tail' = (rx_tail + 1) % NUM_RX_DESC
      /\ UNCHANGED <<irq, pc, loader, heap, executed>>
  BY DEF IrqDrain
<1>5. ~hdr_done /\ rx_tail + c <= NUM_RX_DESC - 1
  BY <1>1, <1>3 DEF Starved
<1>6. UNCHANGED <<hdr_done, dest>>
  BY <1>4, <1>5 DEF network_receive_frame, ToHeader, ToHeap, Dropped, header
<1>7. rx_tail' = rx_tail + 1
  <2>1. rx_tail + 1 \in 0 .. (NUM_RX_DESC - 1)
    BY <1>2, <1>3, <1>5
  <2>2. \A n \in Nat \ {0} : \A a \in 0 .. (n - 1) : a % n = a
    OBVIOUS
  <2> QED BY <1>2, <1>4, <2>1, <2>2
<1>8. rx_tail' # 0 /\ rx_tail' + Unread' <= NUM_RX_DESC - 1
  BY <1>2, <1>3, <1>5, <1>7
<1> QED
  BY <1>3, <1>4, <1>5, <1>6, <1>8 DEF Starved, HasPages, Receiving, loader, dest

(* kernel_main runs only over a ring without an unread frame.              *)
LEMMA StarvedKernel ==
  ASSUME Paced, Starved, Kernel
  PROVE  Starved'
<1>1. /\ Typed /\ RingTyped /\ ControlTyped /\ RingOk /\ Asleep
  BY DEF Paced, Typed
<1>2. irq = "off" /\ pc # "halted" /\ UNCHANGED <<nic, icr, rx_tail, irq>>
  BY <1>1 DEF Kernel, At, reset_header, Read, Take, Mark, Halt, PollTest, PollDeliver,
     PollCopy, PollPublish, PollRetire, PollAdvance, AllocPages, network_set_dest,
     poll_payload, Execute, ResetHeap, Unshared, Asleep
<1>3. Unread = 0 /\ UNCHANGED <<credits, Unread>>
  BY <1>1, <1>2 DEF Asleep, RingOk, RingTyped, nic, Unread
<1>4. /\ rx_received' = 0
      /\ rx_tail = 0 => ~hdr_done' /\ ~rx_ready' /\ pc' \notin {"take", "mark"}
      /\ pc' = "exec" => number_of_bytes' = 0
  <2>1. CASE reset_header
    <3>1. /\ k \in {1, 2, 3, 4} /\ UNCHANGED dest /\ pc' \in {"reset", "read"}
      BY <2>1, <1>1 DEF ControlTyped, reset_header, At, Goto
    <3>2. /\ hdr_done' = hdr_done \/ ~hdr_done'
          /\ rx_ready' = rx_ready \/ ~rx_ready'
      <4>1. CASE k = 1
        BY <2>1, <4>1 DEF reset_header
      <4>2. CASE k = 2
        BY <2>1, <4>2 DEF reset_header
      <4>3. CASE k = 3
        BY <2>1, <4>3 DEF reset_header
      <4>4. CASE k = 4
        BY <2>1, <4>4 DEF reset_header
      <4> QED BY <3>1, <4>1, <4>2, <4>3, <4>4
    <3> QED BY <3>1, <3>2 DEF Starved, dest
  <2>2. CASE Take \/ Mark
    BY <2>2 DEF Starved, Take, Mark, At, Goto, Return, dest, header
  <2>3. CASE Read
    BY <2>3 DEF Starved, Read, HeaderByte, At, Goto, Return, dest, header
  <2>4. CASE Halt \/ AllocPages \/ ResetHeap
    BY <2>4 DEF Starved, Halt, AllocPages, ResetHeap, At, Goto, dest, header
  <2>5. CASE PollTest
    BY <2>5, <1>1, <1>3, TailNotDone DEF Starved, PollTest, At, Goto, dest, header
  <2>6. CASE network_set_dest
    <3>1. k \in {1, 2, 3} /\ UNCHANGED header /\ pc' \in {"dest", "wait"}
      BY <2>6, <1>1 DEF ControlTyped, network_set_dest, At, Goto
    <3>2. rx_received' = 0
      <4>1. CASE k = 1
        BY <2>6, <4>1 DEF network_set_dest, Starved
      <4>2. CASE k = 2
        BY <2>6, <4>2 DEF network_set_dest, Starved
      <4>3. CASE k = 3
        BY <2>6, <4>3 DEF network_set_dest
      <4> QED BY <3>1, <4>1, <4>2, <4>3
    <3> QED BY <3>1, <3>2 DEF Starved, header
  <2>7. CASE poll_payload
    <3>1. number_of_bytes \in Nat
      BY DEF Paced, Typed, NumberTyped
    <3> QED BY <2>7, <3>1 DEF Starved, poll_payload, At, Goto, dest, header, loader
  <2>8. CASE Execute
    BY <2>8 DEF Starved, Execute, At, Goto, dest, header
  <2>9. ~PollDeliver /\ ~PollCopy /\ ~PollPublish /\ ~PollRetire /\ ~PollAdvance
    BY <1>1 DEF Asleep, At, PollDeliver, PollCopy, PollPublish, PollRetire, PollAdvance
  <2> QED BY <2>1, <2>2, <2>3, <2>4, <2>5, <2>6, <2>7, <2>8, <2>9 DEF Kernel
<1>5. executed' = <<>>
  <2>1. CASE Execute
    <3>1. heap = 0
      BY <2>1, NoPages DEF Execute, At, Starved, HasPages
    <3> QED BY <2>1, <3>1 DEF Execute, Starved
  <2>2. CASE ~Execute
    BY <2>2 DEF Starved, Kernel, reset_header, Read, Take, Mark, Halt, PollTest, PollDeliver,
       PollCopy, PollPublish, PollRetire, PollAdvance, AllocPages, network_set_dest,
       poll_payload, ResetHeap, memory
  <2> QED BY <2>1, <2>2
<1>6. (HasPages => heap = CeilDiv(number_of_bytes, PageBytes))'
  BY <1>1, <1>2 DEF Starved, HasPages, Receiving, ControlTyped, HeaderSteps, Kernel, At, Goto, Return,
     reset_header, Read, Take, Mark, Halt, PollTest, PollDeliver, PollCopy, PollPublish,
     PollRetire, PollAdvance, AllocPages, network_set_dest, poll_payload, Execute, ResetHeap,
     loader, memory, Asleep
<1> QED
  BY <1>2, <1>3, <1>4, <1>5, <1>6 DEF Starved

(* With such a NIC no byte of any payload is ever received and no workload *)
(* is ever run, whatever the host streams and however large the ring.      *)
THEOREM EmptyRingStarves ==
  ASSUME Pace = "halted", EqualMeansAll = FALSE
  PROVE  Spec => [](rx_received = 0 /\ executed = <<>>)
<1>1. Init => Starved
  <2> SUFFICES ASSUME Init PROVE Starved
    OBVIOUS
  <2>1. Unread = 0
    <3>1. {s \in Slots : dd[s]} = {}
      BY DEF Init
    <3> QED BY <3>1, FS_EmptySet DEF Unread
  <2> QED BY <2>1, Sizes DEF Init, Starved, HasPages, Receiving
<1>2. Paced /\ Starved /\ [Next]_vars => Starved'
  <2> SUFFICES ASSUME Paced, Starved, [Next]_vars PROVE Starved'
    OBVIOUS
  <2>1. CASE HostSends
    <3>1. PICK f : PaceAllows(f) /\ Fill(f)
      BY <2>1 DEF HostSends
    <3> QED BY <2>1, <3>1, StarvedFill DEF HostSends, PaceAllows
  <2>2. CASE NoiseArrives
    <3>1. PICK f \in Noise : PaceAllows(f) /\ Fill(f)
      BY <2>2 DEF NoiseArrives
    <3> QED BY <2>2, <3>1, StarvedFill DEF NoiseArrives, PaceAllows
  <2>3. CASE IrqDrain
    BY <2>3, StarvedDrain
  <2>4. CASE Kernel
    BY <2>4, StarvedKernel
  <2>5. CASE IrqEnter \/ IrqExit \/ UNCHANGED vars
    <3>1. /\ UNCHANGED <<nic, rx_tail, dest, header, loader, memory>>
          /\ irq' = "off" => irq = "off" \/ Unread = 0
      <4>1. RingTyped /\ RingOk
        BY DEF Paced, Typed
      <4> QED BY <2>5, <4>1, TailNotDone DEF IrqEnter, IrqExit, vars
    <3>2. \/ pc' = pc
          \/ pc = "halted" /\ pc' = IF caller = "payload" THEN "wait" ELSE "read"
      BY <2>5 DEF IrqEnter, IrqExit, vars
    <3>3. UNCHANGED <<credits, Unread>>
      BY <3>1 DEF nic, Unread
    <3> QED BY <3>1, <3>2, <3>3 DEF Starved, HasPages, Receiving, dest, header, loader, memory
  <2> QED BY <2>1, <2>2, <2>3, <2>4, <2>5 DEF Next, Interrupt
<1>3. Starved => rx_received = 0 /\ executed = <<>>
  BY DEF Starved
<1> QED
  BY <1>1, <1>2, <1>3, PacedInvariant, PTL DEF Spec

-----------------------------------------------------------------------------
(* One workload after another.  The wire carries foreign frames, all of    *)
(* which the kernel ignores, and workloads whose sizes the header can say. *)
ModestHost ==
  /\ Pace = "halted"
  /\ \A f \in Noise : Ignored(f)
  /\ \A w \in 1 .. Len(Payloads) : Len(Payloads[w]) \in 1 .. (Weight[SizeBytes] - 1)

(* The workload whose turn it is, and the header that announces it.        *)
Turn == Len(executed) + 1
Current == Payloads[Turn]
Announcement == Stream(Current)[1]

(* How far the host is with it.                                            *)
Before == workload = Turn /\ sent = 0
Announced == workload = Turn /\ Turn <= Len(Payloads) /\ sent = 1
Queued ==
  \A j \in 0 .. (NUM_RX_DESC - 1) :
    j < Unread => buf[Slot(j)] \in Noise \/ (sent = 1 /\ buf[Slot(j)] = Announcement)

(* unlock's window after r bytes of the header, then the number so far.    *)
Window(r) ==
  [j \in 1 .. Len(MAGIC_NUMBER) |->
     IF j <= Len(MAGIC_NUMBER) - r THEN 0 ELSE MAGIC_NUMBER[j - (Len(MAGIC_NUMBER) - r)]]
Consumed(r) ==
  IF r < Len(MAGIC_NUMBER)
  THEN caller = "unlock" /\ magic_number = Window(r)
  ELSE /\ caller = "size" /\ i = r - Len(MAGIC_NUMBER)
       /\ number_of_bytes = Len(Current) % Weight[r - Len(MAGIC_NUMBER)]

(* The phases of kernel_main, and what each knows of the workload.         *)
Resetting == pc = "reset" /\ Before /\ (k > 1 => ~hdr_done)

Looking ==
  /\ pc \in {"read", "poll", "hlt", "halted"} /\ caller = "unlock"
  /\ ~hdr_done /\ ~rx_ready /\ magic_number = Zeros(Len(MAGIC_NUMBER))
  /\ Before \/ Announced
  /\ Queued

AtByte(r) ==
  /\ Consumed(r)
  /\ \/ pc = "read" /\ hdr_read = r /\ (irq = "on" => r = 0)
     \/ pc = "take" /\ at = r
     \/ pc = "mark" /\ at = r /\ byte = Announcement.payload[r + 1]
        /\ (k = 2 => r + 1 = HeaderBytes)
Reading ==
  /\ Announced /\ ~hdr_done /\ rx_ready /\ hdr_len = HEADER_FRAME_SIZE
  /\ \A j \in 1 .. HEADER_FRAME_SIZE : hdr_buf[j] = Announcement.payload[j]
  /\ Queued
  /\ \E r \in 0 .. (HeaderBytes - 1) : AtByte(r)

Preparing ==
  /\ pc \in {"alloc", "dest"} /\ Announced /\ hdr_done /\ number_of_bytes = Len(Current)
  /\ pc = "dest" /\ k > 1 => rx_dest = HEAP_START

(* Chunks of the current workload the host has sent.                       *)
ChunksSent == IF workload = Turn THEN sent - 1 ELSE Chunks(Current)

(* g[j] chunks came before unread position j; unless one was lost, they    *)
(* are the first ones, in order.                                           *)
Counted(g) ==
  /\ g \in [0 .. NUM_RX_DESC -> Nat]
  /\ \A j \in 0 .. (NUM_RX_DESC - 1) : j < Unread =>
       \/ buf[Slot(j)] \in Noise /\ g[j + 1] = g[j]
       \/ /\ ~Ignored(buf[Slot(j)]) /\ g[j + 1] = g[j] + 1
          /\ Len(buf[Slot(j)].payload) <= ChunkBytes
  /\ rx_received <= g[0] * ChunkBytes
  /\ g[Unread] <= ChunksSent

InOrder(g) ==
  /\ rx_received = IF g[0] * ChunkBytes < Len(Current) THEN g[0] * ChunkBytes ELSE Len(Current)
  /\ \A o \in 0 .. (rx_received - 1) : mem[o] = Current[o + 1]
  /\ \A j \in 0 .. (NUM_RX_DESC - 1) : j < Unread /\ ~Ignored(buf[Slot(j)]) =>
       g[j] < Chunks(Current) /\ buf[Slot(j)].payload = Padded(Chunk(Current, g[j] + 1))

Gathering ==
  /\ Receiving /\ Turn <= Len(Payloads)
  /\ \/ workload = Turn /\ sent \in 1 .. Chunks(Current)
     \/ workload = Turn + 1 /\ sent = 0
  /\ hdr_done /\ rx_dest = HEAP_START /\ number_of_bytes = Len(Current)
  /\ \E g \in [0 .. NUM_RX_DESC -> Nat] :
       Counted(g) /\ (g[Unread] = ChunksSent => InOrder(g))

Launching ==
  /\ pc = "exec" /\ workload = Turn + 1 /\ sent = 0 /\ Turn <= Len(Payloads)
  /\ number_of_bytes = Len(Current)
  /\ \A o \in 0 .. (number_of_bytes - 1) : mem[o] = Current[o + 1]

Finished == pc = "free" /\ Before

Serving ==
  /\ executed \in Seq(Seq(Bytes)) /\ Len(executed) <= Len(Payloads) /\ RunsWhatWasSent
  /\ Resetting \/ Looking \/ Reading \/ Preparing \/ Gathering \/ Launching \/ Finished

(* The workload whose turn it is, and what Ethernet carries of it.         *)
LEMMA CurrentFact ==
  ASSUME ModestHost, Len(executed) \in Nat, Turn <= Len(Payloads)
  PROVE  /\ Turn \in 1 .. Len(Payloads) /\ Len(Payloads) \in Nat
         /\ Current \in Seq(Bytes) /\ Len(Current) \in 1 .. (Weight[SizeBytes] - 1)
         /\ Chunks(Current) \in Nat \ {0}
         /\ Len(Current) <= Chunks(Current) * ChunkBytes
         /\ (Chunks(Current) - 1) * ChunkBytes < Len(Current)
<1>1. Turn \in 1 .. Len(Payloads) /\ Len(Payloads) \in Nat
  BY ReceiveAssumption DEF Turn
<1>2. Current \in Seq(Bytes) /\ Len(Current) \in 1 .. (Weight[SizeBytes] - 1)
  BY <1>1, PayloadFact DEF Current, ModestHost
<1>3. /\ Chunks(Current) \in Nat
      /\ Len(Current) <= Chunks(Current) * ChunkBytes
      /\ Chunks(Current) > 0 => (Chunks(Current) - 1) * ChunkBytes < Len(Current)
  BY <1>2, ChunksFact
<1>4. Chunks(Current) # 0
  BY <1>2, <1>3, Sizes
<1> QED
  BY <1>1, <1>2, <1>3, <1>4

(* Byte by byte, the announcement: the magic number, then the size.        *)
LEMMA AnnouncementFact ==
  ASSUME ModestHost, Len(executed) \in Nat, Turn <= Len(Payloads)
  PROVE  /\ IsFrame(Announcement) /\ ~Ignored(Announcement) /\ Announcement.role = "header"
         /\ \A j \in 1 .. Len(MAGIC_NUMBER) : Announcement.payload[j] = MAGIC_NUMBER[j]
         /\ \A j \in 0 .. (SizeBytes - 1) : Announcement.payload[Len(MAGIC_NUMBER) + j + 1]
                                              = (Len(Current) \div Weight[j]) % ByteBase
<1> DEFINE M == Len(MAGIC_NUMBER)
           le == LittleEndian(Len(Current))
           s == MAGIC_NUMBER \o le
           n == IF Len(s) < HEADER_FRAME_SIZE THEN HEADER_FRAME_SIZE - Len(s) ELSE 0
<1>1. Current \in Seq(Bytes) /\ Chunks(Current) \in Nat
  BY CurrentFact
<1>2. Announcement = Work("header", s) /\ IsFrame(Announcement)
  <2>1. 1 \in 1 .. (Chunks(Current) + 1)
    BY <1>1
  <2> QED BY <1>1, <2>1, StreamFact DEF Announcement
<1>3. Announcement.payload = s \o Zeros(n) /\ ~Ignored(Announcement) /\ Announcement.role = "header"
  BY <1>2 DEF Work, Padded, Ignored
<1>4. /\ le \in Seq(Int) /\ Len(le) = SizeBytes
      /\ \A j \in 0 .. (SizeBytes - 1) : le[j + 1] = (Len(Current) \div Weight[j]) % ByteBase
  <2>1. le = [j \in 1 .. SizeBytes |-> (Len(Current) \div Weight[j - 1]) % ByteBase]
    BY DEF LittleEndian
  <2>2. \A j \in 1 .. SizeBytes : (Len(Current) \div Weight[j - 1]) % ByteBase \in Int
    <3> SUFFICES ASSUME NEW j \in 1 .. SizeBytes
                 PROVE  (Len(Current) \div Weight[j - 1]) % ByteBase \in Int
      OBVIOUS
    <3>1. Weight[j - 1] \in Nat \ {0} /\ Len(Current) \in Nat
      BY <1>1, WeightFact, Sizes
    <3>2. Len(Current) \div Weight[j - 1] \in Nat
      BY <3>1, DivNat
    <3>3. \A a \in Nat : a % ByteBase \in Int
      BY Sizes
    <3> QED BY <3>2, <3>3
  <2>3. \A j \in 0 .. (SizeBytes - 1) : j + 1 \in 1 .. SizeBytes /\ (j + 1) - 1 = j
    BY Sizes
  <2> HIDE DEF le
  <2> QED BY <2>1, <2>2, <2>3, Sizes
<1> HIDE DEF le
<1>5. MAGIC_NUMBER \in Seq(Int) /\ M \in Nat \ {0} /\ SizeBytes \in Nat
  <2>1. MAGIC_NUMBER \in [1 .. M -> Bytes] /\ M \in Nat \ {0}
    BY Sizes, LenProperties
  <2>2. MAGIC_NUMBER \in [1 .. M -> Int]
    BY <2>1 DEF Bytes
  <2> HIDE DEF M
  <2> QED BY <2>1, <2>2, Sizes
<1>6. /\ s \in Seq(Int) /\ Len(s) = M + SizeBytes
      /\ \A j \in 1 .. (M + SizeBytes) : s[j] = IF j <= M THEN MAGIC_NUMBER[j] ELSE le[j - M]
  BY <1>4, <1>5, ConcatProperties
<1> HIDE DEF s
<1>7. n \in Nat
  BY <1>5, <1>6, Sizes
<1> HIDE DEF n
<1>8. \A j \in 1 .. (M + SizeBytes) : (s \o Zeros(n))[j] = s[j]
  <2>1. Zeros(n) \in Seq(Int)
    BY <1>7 DEF Zeros
  <2> QED BY <1>5, <1>6, <2>1, ConcatProperties
<1>9. ASSUME NEW j \in 1 .. M PROVE (s \o Zeros(n))[j] = MAGIC_NUMBER[j]
  <2>1. j \in 1 .. (M + SizeBytes) /\ j <= M
    BY <1>5
  <2> QED BY <1>6, <1>8, <2>1
<1>10. ASSUME NEW j \in 0 .. (SizeBytes - 1)
       PROVE  (s \o Zeros(n))[M + j + 1] = (Len(Current) \div Weight[j]) % ByteBase
  <2>1. M + j + 1 \in 1 .. (M + SizeBytes) /\ ~(M + j + 1 <= M) /\ M + j + 1 - M = j + 1
    BY <1>5
  <2>2. s[M + j + 1] = le[j + 1]
    BY <1>6, <2>1
  <2>3. (s \o Zeros(n))[M + j + 1] = s[M + j + 1]
    BY <1>8, <2>1
  <2> QED BY <1>4, <2>2, <2>3
<1> QED
  BY <1>2, <1>3, <1>9, <1>10

(* A byte of the header that read_ethernet returns is one more consumed;   *)
(* the window does not match early, for the magic number has no zero.      *)
LEMMA ConsumeByte ==
  ASSUME ModestHost, ControlTyped, NumberTyped, Len(executed) \in Nat, Turn <= Len(Payloads),
         UNCHANGED executed, NEW r \in 0 .. (HeaderBytes - 1), Consumed(r), NEW b,
         b = Announcement.payload[r + 1], Return(b), pc \in {"read", "mark"}
  PROVE  IF r + 1 < HeaderBytes THEN Consumed(r + 1)' /\ pc' = "read"
         ELSE pc' = "alloc" /\ number_of_bytes' = Len(Current) /\ caller' = "size"
<1> DEFINE M == Len(MAGIC_NUMBER)
<1>1. M \in Nat \ {0} /\ SizeBytes \in Nat \ {0} /\ HeaderBytes = M + SizeBytes /\ r \in Nat
  BY Sizes DEF HeaderBytes
<1>2. Current' = Current
  BY DEF Current, Turn
<1>3. CASE r < M
  <2>1. /\ caller = "unlock" /\ magic_number = Window(r)
        /\ magic_number' = Append(Tail(magic_number), b)
        /\ caller' = IF magic_number' = MAGIC_NUMBER THEN "size" ELSE "unlock"
        /\ number_of_bytes' = 0 /\ i' = 0 /\ pc' = "read"
    BY <1>3 DEF Consumed, Return, Goto
  <2>2. b = MAGIC_NUMBER[r + 1]
    <3>1. r + 1 \in 1 .. M
      BY <1>1, <1>3
    <3> QED BY <3>1, AnnouncementFact
  <2>3. magic_number' = Window(r + 1)
    <3> DEFINE W == Window(r)
               V == Append(Tail(W), b)
    <3>1. W \in [1 .. M -> Bytes]
      BY <2>1 DEF NumberTyped
    <3>2. \A j \in 1 .. M : W[j] = IF j <= M - r THEN 0 ELSE MAGIC_NUMBER[j - (M - r)]
      BY DEF Window
    <3> HIDE DEF W
    <3>3. b \in Bytes
      <4>1. r + 1 \in 1 .. M /\ MAGIC_NUMBER \in Seq(Bytes)
        BY <1>1, <1>3, Sizes
      <4> QED BY <2>2, <4>1, ElementOfSeq
    <3>4. /\ V \in [1 .. M -> Bytes]
          /\ \A j \in 1 .. M : V[j] = IF j = M THEN b ELSE W[j + 1]
      <4> HIDE DEF M
      <4>1. W \in Seq(Bytes) /\ Len(W) = M
        BY <1>1, <3>1
      <4>2. Tail(W) \in Seq(Bytes) /\ Len(Tail(W)) = M - 1
            /\ \A j \in 1 .. (M - 1) : Tail(W)[j] = W[j + 1]
        BY <1>1, <4>1
      <4>3. V \in Seq(Bytes) /\ Len(V) = M
            /\ \A j \in 1 .. M : V[j] = IF j = M THEN b ELSE Tail(W)[j]
        BY <1>1, <3>3, <4>2
      <4>4. V \in [1 .. M -> Bytes]
        BY <4>3, LenProperties
      <4>5. \A j \in 1 .. M : j # M => j \in 1 .. (M - 1)
        BY <1>1
      <4> HIDE DEF V
      <4> QED BY <4>2, <4>3, <4>4, <4>5
    <3> HIDE DEF V
    <3>5. ASSUME NEW j \in 1 .. M
          PROVE  V[j] = IF j <= M - (r + 1) THEN 0 ELSE MAGIC_NUMBER[j - (M - (r + 1))]
      <4>1. CASE j = M
        <5>1. ~(j <= M - (r + 1)) /\ j - (M - (r + 1)) = r + 1
          BY <1>1, <4>1
        <5> QED BY <2>2, <3>4, <4>1, <5>1
      <4>2. CASE j # M
        <5>1. /\ j + 1 \in 1 .. M /\ (j + 1 <= M - r <=> j <= M - (r + 1))
              /\ (j + 1) - (M - r) = j - (M - (r + 1))
          BY <1>1, <4>2
        <5> QED BY <3>2, <3>4, <4>2, <5>1
      <4> QED BY <4>1, <4>2
    <3>6. V = Window(r + 1)
      BY <3>4, <3>5 DEF Window
    <3> QED BY <2>1, <3>6 DEF W, V
  <2>4. CASE r + 1 < M
    <3>1. magic_number' # MAGIC_NUMBER
      <4>1. 1 \in 1 .. M /\ 1 <= M - (r + 1)
        BY <1>1, <2>4
      <4>2. magic_number'[1] = 0
        BY <2>3, <4>1 DEF Window
      <4>3. MAGIC_NUMBER[1] # 0
        <5>1. MAGIC_NUMBER \in Seq(Bytes \ {0})
          BY ReceiveAssumption
        <5>2. MAGIC_NUMBER[1] \in Bytes \ {0}
          BY <4>1, <5>1, ElementOfSeq
        <5> QED BY <5>2
      <4> QED BY <4>2, <4>3
    <3>2. r + 1 < HeaderBytes
      BY <1>1, <2>4
    <3> QED BY <2>1, <2>3, <2>4, <3>1, <3>2 DEF Consumed
  <2>5. CASE ~(r + 1 < M)
    <3>1. r + 1 = M /\ r + 1 < HeaderBytes /\ r + 1 - M = 0
      BY <1>1, <1>3, <2>5
    <3>2. Window(r + 1) = MAGIC_NUMBER
      <4>1. \A j \in 1 .. M : ~(j <= M - (r + 1)) /\ j - (M - (r + 1)) = j
        BY <1>1, <3>1
      <4>2. MAGIC_NUMBER = [j \in 1 .. M |-> MAGIC_NUMBER[j]]
        BY Sizes, LenProperties
      <4> QED BY <4>1, <4>2 DEF Window
    <3>3. Len(Current) % Weight[0] = 0
      <4>1. Weight[0] = 1 /\ Len(Current) \in Nat
        BY WeightFact, CurrentFact
      <4>2. \A a \in Nat : a % 1 = 0
        OBVIOUS
      <4> QED BY <4>1, <4>2
    <3> QED BY <1>2, <2>1, <2>3, <2>5, <3>1, <3>2, <3>3 DEF Consumed
  <2> QED BY <2>4, <2>5
<1>4. CASE ~(r < M)
  <2> DEFINE c == r - M
             L == Len(Current)
  <2>1. /\ caller = "size" /\ i = c /\ number_of_bytes = L % Weight[c]
        /\ number_of_bytes' = number_of_bytes + b * Weight[i] /\ i' = i + 1
        /\ pc' = IF i' = SizeBytes THEN "alloc" ELSE "read"
        /\ caller' = caller
    BY <1>4 DEF Consumed, Return, Goto
  <2>2. c \in 0 .. (SizeBytes - 1) /\ r + 1 = M + c + 1 /\ ~(r + 1 < M) /\ r + 1 - M = c + 1
    BY <1>1, <1>4
  <2>3. b = (L \div Weight[c]) % ByteBase
    BY <2>2, AnnouncementFact
  <2> HIDE DEF c
  <2>4. L \in Nat /\ L < Weight[SizeBytes] /\ Weight[SizeBytes] \in Nat \ {0}
    BY CurrentFact, WeightFact, Sizes
  <2>5. Weight[c] \in Nat \ {0} /\ Weight[c + 1] = ByteBase * Weight[c]
    BY <2>2, WeightFact, Sizes
  <2>6. number_of_bytes' = L % Weight[c + 1]
    <3> HIDE DEF L
    <3>1. L % (ByteBase * Weight[c])
            = (L % Weight[c]) + ((L \div Weight[c]) % ByteBase) * Weight[c]
      BY <2>4, <2>5, Sizes, RemainderSplit
    <3> QED BY <2>1, <2>3, <2>5, <3>1
  <2>7. CASE r + 1 < HeaderBytes
    <3>1. i' # SizeBytes
      BY <1>1, <2>1, <2>2, <2>7
    <3> QED BY <1>2, <2>1, <2>2, <2>6, <2>7, <3>1 DEF Consumed
  <2>8. CASE ~(r + 1 < HeaderBytes)
    <3>1. i' = SizeBytes /\ c + 1 = SizeBytes
      BY <1>1, <2>1, <2>2, <2>8
    <3>2. L % Weight[SizeBytes] = L
      <4>1. L \in 0 .. (Weight[SizeBytes] - 1) /\ L \in Int
        BY <2>4
      <4> HIDE DEF L
      <4> QED BY <2>4, <4>1, ModSmall
    <3> QED BY <2>1, <2>6, <2>8, <3>1, <3>2
  <2> QED BY <2>7, <2>8
<1> QED
  BY <1>3, <1>4

-----------------------------------------------------------------------------
(* What a step can be, given where kernel_main is.                         *)

(* kernel_main's step is the one pc names.                                 *)
LEMMA KernelAt ==
  ASSUME Kernel
  PROVE  /\ irq = "off" /\ pc # "halted" /\ pc # "panic"
         /\ pc = "reset" => reset_header
         /\ pc = "read" => Read
         /\ pc = "take" => Take
         /\ pc = "mark" => Mark
         /\ pc = "poll" => PollTest
         /\ pc = "hlt" => Halt
         /\ pc = "alloc" => AllocPages
         /\ pc = "dest" => network_set_dest
         /\ pc = "wait" => poll_payload
         /\ pc = "exec" => Execute
         /\ pc = "free" => ResetHeap
BY DEF Kernel, At, reset_header, Read, Take, Mark, Halt, PollTest, PollDeliver, PollCopy,
   PollPublish, PollRetire, PollAdvance, AllocPages, network_set_dest, poll_payload, Execute,
   ResetHeap

(* While kernel_main has work the wire is silent and no cause is pending.  *)
LEMMA Undisturbed ==
  ASSUME ModestHost, Asleep, [Next]_vars, pc \notin {"halted", "read", "wait"}
  PROVE  UNCHANGED vars \/ Kernel
<1>1. irq # "on" /\ ~icr
  BY DEF Asleep
<1>2. ~HostSends /\ ~NoiseArrives
  BY DEF ModestHost, HostSends, NoiseArrives, PaceAllows
<1>3. ~Interrupt
  BY <1>1 DEF Interrupt, IrqEnter, IrqDrain, IrqExit
<1> QED
  BY <1>2, <1>3 DEF Next

(* The ring is empty unless the machine sleeps or the handler runs.        *)
LEMMA NothingUnread ==
  ASSUME RingOk, Asleep, irq = "off", pc # "halted"
  PROVE  Unread = 0 /\ ~icr
BY DEF RingOk, Asleep

(* The host sends a header to a kernel that looks for one, and a chunk to  *)
(* a kernel that waits for it.                                             *)
LEMMA HostWire ==
  ASSUME ModestHost, HostTyped, HostSends
  PROVE  /\ workload \in 1 .. Len(Payloads) /\ pc = "halted" /\ irq = "off"
         /\ UNCHANGED <<rx_tail, dest, header, irq, pc, k, loader, locals, memory>>
         /\ Fill(Stream(Payloads[workload])[sent + 1])
         /\ sent = 0 => caller = "unlock" /\ workload' = workload /\ sent' = 1
         /\ sent # 0 =>
              /\ caller = "payload" /\ sent \in 1 .. Chunks(Payloads[workload])
              /\ Stream(Payloads[workload])[sent + 1]
                   = Work("data", Chunk(Payloads[workload], sent))
              /\ IF sent = Chunks(Payloads[workload])
                 THEN workload' = workload + 1 /\ sent' = 0
                 ELSE workload' = workload /\ sent' = sent + 1
<1> DEFINE p == Payloads[workload]
           f == Stream(p)[sent + 1]
<1>1. workload \in 1 .. Len(Payloads) /\ Len(Payloads) \in Nat
  BY ReceiveAssumption DEF HostSends, HostTyped
<1>2. p \in Seq(Bytes) /\ Len(p) >= 1
  BY <1>1, PayloadFact DEF ModestHost
<1>3. Chunks(p) \in Nat \ {0}
  <2>1. Chunks(p) \in Nat /\ Len(p) <= Chunks(p) * ChunkBytes
    BY <1>2, ChunksFact
  <2>2. Chunks(p) # 0
    BY <1>2, <2>1, Sizes
  <2> QED BY <2>1, <2>2
<1>4. /\ Len(Stream(p)) = Chunks(p) + 1
      /\ Stream(p)[1] = Work("header", MAGIC_NUMBER \o LittleEndian(Len(p)))
      /\ \A c \in 1 .. Chunks(p) : Stream(p)[c + 1] = Work("data", Chunk(p, c))
  BY <1>2, StreamFact
<1>5. sent \in Nat /\ sent < Chunks(p) + 1
  BY <1>1, <1>4 DEF HostTyped
<1>6. /\ PaceAllows(f) /\ Fill(f)
      /\ IF sent + 1 = Chunks(p) + 1 THEN workload' = workload + 1 /\ sent' = 0
                                     ELSE sent' = sent + 1 /\ workload' = workload
      /\ UNCHANGED <<rx_tail, dest, header, irq, pc, k, loader, locals, memory>>
  BY <1>4 DEF HostSends
<1> HIDE DEF f
<1>7. pc = "halted" /\ irq = "off" /\ Consumer(f.role)
  BY <1>6 DEF PaceAllows, ModestHost
<1>8. CASE sent = 0
  <2>1. f.role = "header"
    BY <1>4, <1>8 DEF f, Work
  <2>2. caller = "unlock"
    BY <1>7, <2>1 DEF Consumer
  <2>3. workload' = workload /\ sent' = 1
    BY <1>3, <1>6, <1>8
  <2> QED BY <1>1, <1>6, <1>7, <1>8, <2>2, <2>3 DEF f
<1>9. CASE sent # 0
  <2>1. sent \in 1 .. Chunks(p)
    BY <1>3, <1>5, <1>9
  <2>2. f = Work("data", Chunk(p, sent)) /\ f.role = "data"
    BY <1>4, <2>1 DEF f, Work
  <2>3. caller = "payload"
    BY <1>7, <2>2 DEF Consumer
  <2>4. sent + 1 = Chunks(p) + 1 <=> sent = Chunks(p)
    BY <1>3, <2>1
  <2> QED BY <1>1, <1>6, <1>7, <1>9, <2>1, <2>2, <2>3, <2>4 DEF f
<1> QED
  BY <1>8, <1>9

(* Foreign frames come to a sleeping kernel as well.                       *)
LEMMA NoiseWire ==
  ASSUME ModestHost, NoiseArrives
  PROVE  /\ pc = "halted" /\ irq = "off"
         /\ \E f \in Noise : Fill(f)
         /\ UNCHANGED <<workload, sent, rx_tail, dest, header, irq, pc, k, loader, locals, memory>>
BY DEF NoiseArrives, PaceAllows, ModestHost

(* A workload is run in Execute only.                                      *)
LEMMA ExecutedAlone ==
  ASSUME [Next]_vars, pc # "exec"
  PROVE  UNCHANGED executed
<1>1. CASE UNCHANGED vars \/ HostSends \/ NoiseArrives \/ Interrupt
  BY <1>1 DEF vars, HostSends, NoiseArrives, Interrupt, IrqEnter, IrqDrain, IrqExit, memory
<1>2. CASE reset_header \/ Read \/ Take \/ Mark \/ Halt
  BY <1>2 DEF reset_header, Read, Take, Mark, Halt, memory
<1>3. CASE PollTest \/ PollDeliver \/ PollCopy \/ PollPublish \/ PollRetire \/ PollAdvance
  BY <1>3 DEF PollTest, PollDeliver, PollCopy, PollPublish, PollRetire, PollAdvance, memory
<1>4. CASE AllocPages \/ network_set_dest \/ poll_payload \/ Execute \/ ResetHeap
  BY <1>4 DEF AllocPages, network_set_dest, poll_payload, Execute, ResetHeap, At, memory
<1> QED
  BY <1>1, <1>2, <1>3, <1>4 DEF Next, Kernel

(* Whose turn it is changes with executed only.                            *)
LEMMA SameTurn ==
  ASSUME UNCHANGED executed
  PROVE  Turn' = Turn /\ Current' = Current /\ Announcement' = Announcement
BY DEF Turn, Current, Announcement

-----------------------------------------------------------------------------
(* The header on its way.                                                  *)

(* A frame joins the queue ...                                             *)
LEMMA QueuedFill ==
  ASSUME RingTyped, RingOk, Queued, NEW f, Fill(f), UNCHANGED <<rx_tail, executed>>,
         f \in Noise \/ (sent' = 1 /\ f = Announcement), sent = 1 => sent' = 1
  PROVE  Queued'
<1>1. PICK c : c = Unread
  OBVIOUS
<1>2. \A j \in 0 .. (NUM_RX_DESC - 1) : Slot(j)' = Slot(j)
  BY <1>1, Arrival
<1>3. Announcement' = Announcement
  BY SameTurn
<1>4. CASE UNCHANGED <<nic, icr>>
  <2>1. Unread' = Unread /\ buf' = buf
    BY <1>4 DEF nic, Unread
  <2> QED BY <1>2, <1>3, <2>1 DEF Queued
<1>5. CASE /\ c \in 0 .. (NUM_RX_DESC - 1) /\ Unread' = c + 1
           /\ \A j \in 0 .. (NUM_RX_DESC - 1) :
                buf'[Slot(j)] = IF j = c THEN f ELSE buf[Slot(j)]
  <2> SUFFICES ASSUME NEW j \in 0 .. (NUM_RX_DESC - 1), j < c + 1
               PROVE  buf'[Slot(j)] \in Noise \/ (sent' = 1 /\ buf'[Slot(j)] = Announcement)
    BY <1>2, <1>3, <1>5 DEF Queued
  <2>1. CASE j = c
    BY <1>5, <2>1
  <2>2. CASE j # c
    <3>1. j < Unread
      BY <1>1, <1>5, <2>2
    <3> QED BY <1>5, <2>2, <3>1 DEF Queued
  <2> QED BY <2>1, <2>2
<1> QED
  BY <1>1, <1>4, <1>5, Arrival

(* ... and leaves it.                                                      *)
LEMMA QueuedDrain ==
  ASSUME RingTyped, RingOk, Queued, IrqDrain
  PROVE  /\ Queued'
         /\ buf[rx_tail] \in Noise \/ (sent = 1 /\ buf[rx_tail] = Announcement)
<1>1. PICK c : c = Unread
  OBVIOUS
<1>2. /\ c \in 1 .. NUM_RX_DESC /\ Unread' = c - 1 /\ rx_tail = Slot(0)
      /\ \A j \in 0 .. (NUM_RX_DESC - 1) : Slot(j)' = Slot(j + 1)
      /\ buf' = buf
  BY <1>1, Departure
<1>3. Announcement' = Announcement /\ sent' = sent
  BY SameTurn DEF IrqDrain, host
<1>4. ASSUME NEW j \in 0 .. (NUM_RX_DESC - 1), j < c - 1
      PROVE  buf[Slot(j + 1)] \in Noise \/ (sent = 1 /\ buf[Slot(j + 1)] = Announcement)
  <2>1. j + 1 \in 0 .. (NUM_RX_DESC - 1) /\ j + 1 < Unread
    BY <1>1, <1>2, <1>4, Sizes
  <2> QED BY <2>1 DEF Queued
<1>5. Queued'
  BY <1>2, <1>3, <1>4 DEF Queued
<1>6. 0 \in 0 .. (NUM_RX_DESC - 1) /\ 0 < Unread
  BY <1>1, <1>2, Sizes
<1> QED
  BY <1>2, <1>5, <1>6 DEF Queued

(* The queue is the ring's and the announcement the host's.                *)
LEMMA QueuedSame ==
  ASSUME Queued, UNCHANGED <<nic, rx_tail, sent, executed>>
  PROVE  Queued'
<1>1. UNCHANGED <<dd, buf>> /\ Announcement' = Announcement
  BY SameTurn DEF nic
<1>2. Unread' = Unread /\ \A j : Slot(j)' = Slot(j)
  BY <1>1 DEF Unread, Slot
<1> QED
  BY <1>1, <1>2 DEF Queued

(* unlock's window before the first byte.                                  *)
LEMMA EmptyWindow ==
  Window(0) = Zeros(Len(MAGIC_NUMBER))
BY Sizes DEF Window, Zeros

(* What the rest of the invariant says, for every phase.                   *)
Steady == Typed /\ RingOk /\ Asleep /\ Landing
Ran ==
  executed \in Seq(Seq(Bytes)) /\ Len(executed) <= Len(Payloads) /\ RunsWhatWasSent

(* The announcement lands in the header buffer whole.                      *)
LEMMA HeaderLands ==
  ASSUME ModestHost, Ran, Announced, ~hdr_done, network_receive_frame(Announcement)
  PROVE  /\ \A j \in 1 .. HEADER_FRAME_SIZE : hdr_buf'[j] = Announcement.payload[j]
         /\ hdr_len' = HEADER_FRAME_SIZE /\ hdr_read' = 0 /\ rx_ready' /\ ~hdr_done'
         /\ UNCHANGED <<dest, mem>>
<1>1. IsFrame(Announcement) /\ ~Ignored(Announcement)
  BY AnnouncementFact DEF Ran, Announced
<1>2. ToHeader(Announcement)
  BY <1>1 DEF network_receive_frame, ToHeap, Dropped
<1>3. \A j \in 1 .. HEADER_FRAME_SIZE :
         SubSeq(Announcement.payload, 1, HEADER_FRAME_SIZE)[j] = Announcement.payload[j]
  BY <1>1, Sizes DEF IsFrame
<1> QED
  BY <1>2, <1>3 DEF ToHeader

(* A frame the kernel ignores changes nothing.                             *)
LEMMA NoiseLands ==
  ASSUME ModestHost, NEW f \in Noise, network_receive_frame(f)
  PROVE  UNCHANGED <<header, dest, mem>>
BY DEF ModestHost, network_receive_frame, ToHeader, ToHeap, Dropped

(* kernel_main looks for a header.                                         *)
LEMMA LookingStep ==
  ASSUME ModestHost, Steady, Ran, Looking, [Next]_vars
  PROVE  Looking' \/ Reading'
<1>1. RingTyped /\ HostTyped /\ ControlTyped /\ RingOk /\ Asleep /\ Len(executed) \in Nat
  BY DEF Steady, Typed, Ran
<1>2. UNCHANGED executed
  BY ExecutedAlone DEF Looking
<1>3. Turn' = Turn /\ Current' = Current /\ Announcement' = Announcement
  BY <1>2, SameTurn
<1>4. CASE HostSends
  <2>1. /\ workload \in 1 .. Len(Payloads) /\ pc = "halted"
        /\ UNCHANGED <<rx_tail, dest, header, irq, pc, k, loader, locals, memory>>
        /\ Fill(Stream(Payloads[workload])[sent + 1])
        /\ sent = 0 => workload' = workload /\ sent' = 1
        /\ sent # 0 => caller = "payload"
    BY <1>1, <1>4, HostWire
  <2>2. sent = 0 /\ Before
    BY <2>1 DEF Looking, Announced
  <2>3. Announced'
    BY <1>3, <2>1, <2>2, ReceiveAssumption DEF Announced, Before
  <2>4. Fill(Announcement)
    BY <2>1, <2>2 DEF Before, Announcement, Current
  <2>5. Queued'
    BY <1>1, <1>2, <2>1, <2>2, <2>4, QueuedFill DEF Looking
  <2> QED BY <2>1, <2>3, <2>5 DEF Looking, header, loader
<1>5. CASE NoiseArrives
  <2>1. PICK f \in Noise : Fill(f)
    BY <1>5, NoiseWire
  <2>2. UNCHANGED <<workload, sent, rx_tail, dest, header, irq, pc, k, loader, locals, memory>>
    BY <1>5, NoiseWire
  <2>3. Queued'
    BY <1>1, <1>2, <2>1, <2>2, QueuedFill DEF Looking
  <2> QED BY <1>3, <2>2, <2>3 DEF Looking, header, loader, Before, Announced
<1>6. CASE IrqEnter
  <2>1. /\ UNCHANGED <<host, nic, rx_tail, header, loader>>
        /\ icr /\ pc' = IF pc # "halted" THEN pc ELSE IF caller = "payload" THEN "wait" ELSE "read"
    BY <1>6 DEF IrqEnter
  <2>2. pc' = "read"
    BY <1>1, <2>1 DEF Asleep, Looking
  <2>3. Queued'
    BY <1>2, <2>1, QueuedSame DEF Looking, host
  <2> QED BY <1>3, <2>1, <2>2, <2>3 DEF Looking, host, header, loader, Before, Announced
<1>7. CASE IrqDrain
  <2>1. Queued' /\ (buf[rx_tail] \in Noise \/ (sent = 1 /\ buf[rx_tail] = Announcement))
    BY <1>1, <1>7, QueuedDrain DEF Looking
  <2>2. /\ network_receive_frame(buf[rx_tail]) /\ irq = "on"
        /\ UNCHANGED <<host, irq, pc, k, loader, locals, heap, executed>>
    BY <1>7 DEF IrqDrain
  <2>3. CASE buf[rx_tail] \in Noise
    <3>1. UNCHANGED header
      BY <2>2, <2>3, NoiseLands
    <3> QED BY <1>3, <2>1, <2>2, <3>1 DEF Looking, host, header, loader, Before, Announced
  <2>4. CASE sent = 1 /\ buf[rx_tail] = Announcement
    <3>1. Announced /\ Announced'
      BY <1>3, <2>2, <2>4 DEF Looking, Before, Announced, host
    <3>2. /\ \A j \in 1 .. HEADER_FRAME_SIZE : hdr_buf'[j] = Announcement.payload[j]
          /\ hdr_len' = HEADER_FRAME_SIZE /\ hdr_read' = 0 /\ rx_ready' /\ ~hdr_done'
      BY <2>2, <2>4, <3>1, HeaderLands DEF Looking
    <3>3. AtByte(0)'
      <4>1. pc' = "read"
        BY <1>1, <2>2 DEF Asleep, Looking
      <4>2. Consumed(0)'
        BY <2>2, EmptyWindow, Sizes DEF Looking, Consumed, loader
      <4> QED BY <3>2, <4>1, <4>2 DEF AtByte
    <3>4. 0 \in 0 .. (HeaderBytes - 1)
      BY Sizes
    <3> QED BY <1>3, <2>1, <3>1, <3>2, <3>3, <3>4 DEF Reading
  <2> QED BY <2>1, <2>3, <2>4
<1>8. CASE IrqExit \/ UNCHANGED vars
  <2>1. UNCHANGED <<host, nic, rx_tail, header, pc, loader>>
    BY <1>8 DEF IrqExit, vars
  <2>2. Queued'
    BY <1>2, <2>1, QueuedSame DEF Looking, host
  <2> QED BY <1>3, <2>1, <2>2 DEF Looking, host, header, loader, Before, Announced
<1>9. CASE Kernel
  <2>1. irq = "off" /\ pc # "halted"
    BY <1>9, KernelAt
  <2>2. CASE Read
    <3>1. pc' = "poll" /\ UNCHANGED loader
      BY <2>2 DEF Read, Looking, HeaderByte, Goto
    <3>2. UNCHANGED <<host, nic, rx_tail, header>>
      BY <2>2 DEF Read, Unshared
    <3>3. Queued'
      BY <1>2, <3>2, QueuedSame DEF Looking, host
    <3> QED BY <1>3, <3>1, <3>2, <3>3 DEF Looking, host, header, loader, Before, Announced
  <2>3. CASE PollTest
    <3>1. ~dd[rx_tail]
      BY <1>1, <2>1, NothingUnread, TailNotDone
    <3>2. pc' = "hlt" /\ UNCHANGED <<host, nic, rx_tail, header, loader>>
      BY <2>3, <3>1 DEF PollTest, Goto, Unshared
    <3>3. Queued'
      BY <1>2, <3>2, QueuedSame DEF Looking, host
    <3> QED BY <1>3, <3>2, <3>3 DEF Looking, host, header, loader, Before, Announced
  <2>4. CASE Halt
    <3>1. pc' = "halted" /\ UNCHANGED <<host, nic, rx_tail, header, loader>>
      BY <2>4 DEF Halt, Goto, Unshared
    <3>2. Queued'
      BY <1>2, <3>1, QueuedSame DEF Looking, host
    <3> QED BY <1>3, <3>1, <3>2 DEF Looking, host, header, loader, Before, Announced
  <2> QED BY <1>9, <2>1, <2>2, <2>3, <2>4, KernelAt DEF Looking
<1> QED
  BY <1>4, <1>5, <1>6, <1>7, <1>8, <1>9 DEF Next, Interrupt

(* kernel_main consumes the header that came in, byte by byte.             *)
LEMMA ReadingStep ==
  ASSUME ModestHost, Steady, Ran, Reading, [Next]_vars
  PROVE  Reading' \/ Preparing'
<1>1. /\ RingTyped /\ HostTyped /\ ControlTyped /\ NumberTyped /\ RingOk /\ Asleep
      /\ Len(executed) \in Nat /\ Turn <= Len(Payloads)
  BY DEF Steady, Typed, Ran, Reading, Announced
<1>2. PICK r \in 0 .. (HeaderBytes - 1) : AtByte(r)
  BY DEF Reading
<1>3. pc \in {"read", "take", "mark"} /\ UNCHANGED executed
  BY <1>2, ExecutedAlone DEF AtByte
<1>4. Turn' = Turn /\ Current' = Current /\ Announcement' = Announcement
  BY <1>3, SameTurn
<1>5. r \in Nat /\ r < HeaderBytes /\ r + 1 <= HEADER_FRAME_SIZE /\ HeaderBytes \in Nat
  BY Sizes
<1>6. ~HostSends /\ ~NoiseArrives /\ ~IrqEnter
  BY <1>1, <1>3, HostWire, NoiseWire DEF IrqEnter, Asleep
<1>7. CASE IrqDrain
  <2>1. Queued' /\ (buf[rx_tail] \in Noise \/ (sent = 1 /\ buf[rx_tail] = Announcement))
    BY <1>1, <1>7, QueuedDrain DEF Reading
  <2>2. /\ network_receive_frame(buf[rx_tail]) /\ irq = "on"
        /\ UNCHANGED <<host, irq, pc, k, loader, locals, heap, executed>>
    BY <1>7 DEF IrqDrain
  <2>3. pc = "read" /\ hdr_read = r /\ r = 0
    BY <1>1, <1>2, <1>3, <2>2 DEF Asleep, AtByte
  <2>4. Announced' /\ 0 \in 0 .. (HeaderBytes - 1) /\ Consumed(0)'
    BY <1>2, <1>4, <2>2, <2>3, Sizes DEF Reading, Announced, host, AtByte, Consumed, loader
  <2>5. CASE buf[rx_tail] \in Noise
    <3>1. UNCHANGED header
      BY <2>2, <2>5, NoiseLands
    <3> QED BY <1>4, <2>1, <2>2, <2>3, <2>4, <3>1 DEF Reading, header, AtByte
  <2>6. CASE sent = 1 /\ buf[rx_tail] = Announcement
    <3>1. /\ \A j \in 1 .. HEADER_FRAME_SIZE : hdr_buf'[j] = Announcement.payload[j]
          /\ hdr_len' = HEADER_FRAME_SIZE /\ hdr_read' = 0 /\ rx_ready' /\ ~hdr_done'
      BY <2>2, <2>6, HeaderLands DEF Reading
    <3> QED BY <1>4, <2>1, <2>2, <2>3, <2>4, <3>1 DEF Reading, AtByte
  <2> QED BY <2>1, <2>5, <2>6
<1>8. CASE IrqExit \/ UNCHANGED vars
  <2>1. /\ UNCHANGED <<host, nic, rx_tail, header, pc, k, loader, locals>>
        /\ irq' = "on" => irq = "on"
    BY <1>8 DEF IrqExit, vars
  <2>2. Queued'
    BY <1>3, <2>1, QueuedSame DEF Reading, host
  <2>3. AtByte(r)'
    BY <1>2, <1>4, <2>1 DEF AtByte, Consumed, header, loader, locals
  <2> QED BY <1>4, <2>1, <2>2, <2>3 DEF Reading, Announced, host, header
<1>9. CASE Kernel
  <2>1. irq = "off" /\ irq' = "off"
    BY <1>3, <1>9, KernelAt DEF Read, Take, Mark, Unshared
  <2>2. UNCHANGED <<host, nic, rx_tail>>
    BY <1>3, <1>9, KernelAt DEF Read, Take, Mark, Unshared
  <2>3. Queued' /\ Announced'
    BY <1>3, <1>4, <2>2, QueuedSame DEF Reading, host, Announced
  <2>4. CASE pc = "read"
    <3>1. Read /\ hdr_read = r /\ Consumed(r)
      BY <1>2, <1>9, <2>4, KernelAt DEF AtByte
    <3>2. HeaderByte
      BY <1>5, <3>1, Sizes DEF Reading, HeaderByte
    <3>3. pc' = "take" /\ at' = r /\ UNCHANGED <<header, loader>>
      BY <3>1, <3>2 DEF Read, Reading, Goto
    <3>4. AtByte(r)'
      BY <1>4, <3>1, <3>3 DEF AtByte, Consumed, loader
    <3> QED BY <1>4, <2>3, <3>3, <3>4 DEF Reading, header
  <2>5. CASE pc = "take"
    <3>1. Take /\ at = r /\ Consumed(r)
      BY <1>2, <1>9, <2>5, KernelAt DEF AtByte
    <3>2. byte' = hdr_buf[r + 1] /\ pc' = "mark" /\ k' = 1 /\ UNCHANGED <<header, loader, at>>
      BY <3>1 DEF Take, Goto
    <3>3. byte' = Announcement.payload[r + 1]
      <4>1. r + 1 \in 1 .. HEADER_FRAME_SIZE
        BY <1>5, Sizes
      <4> QED BY <3>2, <4>1 DEF Reading
    <3>4. AtByte(r)'
      BY <1>4, <3>1, <3>2, <3>3 DEF AtByte, Consumed, loader
    <3> QED BY <1>4, <2>3, <3>2, <3>4 DEF Reading, header
  <2>6. CASE pc = "mark"
    <3>1. /\ Mark /\ at = r /\ Consumed(r) /\ byte = Announcement.payload[r + 1]
          /\ k = 2 => r + 1 = HeaderBytes
      BY <1>2, <1>9, <2>6, KernelAt DEF AtByte
    <3>2. UNCHANGED <<rx_ready, hdr_buf, hdr_len, locals>>
      BY <3>1 DEF Mark
    <3>3. CASE k = 1 /\ r + 1 = HeaderBytes
      <4>1. k' = 2 /\ UNCHANGED <<pc, loader, hdr_done>>
        BY <1>5, <3>1, <3>3 DEF Mark
      <4>2. AtByte(r)'
        BY <1>4, <2>6, <3>1, <3>2, <3>3, <4>1 DEF AtByte, Consumed, loader, locals
      <4> QED BY <1>4, <2>3, <3>2, <4>1, <4>2 DEF Reading
    <3>4. CASE k = 1 /\ r + 1 # HeaderBytes
      <4>1. hdr_read' = r + 1 /\ Return(byte) /\ UNCHANGED hdr_done
        BY <1>5, <3>1, <3>4 DEF Mark
      <4>2. Consumed(r + 1)' /\ pc' = "read"
        <5>1. r + 1 < HeaderBytes
          BY <1>5, <3>4
        <5> QED BY <1>1, <1>3, <2>6, <3>1, <4>1, <5>1, ConsumeByte
      <4>3. AtByte(r + 1)' /\ r + 1 \in 0 .. (HeaderBytes - 1)
        BY <1>5, <2>1, <3>4, <4>1, <4>2 DEF AtByte
      <4> QED BY <1>4, <2>3, <3>2, <4>1, <4>3 DEF Reading
    <3>5. CASE k = 2
      <4>1. hdr_done' = TRUE /\ Return(byte)
        BY <3>1, <3>5 DEF Mark
      <4>2. pc' = "alloc" /\ number_of_bytes' = Len(Current)
        <5>1. ~(r + 1 < HeaderBytes)
          BY <1>5, <3>1, <3>5
        <5> QED BY <1>1, <1>3, <2>6, <3>1, <4>1, <5>1, ConsumeByte
      <4> QED BY <1>4, <2>3, <4>1, <4>2 DEF Preparing
    <3> QED BY <3>1, <3>3, <3>4, <3>5 DEF Mark
  <2> QED BY <1>3, <2>4, <2>5, <2>6
<1> QED
  BY <1>6, <1>7, <1>8, <1>9 DEF Next, Interrupt

(* The pages are mapped and the destination set; no chunk has come yet.    *)
LEMMA PreparingStep ==
  ASSUME ModestHost, Steady, Ran, Preparing, [Next]_vars
  PROVE  Preparing' \/ Gathering'
<1>1. /\ RingTyped /\ ControlTyped /\ RingOk /\ Asleep /\ Len(executed) \in Nat
      /\ Turn <= Len(Payloads)
  BY DEF Steady, Typed, Ran, Preparing, Announced
<1>2. UNCHANGED executed /\ (UNCHANGED vars \/ Kernel)
  BY <1>1, ExecutedAlone, Undisturbed DEF Preparing
<1>3. Turn' = Turn /\ Current' = Current
  BY <1>2, SameTurn
<1>4. CASE UNCHANGED vars
  BY <1>3, <1>4 DEF vars, Preparing, Announced, host, dest, header, loader
<1>5. CASE AllocPages
  <2>1. pc' = "dest" /\ k' = 1 /\ UNCHANGED <<host, header, loader>>
    BY <1>5 DEF AllocPages, Goto, Unshared
  <2> QED BY <1>3, <2>1 DEF Preparing, Announced, host, header, loader
<1>6. CASE network_set_dest
  <2>1. pc = "dest" /\ k \in {1, 2, 3} /\ UNCHANGED <<host, nic, rx_tail, header, number_of_bytes>>
    BY <1>1, <1>6 DEF network_set_dest, At, Unshared, ControlTyped
  <2>2. CASE k = 1 \/ k = 2
    <3>1. pc' = pc
      BY <1>6, <2>2 DEF network_set_dest
    <3>2. k = 1 => rx_dest' = HEAP_START
      BY <1>6 DEF network_set_dest
    <3>3. k = 2 => rx_dest' = HEAP_START
      BY <1>6, <2>1 DEF network_set_dest, Preparing
    <3>4. rx_dest' = HEAP_START
      BY <2>2, <3>2, <3>3
    <3> QED BY <1>3, <2>1, <3>1, <3>4 DEF Preparing, Announced, host, header
  <2>3. CASE k = 3
    <3>1. pc' = "wait" /\ rx_received' = 0 /\ rx_dest' = HEAP_START
      BY <1>6, <2>1, <2>3 DEF network_set_dest, Goto, Preparing
    <3>2. Unread = 0 /\ Unread' = 0
      <4>1. Unread = 0
        BY <1>1, <1>6, <2>1, NothingUnread DEF network_set_dest, At
      <4>2. Unread' = Unread
        BY <2>1 DEF Unread, nic
      <4> QED BY <4>1, <4>2
    <3>3. Chunks(Current) \in Nat \ {0} /\ Len(Current) \in Nat \ {0}
      BY <1>1, CurrentFact
    <3>4. workload' = Turn' /\ sent' = 1 /\ sent' \in 1 .. Chunks(Current') /\ ChunksSent' = 0
      BY <1>3, <2>1, <3>3 DEF Preparing, Announced, host, ChunksSent
    <3> DEFINE g == [j \in 0 .. NUM_RX_DESC |-> 0]
    <3>5. g \in [0 .. NUM_RX_DESC -> Nat] /\ g[0] = 0 /\ 0 * ChunkBytes = 0
      BY Sizes
    <3>6. \A j \in 0 .. (NUM_RX_DESC - 1) : ~(j < Unread')
      BY <3>2
    <3> HIDE DEF g
    <3>7. Counted(g)'
      BY <3>1, <3>2, <3>4, <3>5, <3>6 DEF Counted
    <3>8. InOrder(g)'
      <4>1. 0 .. (rx_received' - 1) = {}
        BY <3>1
      <4>2. rx_received' = IF g[0] * ChunkBytes < Len(Current') THEN g[0] * ChunkBytes
                           ELSE Len(Current')
        BY <1>3, <3>1, <3>3, <3>5
      <4> QED BY <3>6, <4>1, <4>2 DEF InOrder
    <3> QED BY <1>1, <1>3, <2>1, <3>1, <3>4, <3>5, <3>7, <3>8
            DEF Gathering, Receiving, Preparing, header
  <2> QED BY <2>1, <2>2, <2>3
<1> QED
  BY <1>2, <1>4, <1>5, <1>6, KernelAt DEF Preparing

(* The workload is executed as it was streamed; its pages are there.       *)
LEMMA LaunchingStep ==
  ASSUME ModestHost, Steady, Ran, Launching, [Next]_vars
  PROVE  \/ Launching' /\ UNCHANGED executed
         \/ /\ Finished' /\ Ran' /\ Execute
            /\ executed' = Append(executed, Payloads[workload - 1])
            /\ workload = Len(executed) + 2
<1>1. RingOk /\ Asleep /\ Len(executed) \in Nat /\ executed \in Seq(Seq(Bytes))
      /\ Turn <= Len(Payloads)
  BY DEF Steady, Ran, Launching
<1>2. UNCHANGED vars \/ Kernel
  BY <1>1, Undisturbed DEF Launching
<1>3. CASE UNCHANGED vars
  <2>1. UNCHANGED executed
    BY <1>3 DEF vars, memory
  <2>2. Turn' = Turn /\ Current' = Current
    BY <2>1, SameTurn
  <2> QED BY <1>3, <2>1, <2>2 DEF vars, Launching, host, loader, memory
<1>4. CASE Kernel
  <2>1. Execute
    BY <1>4, KernelAt DEF Launching
  <2>2. Current \in Seq(Bytes) /\ Len(Current) \in Nat \ {0} /\ Turn \in 1 .. Len(Payloads)
        /\ Len(Payloads) \in Nat
    BY <1>1, CurrentFact
  <2>3. number_of_bytes = Len(Current) /\ number_of_bytes <= heap * PageBytes
        /\ 0 .. (number_of_bytes - 1) \subseteq DOMAIN mem
    BY DEF Launching, Steady, Landing, Mapped
  <2>4. heap # 0
    BY <2>2, <2>3, Sizes
  <2>5. Launched = Current
    <3>1. \A o \in 1 .. Len(Current) : o - 1 \in 0 .. (number_of_bytes - 1) /\ (o - 1) + 1 = o
      BY <2>2, <2>3
    <3>2. \A o \in 1 .. Len(Current) : o - 1 \in DOMAIN mem /\ mem[o - 1] = Current[o]
      BY <2>3, <3>1 DEF Launching
    <3>3. Current = [o \in 1 .. Len(Current) |-> Current[o]]
      BY <2>2
    <3> QED BY <2>3, <3>2, <3>3 DEF Launched
  <2>6. /\ pc' = "free" /\ executed' = Append(executed, Current) /\ UNCHANGED host
    BY <2>1, <2>4, <2>5 DEF Execute, Goto, Unshared
  <2>7. Len(executed') = Turn /\ executed' \in Seq(Seq(Bytes))
    BY <1>1, <2>2, <2>6 DEF Turn
  <2>8. Ran'
    <3> DEFINE n == Len(executed)
    <3>1. executed = SubSeq(Payloads, 1, n) /\ n + 1 = Turn /\ Payloads \in Seq(Seq(Bytes))
      BY ReceiveAssumption DEF Ran, RunsWhatWasSent, Turn
    <3>2. executed' = SubSeq(Payloads, 1, Turn)
      <4>1. SubSeq(Payloads, 1, Turn) \in Seq(Seq(Bytes)) /\ Len(SubSeq(Payloads, 1, Turn)) = Turn
            /\ \A j \in 1 .. Turn : SubSeq(Payloads, 1, Turn)[j] = Payloads[j]
        BY <2>2, <3>1
      <4>2. ASSUME NEW j \in 1 .. Turn PROVE executed'[j] = Payloads[j]
        <5>1. CASE j = Turn
          BY <1>1, <2>6, <3>1, <5>1 DEF Current
        <5>2. CASE j # Turn
          <6>1. j \in 1 .. n
            BY <1>1, <3>1, <4>2, <5>2
          <6>2. executed'[j] = executed[j]
            BY <1>1, <2>2, <2>6, <6>1
          <6>3. executed[j] = Payloads[j]
            BY <1>1, <2>2, <3>1, <6>1
          <6> QED BY <6>2, <6>3
        <5> QED BY <5>1, <5>2
      <4> QED BY <2>7, <4>1, <4>2, SeqEqual
    <3> QED BY <1>1, <2>7, <3>2 DEF Ran, RunsWhatWasSent
  <2>9. Finished'
    BY <1>1, <2>6, <2>7 DEF Finished, Before, Launching, host, Turn
  <2>10. workload - 1 = Turn /\ workload = Len(executed) + 2
    BY <1>1 DEF Launching, Turn
  <2> QED BY <2>1, <2>6, <2>8, <2>9, <2>10 DEF Current
<1> QED
  BY <1>2, <1>3, <1>4

(* The pages are given back and the header state is reset.                 *)
LEMMA RestartStep ==
  ASSUME ModestHost, Steady, Ran, Finished \/ Resetting, [Next]_vars
  PROVE  Finished' \/ Resetting' \/ Looking'
<1>1. RingTyped /\ ControlTyped /\ RingOk /\ Asleep
  BY DEF Steady, Typed
<1>2. UNCHANGED executed /\ (UNCHANGED vars \/ Kernel)
  BY <1>1, ExecutedAlone, Undisturbed DEF Finished, Resetting
<1>3. Turn' = Turn
  BY <1>2, SameTurn
<1>4. CASE UNCHANGED vars
  BY <1>3, <1>4 DEF vars, Finished, Resetting, Before, host, header
<1>5. CASE ResetHeap
  BY <1>3, <1>5 DEF ResetHeap, At, Goto, Unshared, Finished, Resetting, Before, host
<1>6. CASE reset_header
  <2>1. pc = "reset" /\ k \in {1, 2, 3, 4} /\ UNCHANGED <<host, nic, rx_tail>> /\ Before
        /\ (k > 1 => ~hdr_done)
    BY <1>1, <1>6 DEF reset_header, At, Unshared, ControlTyped, Finished, Resetting
  <2>2. Before'
    BY <1>3, <2>1 DEF Before, host
  <2>3. CASE k < 4
    <3>1. pc' = pc
      BY <1>6, <2>3 DEF reset_header
    <3>2. k = 1 => ~hdr_done'
      BY <1>6 DEF reset_header
    <3>3. k = 2 => UNCHANGED hdr_done
      BY <1>6 DEF reset_header
    <3>4. k = 3 => UNCHANGED hdr_done
      BY <1>6 DEF reset_header
    <3>5. ~hdr_done'
      BY <2>1, <2>3, <3>2, <3>3, <3>4
    <3> QED BY <2>1, <2>2, <3>1, <3>5 DEF Resetting
  <2>4. CASE k = 4
    <3>1. /\ pc' = "read" /\ caller' = "unlock" /\ ~hdr_done' /\ ~rx_ready'
          /\ magic_number' = Zeros(Len(MAGIC_NUMBER))
      BY <1>6, <2>1, <2>4 DEF reset_header, Goto
    <3>2. Unread' = 0
      <4>1. Unread = 0
        BY <1>1, <1>6, <2>1, NothingUnread DEF reset_header, At
      <4> QED BY <2>1, <4>1 DEF Unread, nic
    <3>3. Queued'
      BY <3>2 DEF Queued
    <3> QED BY <2>2, <3>1, <3>3 DEF Looking
  <2> QED BY <2>1, <2>3, <2>4
<1> QED
  BY <1>2, <1>4, <1>5, <1>6, KernelAt DEF Finished, Resetting

-----------------------------------------------------------------------------
(* The payload on its way.                                                 *)

(* Chunk c + 1 of p on the wire: the bytes of p from c * ChunkBytes on, to *)
(* which only the last chunk may have padding added.                       *)
LEMMA PaddedChunk ==
  ASSUME NEW p \in Seq(Bytes), NEW c \in Nat, c < Chunks(p),
         NEW b, b = c * ChunkBytes, NEW s, s = Padded(Chunk(p, c + 1))
  PROVE  /\ b \in Nat /\ b < Len(p) /\ (c + 1) * ChunkBytes = b + ChunkBytes
         /\ s \in Seq(Bytes) /\ Len(s) <= ChunkBytes
         /\ b + ChunkBytes < Len(p) => Len(s) = ChunkBytes
         /\ ~(b + ChunkBytes < Len(p)) => Len(s) >= Len(p) - b
         /\ \A o \in 1 .. ChunkBytes : b + o <= Len(p) => s[o] = p[b + o]
<1> DEFINE L == Len(p)
           e == IF b + ChunkBytes < L THEN b + ChunkBytes ELSE L
           q == SubSeq(p, b + 1, e)
           n == IF Len(q) < HEADER_FRAME_SIZE THEN HEADER_FRAME_SIZE - Len(q) ELSE 0
<1>1. L \in Nat /\ ChunkBytes \in Nat \ {0} /\ HEADER_FRAME_SIZE \in Nat
      /\ HEADER_FRAME_SIZE <= ChunkBytes
  BY Sizes
<1>2. b \in Nat /\ (c + 1) * ChunkBytes = b + ChunkBytes
  BY <1>1
<1>3. b < L
  <2> DEFINE m == Chunks(p)
  <2>1. m \in Nat /\ (m > 0 => (m - 1) * ChunkBytes < L)
    BY ChunksFact
  <2> HIDE DEF m, L
  <2>2. c <= m - 1 /\ m > 0
    BY <2>1 DEF m
  <2>3. c * ChunkBytes <= (m - 1) * ChunkBytes /\ (m - 1) * ChunkBytes \in Nat
    BY <1>1, <2>1, <2>2
  <2> QED BY <1>1, <1>2, <2>1, <2>2, <2>3
<1>4. Chunk(p, c + 1) = q
  <2>1. (c + 1) - 1 = c
    OBVIOUS
  <2> QED BY <1>2, <2>1 DEF Chunk
<1>5. e \in Nat /\ e <= L /\ b + 1 \in Nat \ {0} /\ b < e /\ e - b <= ChunkBytes
  <2> HIDE DEF L
  <2> QED BY <1>1, <1>2, <1>3
<1> HIDE DEF e
<1>6. q \in Seq(Bytes) /\ Len(q) = e - b /\ \A o \in 1 .. (e - b) : q[o] = p[b + o]
  <2> DEFINE m == b + 1
  <2>1. m \in Int /\ e \in Int /\ m <= e /\ e - m + 1 = e - b
    BY <1>2, <1>5
  <2>2. \A j \in m .. e : p[j] \in Bytes
    <3>1. \A j \in m .. e : j \in 1 .. Len(p)
      BY <1>2, <1>5
    <3> QED BY <3>1, ElementOfSeq
  <2>3. \A o \in 1 .. (e - b) : m + o - 1 = b + o
    BY <1>2, <1>5
  <2> HIDE DEF m
  <2>4. /\ SubSeq(p, m, e) \in Seq(Bytes) /\ Len(SubSeq(p, m, e)) = e - m + 1
        /\ \A o \in 1 .. (e - m + 1) : SubSeq(p, m, e)[o] = p[m + o - 1]
    BY <2>1, <2>2, SubSeqProperties
  <2> QED BY <2>1, <2>3, <2>4 DEF m
<1> HIDE DEF q
<1>7. s = q \o Zeros(n)
  BY <1>4 DEF Padded
<1>8. n \in Nat /\ Len(q) \in Nat
      /\ Len(q) + n = IF e - b < HEADER_FRAME_SIZE THEN HEADER_FRAME_SIZE ELSE e - b
  BY <1>1, <1>2, <1>5, <1>6
<1> HIDE DEF n
<1>9. /\ s \in Seq(Bytes) /\ Len(s) = Len(q) + n
      /\ \A o \in 1 .. (e - b) : s[o] = q[o]
  <2>1. Zeros(n) \in Seq(Bytes) /\ Len(Zeros(n)) = n
    BY <1>8, ZerosFact
  <2>2. \A o \in 1 .. (Len(q) + n) : s[o] = IF o <= Len(q) THEN q[o] ELSE Zeros(n)[o - Len(q)]
    BY <1>6, <1>7, <2>1, ConcatProperties
  <2>3. \A o \in 1 .. (e - b) : o \in 1 .. (Len(q) + n) /\ o <= Len(q)
    BY <1>6, <1>8
  <2> QED BY <1>6, <1>7, <2>1, <2>2, <2>3, ConcatProperties
<1>10. \A o \in 1 .. ChunkBytes : b + o <= L => o \in 1 .. (e - b)
  <2> HIDE DEF L
  <2> QED BY <1>1, <1>2, <1>3 DEF e
<1>11. /\ Len(s) <= ChunkBytes
       /\ b + ChunkBytes < L => Len(s) = ChunkBytes
       /\ ~(b + ChunkBytes < L) => Len(s) >= L - b
  <2> HIDE DEF L
  <2> QED BY <1>1, <1>2, <1>3, <1>5, <1>8, <1>9 DEF e
<1> QED
  BY <1>2, <1>3, <1>6, <1>9, <1>10, <1>11

(* The next chunk of the workload is appended to the part that is there.   *)
LEMMA ChunkLands ==
  ASSUME DestTyped, NEW f, ToHeap(f), NEW p \in Seq(Bytes), NEW c \in Nat, c < Chunks(p),
         f.payload = Padded(Chunk(p, c + 1)), rx_expected = Len(p),
         rx_received = c * ChunkBytes, \A o \in 0 .. (rx_received - 1) : mem[o] = p[o + 1]
  PROVE  /\ rx_received' = IF (c + 1) * ChunkBytes < Len(p) THEN (c + 1) * ChunkBytes ELSE Len(p)
         /\ \A o \in 0 .. (rx_received' - 1) : o \in 0 .. (rx_received - 1) /\ o \in DOMAIN mem
              => mem'[o] = p[o + 1]
         /\ \A o \in rx_received .. (rx_received' - 1) : mem'[o] = p[o + 1]
<1> DEFINE b == c * ChunkBytes
           s == f.payload
           L == Len(p)
           n == IF Len(s) < Room THEN Len(s) ELSE Room
<1>1. /\ b \in Nat /\ b < L /\ (c + 1) * ChunkBytes = b + ChunkBytes
      /\ s \in Seq(Bytes) /\ Len(s) <= ChunkBytes
      /\ b + ChunkBytes < L => Len(s) = ChunkBytes
      /\ ~(b + ChunkBytes < L) => Len(s) >= L - b
      /\ \A o \in 1 .. ChunkBytes : b + o <= L => s[o] = p[b + o]
  BY PaddedChunk
<1>2. /\ mem' = [o \in DOMAIN mem \cup rx_received .. (rx_received + n - 1) |->
                   IF o \in rx_received .. (rx_received + n - 1)
                   THEN f.payload[o - rx_received + 1] ELSE mem[o]]
      /\ rx_received' = rx_received + n
  BY DEF ToHeap
<1>3. rx_received = b /\ ChunkBytes \in Nat /\ L \in Nat /\ Len(s) \in Nat
  BY <1>1, Sizes
<1>4. Room = L - b
  BY <1>1, <1>3 DEF Room
<1> HIDE DEF b, s, L
<1>5. n = (IF b + ChunkBytes < L THEN ChunkBytes ELSE L - b) /\ n \in Nat /\ n <= ChunkBytes
      /\ b + n <= L
  BY <1>1, <1>3, <1>4
<1> HIDE DEF n
<1>6. rx_received' = IF b + ChunkBytes < L THEN b + ChunkBytes ELSE L
  BY <1>1, <1>2, <1>3, <1>5
<1>7. ASSUME NEW o \in b .. (b + n - 1) PROVE mem'[o] = p[o + 1]
  <2>1. mem'[o] = s[o - b + 1]
    BY <1>2, <1>3, <1>7 DEF s
  <2>2. o - b + 1 \in 1 .. ChunkBytes /\ b + (o - b + 1) <= L /\ b + (o - b + 1) = o + 1
    BY <1>1, <1>3, <1>5, <1>7
  <2> QED BY <1>1, <2>1, <2>2
<1>8. ASSUME NEW o \in 0 .. (b - 1), o \in DOMAIN mem PROVE mem'[o] = p[o + 1]
  <2>1. o \notin b .. (b + n - 1)
    BY <1>1, <1>5, <1>8
  <2> QED BY <1>2, <1>3, <1>8, <2>1
<1>9. rx_received' - 1 = b + n - 1
  BY <1>1, <1>2, <1>3, <1>5
<1> QED
  BY <1>1, <1>3, <1>6, <1>7, <1>8, <1>9 DEF b, L

(* What is known of the chunks on their way and in the pages.              *)
Tallied(g) == Counted(g) /\ (g[Unread] = ChunksSent => InOrder(g))

(* The count of a queue ends where it has to.                              *)
LEMMA TalliedEnd ==
  ASSUME RingTyped, NEW g, Counted(g)
  PROVE  g[Unread] \in Nat /\ g[0] \in Nat
<1>1. Unread \in 0 .. NUM_RX_DESC /\ 0 \in 0 .. NUM_RX_DESC
  BY UnreadFact, Sizes DEF RingTyped
<1> QED
  BY <1>1 DEF Counted

(* A frame sent while kernel_main sleeps is the next chunk (d = 1) or a    *)
(* foreign one (d = 0); it joins the queue, or the ring is full.           *)
LEMMA TalliedFill ==
  ASSUME RingTyped, RingOk, NEW g, Tallied(g), NEW f, Fill(f),
         UNCHANGED <<rx_tail, dest, mem, executed>>,
         NEW d \in {0, 1}, ChunksSent \in Nat, ChunksSent' = ChunksSent + d,
         d = 0 => f \in Noise,
         d = 1 => /\ ~Ignored(f) /\ Len(f.payload) <= ChunkBytes
                  /\ ChunksSent < Chunks(Current)
                  /\ f.payload = Padded(Chunk(Current, ChunksSent + 1)),
         \A n \in Noise : Ignored(n)
  PROVE  \E h \in [0 .. NUM_RX_DESC -> Nat] : Tallied(h)'
<1> DEFINE N == NUM_RX_DESC
<1>1. PICK c : c = Unread
  OBVIOUS
<1>2. /\ N \in Nat \ {0, 1} /\ c \in 0 .. N /\ g \in [0 .. N -> Nat] /\ g[c] \in Nat
      /\ g[0] \in Nat
  BY <1>1, TalliedEnd, UnreadFact, Sizes DEF RingTyped, Tallied, Counted
<1>3. Current' = Current /\ \A j \in 0 .. (N - 1) : Slot(j)' = Slot(j)
  BY <1>1, SameTurn, Arrival
<1>4. CASE UNCHANGED <<nic, icr>>
  <2>1. Unread' = Unread /\ buf' = buf
    BY <1>4 DEF nic, Unread
  <2>2. Counted(g)'
    BY <1>1, <1>2, <1>3, <2>1 DEF Counted, Tallied, dest
  <2>3. CASE d = 1
    <3>1. g[Unread'] # ChunksSent'
      BY <1>1, <1>2, <2>1, <2>3 DEF Tallied, Counted
    <3> QED BY <1>2, <2>2, <3>1 DEF Tallied
  <2>4. CASE d = 0
    <3>1. ChunksSent' = ChunksSent
      BY <2>4
    <3>2. InOrder(g) => InOrder(g)'
      BY <1>3, <2>1 DEF InOrder, dest
    <3> QED BY <1>2, <2>1, <2>2, <3>1, <3>2 DEF Tallied
  <2> QED BY <2>3, <2>4
<1>5. CASE /\ c \in 0 .. (N - 1) /\ Unread' = c + 1
           /\ \A j \in 0 .. (N - 1) : buf'[Slot(j)] = IF j = c THEN f ELSE buf[Slot(j)]
  <2> DEFINE h == [g EXCEPT ![c + 1] = g[c] + d]
  <2>1. /\ h \in [0 .. N -> Nat] /\ h[c + 1] = g[c] + d
        /\ \A j \in 0 .. c : h[j] = g[j]
    <3>1. c + 1 \in 0 .. N /\ g[c] + d \in Nat
      BY <1>2, <1>5
    <3>2. \A j \in 0 .. c : j \in 0 .. N /\ j # c + 1
      BY <1>2, <1>5
    <3> QED BY <1>2, <3>1, <3>2
  <2> HIDE DEF h
  <2>2. h[0] = g[0] /\ h[c] = g[c]
    BY <1>5, <2>1
  <2>3. ASSUME NEW j \in 0 .. (N - 1), j < c + 1
        PROVE  \/ buf'[Slot(j)] \in Noise /\ h[j + 1] = h[j]
               \/ /\ ~Ignored(buf'[Slot(j)]) /\ h[j + 1] = h[j] + 1
                  /\ Len(buf'[Slot(j)].payload) <= ChunkBytes
    <3>1. CASE j = c
      BY <1>2, <1>5, <2>1, <2>2, <3>1
    <3>2. CASE j # c
      <4>1. j < Unread /\ j \in 0 .. c /\ j + 1 \in 0 .. c
        BY <1>1, <1>2, <1>5, <2>3, <3>2
      <4>2. \/ buf[Slot(j)] \in Noise /\ g[j + 1] = g[j]
            \/ /\ ~Ignored(buf[Slot(j)]) /\ g[j + 1] = g[j] + 1
               /\ Len(buf[Slot(j)].payload) <= ChunkBytes
        BY <4>1 DEF Tallied, Counted
      <4> QED BY <1>5, <2>1, <3>2, <4>1, <4>2
    <3> QED BY <3>1, <3>2
  <2>4. Counted(h)'
    <3>1. h[Unread'] <= ChunksSent'
      BY <1>1, <1>2, <1>5, <2>1 DEF Tallied, Counted
    <3>2. rx_received' <= h[0] * ChunkBytes
      BY <2>2 DEF Tallied, Counted, dest
    <3> QED BY <1>3, <1>5, <2>1, <2>3, <3>1, <3>2 DEF Counted
  <2>5. ASSUME h[Unread'] = ChunksSent' PROVE InOrder(h)'
    <3>1. g[Unread] = ChunksSent
      BY <1>1, <1>2, <1>5, <2>1, <2>5
    <3>2. InOrder(g)
      BY <3>1 DEF Tallied
    <3>3. ASSUME NEW j \in 0 .. (N - 1), j < c + 1, ~Ignored(buf'[Slot(j)])
          PROVE  h[j] < Chunks(Current) /\ buf'[Slot(j)].payload = Padded(Chunk(Current, h[j] + 1))
      <4>1. CASE j = c
        <5>1. buf'[Slot(j)] = f /\ d = 1
          BY <1>5, <3>3, <4>1
        <5> QED BY <1>1, <2>2, <3>1, <4>1, <5>1
      <4>2. CASE j # c
        <5>1. j < Unread /\ j \in 0 .. c
          BY <1>1, <1>2, <1>5, <3>3, <4>2
        <5> QED BY <1>5, <2>1, <3>2, <3>3, <4>2, <5>1 DEF InOrder
      <4> QED BY <4>1, <4>2
    <3>4. /\ rx_received' = IF h[0] * ChunkBytes < Len(Current) THEN h[0] * ChunkBytes
                            ELSE Len(Current)
          /\ \A o \in 0 .. (rx_received' - 1) : mem'[o] = Current[o + 1]
      BY <2>2, <3>2 DEF InOrder, dest
    <3> QED BY <1>3, <1>5, <3>3, <3>4 DEF InOrder
  <2> QED BY <2>1, <2>4, <2>5 DEF Tallied
<1> QED
  BY <1>1, <1>4, <1>5, Arrival

(* The handler delivers the first frame of the queue.                      *)
LEMMA TalliedDrain ==
  ASSUME RingTyped, RingOk, DestTyped, NEW g, Tallied(g), IrqDrain,
         hdr_done, rx_dest # 0, rx_expected = Len(Current), Current \in Seq(Bytes),
         0 .. (rx_received - 1) \subseteq DOMAIN mem,
         ChunksSent' = ChunksSent, \A n \in Noise : Ignored(n)
  PROVE  \E h \in [0 .. NUM_RX_DESC -> Nat] : Tallied(h)'
<1> DEFINE N == NUM_RX_DESC
           f == buf[rx_tail]
<1>1. PICK c : c = Unread
  OBVIOUS
<1>2. /\ c \in 1 .. N /\ Unread' = c - 1 /\ rx_tail = Slot(0)
      /\ \A j \in 0 .. (N - 1) : Slot(j)' = Slot(j + 1)
      /\ buf' = buf
  BY <1>1, Departure
<1>3. /\ N \in Nat \ {0, 1} /\ g \in [0 .. N -> Nat]
  BY Sizes DEF Tallied, Counted
<1>4. Current' = Current
  BY SameTurn DEF IrqDrain
<1>5. IsFrame(f) /\ network_receive_frame(f)
  BY DrainsFrame
<1>6. \/ f \in Noise /\ g[1] = g[0]
      \/ ~Ignored(f) /\ g[1] = g[0] + 1 /\ Len(f.payload) <= ChunkBytes
  <2>1. 0 \in 0 .. (N - 1) /\ 0 < Unread /\ 0 + 1 = 1
    BY <1>1, <1>2, <1>3
  <2> QED BY <1>2, <2>1 DEF Tallied, Counted
<1>7. g[0] \in Nat /\ g[1] \in Nat /\ rx_received \in Nat /\ ChunkBytes \in Nat
      /\ rx_received <= g[0] * ChunkBytes
  <2>1. 0 \in 0 .. N /\ 1 \in 0 .. N
    BY <1>3
  <2> QED BY <1>3, <2>1, Sizes DEF Tallied, Counted, DestTyped
<1>8. rx_received' <= g[1] * ChunkBytes
  <2>1. CASE Ignored(f)
    <3>1. UNCHANGED dest /\ g[1] = g[0]
      BY <1>5, <1>6, <2>1 DEF network_receive_frame, ToHeader, ToHeap, Dropped
    <3> QED BY <1>7, <3>1 DEF dest
  <2>2. CASE ~Ignored(f)
    <3>1. g[1] = g[0] + 1 /\ Len(f.payload) <= ChunkBytes /\ ToHeap(f)
      BY <1>5, <1>6, <2>2 DEF network_receive_frame, ToHeader, Dropped
    <3> DEFINE n == IF Len(f.payload) < Room THEN Len(f.payload) ELSE Room
    <3>2. rx_received' = rx_received + n
      BY <3>1 DEF ToHeap
    <3>3. n \in Nat /\ n <= ChunkBytes
      BY <1>5, <1>7, <3>1 DEF IsFrame, Room, DestTyped
    <3> HIDE DEF n
    <3>4. (g[0] + 1) * ChunkBytes = g[0] * ChunkBytes + ChunkBytes /\ g[0] * ChunkBytes \in Nat
      <4> DEFINE a == g[0]
      <4>1. a \in Nat
        BY <1>7
      <4> HIDE DEF a
      <4>2. (a + 1) * ChunkBytes = a * ChunkBytes + ChunkBytes /\ a * ChunkBytes \in Nat
        BY <1>7, <4>1
      <4> QED BY <4>2 DEF a
    <3> QED BY <1>7, <3>1, <3>2, <3>3, <3>4
  <2> QED BY <2>1, <2>2
<1>9. ASSUME g[Unread] = ChunksSent
      PROVE  /\ rx_received' = IF g[1] * ChunkBytes < Len(Current) THEN g[1] * ChunkBytes
                               ELSE Len(Current)
             /\ \A o \in 0 .. (rx_received' - 1) : mem'[o] = Current[o + 1]
  <2>1. InOrder(g)
    BY <1>9 DEF Tallied
  <2>2. CASE Ignored(f)
    <3>1. UNCHANGED <<dest, mem>> /\ g[1] = g[0]
      BY <1>5, <1>6, <2>2 DEF network_receive_frame, ToHeader, ToHeap, Dropped
    <3> QED BY <2>1, <3>1 DEF InOrder, dest
  <2>3. CASE ~Ignored(f)
    <3>1. g[1] = g[0] + 1 /\ ToHeap(f)
      BY <1>5, <1>6, <2>3 DEF network_receive_frame, ToHeader, Dropped
    <3>2. g[0] < Chunks(Current) /\ f.payload = Padded(Chunk(Current, g[0] + 1))
      <4>1. 0 \in 0 .. (N - 1) /\ 0 < Unread
        BY <1>1, <1>2, <1>3
      <4> QED BY <1>2, <2>1, <2>3, <4>1 DEF InOrder
    <3>3. PICK p \in Seq(Bytes) : p = Current
      OBVIOUS
    <3>4. PICK a \in Nat : a = g[0]
      BY <1>7
    <3>5. a < Chunks(p) /\ f.payload = Padded(Chunk(p, a + 1))
      BY <3>2, <3>3, <3>4
    <3>6. a * ChunkBytes < Len(p)
      BY <3>5, PaddedChunk
    <3>7. /\ rx_expected = Len(p) /\ rx_received = a * ChunkBytes
          /\ \A o \in 0 .. (rx_received - 1) : mem[o] = p[o + 1]
      BY <2>1, <3>3, <3>4, <3>6 DEF InOrder
    <3>8. /\ rx_received' = IF (a + 1) * ChunkBytes < Len(p) THEN (a + 1) * ChunkBytes
                            ELSE Len(p)
          /\ \A o \in 0 .. (rx_received' - 1) : o \in 0 .. (rx_received - 1) /\ o \in DOMAIN mem
                => mem'[o] = p[o + 1]
          /\ \A o \in rx_received .. (rx_received' - 1) : mem'[o] = p[o + 1]
      BY <3>1, <3>5, <3>7, ChunkLands
    <3>9. ASSUME NEW o \in 0 .. (rx_received' - 1) PROVE mem'[o] = p[o + 1]
      <4>1. o \in 0 .. (rx_received - 1) \/ o \in rx_received .. (rx_received' - 1)
        BY <1>7, <3>9
      <4> QED BY <3>8, <3>9, <4>1
    <3> QED BY <3>1, <3>3, <3>4, <3>8, <3>9
  <2> QED BY <2>2, <2>3
<1> DEFINE h == [j \in 0 .. N |-> IF j < N THEN g[j + 1] ELSE g[N]]
<1>10. /\ h \in [0 .. N -> Nat]
       /\ \A j \in 0 .. (N - 1) : h[j] = g[j + 1]
  <2>1. \A j \in 0 .. N : (IF j < N THEN g[j + 1] ELSE g[N]) \in Nat
    BY <1>3
  <2>2. \A j \in 0 .. (N - 1) : j \in 0 .. N /\ j < N
    BY <1>3
  <2> QED BY <2>1, <2>2
<1> HIDE DEF h
<1>11. h[0] = g[1] /\ h[Unread'] = g[Unread]
  <2>1. 0 \in 0 .. (N - 1) /\ 0 + 1 = 1 /\ c - 1 \in 0 .. (N - 1) /\ (c - 1) + 1 = c
    BY <1>2, <1>3
  <2> QED BY <1>1, <1>2, <1>10, <2>1
<1>12. ASSUME NEW j \in 0 .. (N - 1), j < c - 1
       PROVE  /\ j + 1 \in 0 .. (N - 1) /\ j + 1 < Unread
              /\ h[j] = g[j + 1] /\ h[j + 1] = g[(j + 1) + 1]
              /\ (buf[Slot(j)])' = buf[Slot(j + 1)]
  <2>1. j + 1 \in 0 .. (N - 1) /\ j + 1 < Unread
    BY <1>1, <1>2, <1>3, <1>12
  <2> QED BY <1>2, <1>10, <2>1
<1>13. Counted(h)'
  <2>1. ASSUME NEW j \in 0 .. (N - 1), j < c - 1
        PROVE  \/ (buf[Slot(j)])' \in Noise /\ h[j + 1] = h[j]
               \/ /\ ~Ignored(buf[Slot(j)])' /\ h[j + 1] = h[j] + 1
                  /\ Len((buf[Slot(j)])'.payload) <= ChunkBytes
    <3>1. \/ buf[Slot(j + 1)] \in Noise /\ g[(j + 1) + 1] = g[j + 1]
          \/ /\ ~Ignored(buf[Slot(j + 1)]) /\ g[(j + 1) + 1] = g[j + 1] + 1
             /\ Len(buf[Slot(j + 1)].payload) <= ChunkBytes
      BY <1>12, <2>1 DEF Tallied, Counted
    <3> QED BY <1>12, <2>1, <3>1 DEF Ignored
  <2>2. h[Unread'] <= ChunksSent'
    BY <1>11 DEF Tallied, Counted
  <2> QED BY <1>2, <1>8, <1>10, <1>11, <2>1, <2>2 DEF Counted
<1>14. ASSUME h[Unread'] = ChunksSent' PROVE InOrder(h)'
  <2>1. g[Unread] = ChunksSent /\ InOrder(g)
    BY <1>11, <1>14 DEF Tallied
  <2>2. ASSUME NEW j \in 0 .. (N - 1), j < c - 1, ~Ignored((buf[Slot(j)])')
        PROVE  /\ h[j] < Chunks(Current)
               /\ (buf[Slot(j)])'.payload = Padded(Chunk(Current, h[j] + 1))
    <3>1. ~Ignored(buf[Slot(j + 1)])
      BY <1>12, <2>2
    <3>2. /\ g[j + 1] < Chunks(Current)
          /\ buf[Slot(j + 1)].payload = Padded(Chunk(Current, g[j + 1] + 1))
      BY <1>12, <2>1, <2>2, <3>1 DEF InOrder
    <3> QED BY <1>12, <2>2, <3>2
  <2> QED BY <1>2, <1>4, <1>9, <1>11, <2>1, <2>2 DEF InOrder, Ignored
<1> QED
  BY <1>10, <1>13, <1>14 DEF Tallied

(* What the host has sent of the workload that is gathered.                *)
LEMMA ChunksSentFact ==
  ASSUME ModestHost, Ran, Gathering
  PROVE  /\ ChunksSent \in Nat
         /\ IF workload = Turn THEN ChunksSent < Chunks(Current) ELSE ChunksSent = Chunks(Current)
         /\ Current \in Seq(Bytes) /\ Len(Current) \in Nat \ {0}
         /\ Turn \in 1 .. Len(Payloads) /\ Turn \in Nat
<1>1. Len(executed) \in Nat /\ Turn <= Len(Payloads)
  BY DEF Ran, Gathering
<1>2. Current \in Seq(Bytes) /\ Len(Current) \in Nat \ {0} /\ Turn \in 1 .. Len(Payloads)
      /\ Chunks(Current) \in Nat \ {0} /\ Len(Payloads) \in Nat
  BY <1>1, CurrentFact
<1> QED
  BY <1>2 DEF Gathering, ChunksSent

(* The tally is the ring's, the pages' and the host's.                     *)
LEMMA TalliedSame ==
  ASSUME NEW g, Tallied(g), UNCHANGED <<nic, rx_tail, dest, mem, executed, host>>
  PROVE  Tallied(g)'
<1>1. UNCHANGED <<dd, buf, rx_received, workload, sent>> /\ Current' = Current /\ Turn' = Turn
  BY SameTurn DEF nic, dest, host
<1>2. Unread' = Unread /\ \A j : Slot(j)' = Slot(j)
  BY <1>1 DEF Unread, Slot
<1>3. ChunksSent' = ChunksSent
  BY <1>1 DEF ChunksSent
<1> QED
  BY <1>1, <1>2, <1>3 DEF Tallied, Counted, InOrder

(* kernel_main waits until the counter says that everything is there; then *)
(* nothing was lost on the way.                                            *)
LEMMA GatheringStep ==
  ASSUME ModestHost, Steady, Ran, Gathering, [Next]_vars
  PROVE  Gathering' \/ Launching'
<1>1. /\ RingTyped /\ HostTyped /\ DestTyped /\ ControlTyped /\ RingOk /\ Asleep
      /\ number_of_bytes \in Nat
  BY DEF Steady, Typed, NumberTyped
<1>2. pc \in {"wait", "hlt", "halted"} /\ caller = "payload"
  BY <1>1 DEF Gathering, Receiving, ControlTyped
<1>3. UNCHANGED executed
  BY <1>2, ExecutedAlone
<1>4. Turn' = Turn /\ Current' = Current
  BY <1>3, SameTurn
<1>5. /\ ChunksSent \in Nat
      /\ IF workload = Turn THEN ChunksSent < Chunks(Current) ELSE ChunksSent = Chunks(Current)
      /\ Current \in Seq(Bytes) /\ Len(Current) \in Nat \ {0}
      /\ Turn \in 1 .. Len(Payloads) /\ Turn \in Nat
  BY ChunksSentFact
<1>6. PICK g \in [0 .. NUM_RX_DESC -> Nat] : Tallied(g)
  BY DEF Gathering, Tallied
<1>7. \A n \in Noise : Ignored(n)
  BY DEF ModestHost
<1>8. CASE HostSends
  <2>1. /\ UNCHANGED <<rx_tail, dest, header, irq, pc, k, loader, locals, memory>>
        /\ Fill(Stream(Payloads[workload])[sent + 1])
        /\ sent # 0
        /\ Stream(Payloads[workload])[sent + 1] = Work("data", Chunk(Payloads[workload], sent))
        /\ IF sent = Chunks(Payloads[workload])
           THEN workload' = workload + 1 /\ sent' = 0
           ELSE workload' = workload /\ sent' = sent + 1
    BY <1>1, <1>2, <1>8, HostWire
  <2>2. workload = Turn /\ sent \in 1 .. Chunks(Current) /\ Payloads[workload] = Current
    BY <2>1 DEF Gathering, Current
  <2>3. PICK f : Fill(f) /\ f = Work("data", Chunk(Current, sent))
    BY <2>1, <2>2
  <2>4. ChunksSent = sent - 1 /\ ChunksSent + 1 = sent /\ ChunksSent' = ChunksSent + 1
    <3>1. sent \in Nat /\ Chunks(Current) \in Nat
      BY <2>2, <1>5, ChunksFact
    <3>2. CASE sent = Chunks(Current)
      BY <1>4, <1>5, <2>1, <2>2, <3>1, <3>2 DEF ChunksSent
    <3>3. CASE sent # Chunks(Current)
      BY <1>4, <2>1, <2>2, <3>1, <3>3 DEF ChunksSent
    <3> QED BY <3>2, <3>3
  <2>5. f.payload = Padded(Chunk(Current, ChunksSent + 1)) /\ ~Ignored(f)
    BY <2>3, <2>4 DEF Work, Ignored
  <2>6. Len(f.payload) <= ChunkBytes /\ ChunksSent < Chunks(Current)
    <3>1. ChunksSent < Chunks(Current)
      BY <1>5, <2>2
    <3> QED BY <1>5, <2>5, <3>1, PaddedChunk
  <2>7. \E h \in [0 .. NUM_RX_DESC -> Nat] : Tallied(h)'
    <3>1. UNCHANGED <<rx_tail, dest, mem, executed>>
      BY <2>1 DEF memory
    <3>2. PICK d \in {0, 1} : d = 1
      OBVIOUS
    <3>3. ChunksSent' = ChunksSent + d
      BY <2>4, <3>2
    <3> QED BY <1>1, <1>5, <1>6, <1>7, <2>3, <2>5, <2>6, <3>1, <3>2, <3>3, TalliedFill
  <2>8. \/ workload' = Turn /\ sent' \in 1 .. Chunks(Current)
        \/ workload' = Turn + 1 /\ sent' = 0
    <3>1. Chunks(Current) \in Nat
      BY <1>5, ChunksFact
    <3> QED BY <2>1, <2>2, <3>1
  <2> QED BY <1>4, <2>1, <2>7, <2>8 DEF Gathering, Receiving, header, dest, loader, Tallied
<1>9. CASE NoiseArrives
  <2>1. PICK f \in Noise : Fill(f)
    BY <1>9, NoiseWire
  <2>2. UNCHANGED <<workload, sent, rx_tail, dest, header, irq, pc, k, loader, locals, memory>>
    BY <1>9, NoiseWire
  <2>3. ChunksSent' = ChunksSent
    BY <1>4, <2>2 DEF ChunksSent
  <2>4. \E h \in [0 .. NUM_RX_DESC -> Nat] : Tallied(h)'
    <3>1. UNCHANGED <<rx_tail, dest, mem, executed>>
      BY <2>2 DEF memory
    <3>2. PICK d \in {0, 1} : d = 0
      OBVIOUS
    <3>3. ChunksSent' = ChunksSent + d
      BY <1>5, <2>3, <3>2
    <3> QED BY <1>1, <1>5, <1>6, <1>7, <2>1, <3>1, <3>2, <3>3, TalliedFill
  <2> QED BY <1>4, <2>2, <2>4 DEF Gathering, Receiving, header, dest, loader, Tallied
<1>10. CASE IrqEnter
  <2>1. /\ UNCHANGED <<host, nic, rx_tail, dest, header, loader, memory>>
        /\ icr /\ pc' = IF pc # "halted" THEN pc ELSE IF caller = "payload" THEN "wait" ELSE "read"
    BY <1>10 DEF IrqEnter
  <2>2. pc' = "wait"
    BY <1>1, <1>2, <2>1 DEF Asleep
  <2>3. Tallied(g)'
    BY <1>6, <2>1, TalliedSame DEF memory
  <2> QED BY <1>4, <2>1, <2>2, <2>3 DEF Gathering, Receiving, host, header, dest, loader, Tallied
<1>11. CASE IrqDrain
  <2>1. /\ network_receive_frame(buf[rx_tail])
        /\ UNCHANGED <<host, pc, loader, executed>>
    BY <1>11 DEF IrqDrain
  <2>2. UNCHANGED <<hdr_done, rx_dest>>
    BY <2>1 DEF network_receive_frame, ToHeader, ToHeap, Dropped, Gathering, header, dest
  <2>3. rx_expected = Len(Current) /\ 0 .. (rx_received - 1) \subseteq DOMAIN mem
    BY DEF Gathering, Steady, Landing, Open
  <2>4. ChunksSent' = ChunksSent
    BY <1>4, <2>1 DEF ChunksSent, host
  <2>5. \E h \in [0 .. NUM_RX_DESC -> Nat] : Tallied(h)'
    BY <1>1, <1>5, <1>6, <1>7, <1>11, <2>3, <2>4, TalliedDrain DEF Gathering, HEAP_START
  <2> QED BY <1>4, <2>1, <2>2, <2>5 DEF Gathering, Receiving, host, loader, Tallied
<1>12. CASE IrqExit \/ UNCHANGED vars
  <2>1. UNCHANGED <<host, nic, rx_tail, dest, header, pc, loader, memory>>
    BY <1>12 DEF IrqExit, vars
  <2>2. Tallied(g)'
    BY <1>6, <2>1, TalliedSame DEF memory
  <2> QED BY <1>4, <2>1, <2>2 DEF Gathering, Receiving, host, header, dest, loader, Tallied
<1>13. CASE Halt
  <2>1. UNCHANGED <<host, nic, rx_tail, dest, header, loader, memory>> /\ pc' = "halted"
    BY <1>13 DEF Halt, Unshared, Goto
  <2>2. Tallied(g)'
    BY <1>6, <2>1, TalliedSame DEF memory
  <2> QED BY <1>2, <1>4, <2>1, <2>2 DEF Gathering, Receiving, host, header, dest, loader, Tallied
<1>14. CASE poll_payload
  <2>1. /\ UNCHANGED <<host, nic, rx_tail, dest, header, loader, memory>>
        /\ pc' = IF rx_received < number_of_bytes THEN "hlt" ELSE "exec"
    BY <1>14 DEF poll_payload, Unshared, Goto
  <2>2. CASE rx_received < number_of_bytes
    <3>1. Tallied(g)'
      BY <1>6, <2>1, TalliedSame DEF memory
    <3> QED BY <1>2, <1>4, <2>1, <2>2, <3>1
            DEF Gathering, Receiving, host, header, dest, loader, Tallied
  <2>3. CASE ~(rx_received < number_of_bytes)
    <3> DEFINE a == g[0]
               m == Chunks(Current)
               L == Len(Current)
    <3>1. Unread = 0
      BY <1>1, <1>14, NothingUnread DEF poll_payload, At
    <3>2. a \in Nat /\ a <= ChunksSent /\ rx_received <= a * ChunkBytes /\ g[Unread] = a
      BY <1>1, <1>6, <3>1, TalliedEnd DEF Tallied, Counted
    <3>3. m \in Nat /\ (m - 1) * ChunkBytes < L /\ L \in Nat /\ ChunkBytes \in Nat
          /\ m > 0
      BY <1>5, CurrentFact, Sizes DEF Ran, Gathering
    <3>4. L <= rx_received /\ rx_received \in Nat
      BY <1>1, <2>3 DEF Gathering, DestTyped
    <3>5. ~(a <= m - 1)
      <4> HIDE DEF a, m, L
      <4>1. a <= m - 1 => a * ChunkBytes <= (m - 1) * ChunkBytes
        BY <3>2, <3>3
      <4>2. a * ChunkBytes \in Nat /\ (m - 1) * ChunkBytes \in Int
        BY <3>2, <3>3
      <4> QED BY <3>2, <3>3, <3>4, <4>1, <4>2
    <3>6. workload # Turn /\ ChunksSent = a
      <4> HIDE DEF a
      <4> QED BY <1>5, <3>2, <3>3, <3>5
    <3>7. InOrder(g)
      BY <1>6, <3>2, <3>6 DEF Tallied
    <3>8. \A o \in 0 .. (number_of_bytes - 1) : mem[o] = Current[o + 1]
      <4>1. \A o \in 0 .. (number_of_bytes - 1) : o \in 0 .. (rx_received - 1)
        BY <1>1, <2>3, <3>4
      <4> QED BY <3>7, <4>1 DEF InOrder
    <3> QED BY <1>4, <2>1, <2>3, <3>6, <3>8 DEF Launching, Gathering, host, loader, memory
  <2> QED BY <2>2, <2>3
<1> QED
  BY <1>2, <1>8, <1>9, <1>10, <1>11, <1>12, <1>13, <1>14, KernelAt DEF Next, Interrupt

-----------------------------------------------------------------------------
(* The whole.                                                              *)

(* The inductive invariant of a modest host's machine.                     *)
Whole == Steady /\ Serving

(* A machine that starts has run nothing and resets its header state.      *)
LEMMA WholeInit ==
  ASSUME Init PROVE Whole
<1>1. Steady
  BY InitTyped, PacedInit, InitLanding DEF Steady
<1>2. executed = <<>> /\ Len(executed) = 0 /\ workload = 1 /\ sent = 0 /\ pc = "reset" /\ k = 1
  BY DEF Init
<1>3. executed \in Seq(Seq(Bytes)) /\ Len(executed) <= Len(Payloads)
  BY <1>2, ReceiveAssumption
<1>4. RunsWhatWasSent
  <2>1. SubSeq(Payloads, 1, 0) = <<>>
    BY SubSeqEmpty
  <2> QED BY <1>2, <2>1 DEF RunsWhatWasSent
<1>5. Resetting
  BY <1>2 DEF Resetting, Before, Turn
<1> QED
  BY <1>1, <1>3, <1>4, <1>5 DEF Whole, Serving

(* From phase to phase; between two launches nothing is run.               *)
LEMMA WholeStep ==
  ASSUME ModestHost, Whole, [Next]_vars
  PROVE  /\ Whole'
         /\ \/ UNCHANGED executed
            \/ /\ Execute /\ workload = Len(executed) + 2
               /\ executed' = Append(executed, Payloads[workload - 1])
<1>1. Steady /\ Ran
  BY DEF Whole, Serving, Ran
<1>2. Steady'
  BY <1>1, NextTyped, PacedStep, LandingStep DEF Steady, ModestHost
<1>3. CASE Launching
  BY <1>1, <1>2, <1>3, LaunchingStep DEF Whole, Serving, Ran, RunsWhatWasSent
<1>4. CASE ~Launching
  <2>1. pc # "exec"
    BY <1>4 DEF Whole, Serving, Resetting, Looking, Reading, AtByte, Preparing, Gathering,
       Receiving, Finished
  <2>2. UNCHANGED executed
    BY <2>1, ExecutedAlone
  <2>3. Ran'
    BY <1>1, <2>2 DEF Ran, RunsWhatWasSent
  <2>4. (Resetting \/ Looking \/ Reading \/ Preparing \/ Gathering \/ Launching \/ Finished)'
    BY <1>1, <1>4, LookingStep, ReadingStep, PreparingStep, GatheringStep, RestartStep
       DEF Whole, Serving
  <2> QED BY <1>2, <2>2, <2>3, <2>4 DEF Whole, Serving, Ran
<1> QED
  BY <1>3, <1>4

(* The host streams the workload whose turn it is.                         *)
LEMMA SendsInTurn ==
  ASSUME ModestHost, Whole, HostSends
  PROVE  workload = Turn /\ workload <= Len(Payloads) /\ UNCHANGED executed
         /\ workload' \in {workload, workload + 1}
<1>1. HostTyped /\ ControlTyped
  BY DEF Whole, Steady, Typed
<1>2. /\ pc = "halted" /\ UNCHANGED memory /\ workload' \in {workload, workload + 1}
      /\ workload \in 1 .. Len(Payloads) /\ Len(Payloads) \in Nat
      /\ sent = 0 => caller = "unlock"
      /\ sent # 0 => caller = "payload"
  BY <1>1, HostWire, ReceiveAssumption
<1>3. Looking \/ Gathering
  BY <1>2 DEF Whole, Serving, Resetting, Reading, AtByte, Preparing, Launching, Finished
<1>4. workload = Turn
  <2>1. CASE Looking
    BY <2>1 DEF Looking, Before, Announced
  <2>2. CASE Gathering
    BY <1>2, <2>2 DEF Gathering, Receiving
  <2> QED BY <1>3, <2>1, <2>2
<1> QED
  BY <1>2, <1>4 DEF memory

(* The workloads stay in the order of their streams, and every one that is *)
(* run is run whole and as it was sent, whatever its size, the ring's and  *)
(* the page's, and whatever foreign frames come between.                   *)
THEOREM RunInOrder ==
  ASSUME ModestHost PROVE Spec => []RunsWhatWasSent
<1>1. Init => Whole
  BY WholeInit
<1>2. Whole /\ [Next]_vars => Whole'
  BY WholeStep
<1>3. Whole => RunsWhatWasSent
  BY DEF Whole, Serving
<1> QED
  BY <1>1, <1>2, <1>3, PTL DEF Spec

(* The machine implements the safety part of WorkloadService: a workload   *)
(* is streamed only when the last one has been run, and run, unchanged and *)
(* once, only when its last frame has been sent.                           *)
THEOREM ServiceImplemented ==
  ASSUME ModestHost PROVE Spec => WS!Init /\ [][WS!Stream \/ WS!Run]_WS!vars
<1>1. Init => Whole /\ WS!Init
  <2>1. Init => workload - 1 = 0 /\ executed = <<>>
    BY DEF Init
  <2>2. Init => WS!Init
    BY <2>1 DEF WS!Init
  <2> QED BY <2>2, WholeInit
<1>2. Whole /\ [Next]_vars => Whole'
  BY WholeStep
<1>3. Whole /\ [Next]_vars => [WS!Stream \/ WS!Run]_WS!vars
  <2> SUFFICES ASSUME Whole, [Next]_vars PROVE [WS!Stream \/ WS!Run]_WS!vars
    OBVIOUS
  <2>1. Len(executed) \in Nat /\ Len(Payloads) \in Nat /\ workload \in Nat
    BY ReceiveAssumption DEF Whole, Serving, Steady, Typed, HostTyped
  <2>2. CASE HostSends
    <3>1. workload = Len(executed) + 1 /\ workload <= Len(Payloads) /\ UNCHANGED executed
          /\ workload' \in {workload, workload + 1}
      BY <2>2, SendsInTurn DEF Turn
    <3>2. CASE workload' = workload
      BY <3>1, <3>2 DEF WS!vars
    <3>3. CASE workload' = workload + 1
      <4>1. /\ workload - 1 < Len(Payloads) /\ workload - 1 = Len(executed)
            /\ workload' - 1 = (workload - 1) + 1
        BY <2>1, <3>1, <3>3
      <4> QED BY <3>1, <4>1 DEF WS!Stream
    <3> QED BY <3>1, <3>2, <3>3
  <2>3. CASE ~HostSends
    <3>1. workload' = workload
      BY <2>3, HostAlone DEF host, NoiseArrives
    <3>2. CASE UNCHANGED executed
      BY <3>1, <3>2 DEF WS!vars
    <3>3. CASE workload = Len(executed) + 2 /\ executed' = Append(executed, Payloads[workload - 1])
      <4>1. Len(executed) < workload - 1 /\ workload' - 1 = workload - 1
        BY <2>1, <3>1, <3>3
      <4> QED BY <3>3, <4>1 DEF WS!Run
    <3> QED BY <3>2, <3>3, WholeStep
  <2> QED BY <2>2, <2>3
<1> QED
  BY <1>1, <1>2, <1>3, PTL DEF Spec
=============================================================================
