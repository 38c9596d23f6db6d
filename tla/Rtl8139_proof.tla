--------------------------- MODULE Rtl8139_proof ---------------------------
(* Proofs about Rtl8139, for every size of the ring, every register that   *)
(* holds it a whole number of times, all lengths of frames that fit and    *)
(* any number of them, if interrupts are taken in time (Prompt).           *)
EXTENDS Rtl8139, NatFacts, SequenceTheorems

(* RingAssumption, conjunct by conjunct.                                   *)
LEMMA RingConstants ==
  /\ RING \in Nat \ {0} /\ RING % 4 = 0 /\ WORD \in Nat \ {0} /\ WORD % RING = 0
  /\ Lengths \subseteq Nat /\ (\A len \in Lengths : len > 4 /\ len + 8 <= RING)
  /\ FrameBound \in Nat
BY RingAssumption

-----------------------------------------------------------------------------
(* The arithmetic of the ring: multiples of 4, the size of a packet, the   *)
(* end of the ring and CAPR.                                               *)

(* Rounding to 4: the next multiple, less than 4 away.                     *)
LEMMA RoundUp ==
  ASSUME NEW n \in Nat
  PROVE  /\ Aligned(n) = Rounded(n) /\ Rounded(n) \in Nat /\ Rounded(n) % 4 = 0
         /\ n <= Rounded(n) /\ Rounded(n) < n + 4
<1> DEFINE q == (n + 3) \div 4
<1>1. q \in Nat /\ 4 * q <= n + 3 /\ n + 3 < 4 * q + 4
  BY DivNat
<1>2. (q * 4 + 0) % 4 = 0
  BY <1>1, DivModOf
<1>3. Aligned(n) = Rounded(n) /\ Rounded(n) = q * 4
  BY DEF Aligned, Rounded
<1> HIDE DEF q
<1> QED
  BY <1>1, <1>2, <1>3

(* A multiple of 4 stays out of the rounding.                              *)
LEMMA RoundUpFrom ==
  ASSUME NEW p \in Nat, p % 4 = 0, NEW n \in Nat
  PROVE  Rounded(p + n) = p + Rounded(n)
<1> DEFINE a == p \div 4
           q == (n + 3) \div 4
           r == (n + 3) % 4
<1>1. a \in Nat /\ p = 4 * a
  BY DivNat, DivMod
<1>2. q \in Nat /\ r \in 0 .. 3 /\ n + 3 = 4 * q + r
  BY DivNat, DivMod
<1>3. ((a + q) * 4 + r) \div 4 = a + q
  <2> HIDE DEF a, q, r
  <2>1. a + q \in Int
    BY <1>1, <1>2
  <2> QED BY <1>2, <2>1, DivModOf
<1>4. p + n + 3 = (a + q) * 4 + r
  <2> HIDE DEF a, q, r
  <2> QED BY <1>1, <1>2
<1>5. (p + n + 3) \div 4 = a + q
  BY <1>3, <1>4
<1>6. Rounded(p + n) = (a + q) * 4 /\ Rounded(n) = q * 4
  BY <1>5 DEF Rounded
<1> HIDE DEF a, q, r
<1> QED
  BY <1>1, <1>2, <1>6

(* The sum of multiples of 4 is one.                                       *)
LEMMA SumOfFours ==
  ASSUME NEW a \in Int, NEW b \in Int, a % 4 = 0, b % 4 = 0
  PROVE  (a + b) % 4 = 0 /\ (a - b) % 4 = 0
<1>1. a = 4 * (a \div 4) /\ b = 4 * (b \div 4) /\ a \div 4 \in Int /\ b \div 4 \in Int
  BY DivMod
<1> DEFINE x == a \div 4
           y == b \div 4
<1>2. ((x + y) * 4 + 0) % 4 = 0 /\ ((x - y) * 4 + 0) % 4 = 0
  <2>1. x + y \in Int /\ x - y \in Int
    BY <1>1
  <2> HIDE DEF x, y
  <2> QED BY <2>1, DivModOf
<1>3. a + b = (x + y) * 4 + 0 /\ a - b = (x - y) * 4 + 0
  BY <1>1
<1> QED
  BY <1>2, <1>3

(* What a packet takes in the ring.                                        *)
Size(len) == Rounded(len + 4)

(* A packet is never empty, and never the whole ring.                      *)
LEMMA PacketSize ==
  ASSUME NEW len \in Lengths
  PROVE  /\ Size(len) \in Nat /\ Size(len) % 4 = 0
         /\ 0 < Size(len) /\ Size(len) < RING
<1>1. len \in Nat /\ len > 4 /\ len + 8 <= RING /\ RING \in Nat
  BY RingConstants
<1>2. len + 4 \in Nat
  BY <1>1
<1>3. /\ Size(len) \in Nat /\ Size(len) % 4 = 0
      /\ len + 4 <= Size(len) /\ Size(len) < len + 4 + 4
  BY <1>2, RoundUp DEF Size
<1> QED
  BY <1>1, <1>3

(* A place in the ring, from a position that counts on past its end.       *)
LEMMA Places ==
  ASSUME NEW p \in 0 .. (RING + RING - 1), p % 4 = 0
  PROVE  Wrapped(p) \in Offsets /\ p % RING = Wrapped(p)
<1>1. RING \in Nat \ {0} /\ RING % 4 = 0
  BY RingConstants
<1>2. (p - RING) % 4 = 0
  BY <1>1, SumOfFours
<1>3. p % RING = Wrapped(p)
  <2>1. \A n \in Nat \ {0} : \A a \in 0 .. (n + n - 1) : a % n = IF a < n THEN a ELSE a - n
    BY ModTwice
  <2>2. p % RING = IF p < RING THEN p ELSE p - RING
    BY <1>1, <2>1
  <2> QED BY <1>1, <2>2 DEF Wrapped
<1> QED
  BY <1>1, <1>2, <1>3 DEF Wrapped, Offsets

(* The register's 16 less and the NIC's 16 more cancel out, also when the  *)
(* register passes 0.                                                      *)
LEMMA Capr ==
  ASSUME NEW p \in 0 .. (RING - 1)
  PROVE  (((WORD + p - 16) % WORD) + 16) % RING = p
<1>1. RING \in Nat \ {0} /\ WORD \in Nat \ {0} /\ WORD % RING = 0
  BY RingConstants
<1> DEFINE k == WORD \div RING
           a == WORD + p - 16
           q == a \div WORD
<1>2. k \in Nat /\ WORD = RING * k
  BY <1>1, DivNat, DivMod
<1>3. q \in Int /\ a = WORD * q + (a % WORD)
  BY <1>1, DivMod
<1> DEFINE y == a % WORD
           m == k - k * q
<1>4. m \in Int
  <2> HIDE DEF k, q
  <2> QED BY <1>2, <1>3
<1>5. y + 16 = m * RING + p
  <2>1. y = WORD + p - 16 - WORD * q
    BY <1>1, <1>3
  <2>2. RING * k * q = RING * (k * q)
    <3> HIDE DEF k, q
    <3> QED BY <1>1, <1>2, <1>3
  <2>3. y = RING * k + p - 16 - RING * (k * q)
    <3> HIDE DEF k, q, y, a
    <3> QED BY <1>2, <2>1, <2>2
  <2>4. m * RING = RING * k - RING * (k * q)
    <3> HIDE DEF k, q
    <3> QED BY <1>1, <1>2, <1>3
  <2>5. RING * k \in Int /\ RING * (k * q) \in Int
    <3> HIDE DEF k, q
    <3> QED BY <1>1, <1>2, <1>3
  <2> HIDE DEF k, q, y, a, m
  <2> QED BY <2>3, <2>4, <2>5
<1>6. (m * RING + p) % RING = p
  <2> HIDE DEF m
  <2> QED BY <1>1, <1>4, DivModOf
<1> QED
  BY <1>5, <1>6

-----------------------------------------------------------------------------
(* The inductive invariant.                                                *)

(* An interrupt is taken before the next instruction of kernel_main.  So   *)
(* kernel_main finds the ring empty whenever it looks, and the handler,    *)
(* which clears the bit before it drains, is who reads it.                 *)
Turns ==
  /\ main \in {"poll", "hlt", "halted"} /\ irq \in {"out", "read_isr", "clear_isr", "poll"}
  /\ where \in [{"main", "irq"} -> {"test", "deliver", "advance", "capr"}]
  /\ packet \in [{"main", "irq"} -> Headers \cup {Junk}]
  /\ where["main"] = "test"
  /\ irq # "poll" => where["irq"] = "test"
  /\ irq \in {"read_isr", "clear_isr"} => rok
  /\ irq = "clear_isr" => isr
  /\ irq = "out" /\ ~rok => Empty

(* The frames' numbers.                                                    *)
Histories ==
  /\ accepted \in Seq(Nat) /\ \A i \in 1 .. Len(accepted) : accepted[i] = i
  /\ delivered \in Seq(Nat) /\ \A i \in 1 .. Len(delivered) : delivered[i] = i
  /\ Len(accepted) <= FrameBound

(* What is unread: n packets one after the other, the k-th (from 0) at     *)
(* position s[k], which counts on past the end of the ring, from where the *)
(* NIC was told reading is to where it writes next, less than a round.     *)
Chain(n, s) ==
  /\ s[0] = RxBufPtr /\ Wrapped(s[n]) = RxBufAddr
  /\ s[n] < s[0] + RING
  /\ \A k \in 0 .. n : s[k] % 4 = 0 /\ \A j \in 0 .. k - 1 : s[j] < s[k]
  /\ \A k \in 0 .. n - 1 :
       LET header == ring[Wrapped(s[k])]
       IN  /\ header \in Headers /\ header.frame = Len(accepted) - n + k + 1
           /\ s[k + 1] = s[k] + Size(header.total_len)

(* The handler's packet: the first of the chain.  Once it is delivered,    *)
(* and rx_read_ptr has passed it, the NIC has still to be told.            *)
Progress(n, s) ==
  LET done == IF where["irq"] \in {"advance", "capr"} THEN 1 ELSE 0
  IN  /\ where["irq"] # "test" => n > 0
      /\ Len(delivered) = Len(accepted) - n + done
      /\ rx_read_ptr = IF where["irq"] = "capr" THEN Wrapped(s[1]) ELSE s[0]
      /\ where["irq"] \in {"deliver", "advance"} => packet["irq"] = ring[s[0]]

Reading == \E n \in Nat : \E s \in [0 .. n -> Nat] : Chain(n, s) /\ Progress(n, s)

(* The pointers are multiples of 4 in the ring.                            *)
RingTypes ==
  /\ {rx_read_ptr, RxBufAddr, RxBufPtr} \subseteq Offsets
  /\ ring \in [Offsets -> Headers \cup {Junk}]

(* None of the parts is inductive alone.                                   *)
IInv == Turns /\ Histories /\ RingTypes /\ Reading

-----------------------------------------------------------------------------
(* The chain of unread packets.                                            *)

(* A packet before e, in a chain that starts at b, is not where a packet   *)
(* from e on goes that ends within a round of b.                           *)
LEMMA Apart ==
  ASSUME NEW b \in 0 .. (RING - 1), NEW p \in Nat, NEW e \in Nat, NEW size \in Nat,
         b <= p, p < e, e + size < b + RING
  PROVE  ~(Wrapped(p) >= Wrapped(e) /\ Wrapped(p) < Wrapped(e) + size)
BY RingConstants DEF Wrapped

(* The chain lies between its ends.                                        *)
LEMMA ChainBounds ==
  ASSUME NEW n \in Nat, NEW s \in [0 .. n -> Nat], Chain(n, s), NEW k \in 0 .. n
  PROVE  s[0] <= s[k] /\ s[k] <= s[n]
<1>1. s[0] \in Nat /\ s[k] \in Nat /\ s[n] \in Nat
  OBVIOUS
<1>2. k # 0 => s[0] < s[k]
  BY DEF Chain
<1>3. k # n => s[k] < s[n]
  BY DEF Chain
<1> QED
  BY <1>1, <1>2, <1>3

(* Every packet of the chain starts in the ring, and the chain is empty    *)
(* exactly when the NIC's two pointers meet.                               *)
LEMMA ChainPlaces ==
  ASSUME RingTypes, NEW n \in Nat, NEW s \in [0 .. n -> Nat], Chain(n, s)
  PROVE  /\ \A k \in 0 .. n : s[k] \in 0 .. (RING + RING - 1) /\ Wrapped(s[k]) \in Offsets
         /\ s[0] \in 0 .. (RING - 1) /\ Wrapped(s[0]) = s[0]
         /\ Empty <=> n = 0
<1>1. RING \in Nat \ {0}
  BY RingConstants
<1>2. s[0] \in 0 .. (RING - 1) /\ Wrapped(s[0]) = s[0]
  BY <1>1 DEF RingTypes, Chain, Offsets, Wrapped
<1>3. ASSUME NEW k \in 0 .. n PROVE s[k] \in 0 .. (RING + RING - 1) /\ s[k] % 4 = 0
  <2>1. s[0] <= s[k] /\ s[k] <= s[n] /\ s[n] < s[0] + RING /\ s[k] % 4 = 0
    BY ChainBounds DEF Chain
  <2>2. s[k] \in Nat /\ s[n] \in Nat
    OBVIOUS
  <2> QED BY <1>1, <1>2, <2>1, <2>2
<1>4. \A k \in 0 .. n : Wrapped(s[k]) \in Offsets
  BY <1>3, Places
<1>5. n = 0 => Empty
  BY <1>2 DEF Chain, Empty
<1>6. ASSUME n # 0 PROVE ~Empty
  <2>1. s[0] < s[n] /\ s[n] < s[0] + RING /\ s[n] \in Nat
    <3>1. 0 \in 0 .. n - 1 /\ n \in 0 .. n
      BY <1>6
    <3> QED BY <3>1 DEF Chain
  <2>2. Wrapped(s[n]) # s[0]
    BY <1>1, <1>2, <2>1 DEF Wrapped
  <2> QED BY <2>2 DEF Chain, Empty
<1> QED
  BY <1>2, <1>3, <1>4, <1>5, <1>6

(* Between the two pointers, counted round the ring.                       *)
LEMMA Left ==
  ASSUME NEW b \in 0 .. (RING - 1), NEW e \in Nat, b < e, e < b + RING
  PROVE  (RING + b - Wrapped(e)) % RING = RING - (e - b)
<1>1. RING \in Nat \ {0}
  BY RingConstants
<1>2. \A n \in Nat \ {0}, x \in Int :
        /\ x \in 0 .. (n - 1) => x % n = x
        /\ x \in n .. (n + n - 1) => x % n = x - n
  BY ModSmall
<1>3. \A x \in Int : /\ x \in 0 .. (RING - 1) => x % RING = x
                    /\ x \in RING .. (RING + RING - 1) => x % RING = x - RING
  BY <1>1, <1>2
<1>4. CASE e < RING
  <2>1. RING + b - Wrapped(e) = RING - (e - b) /\ RING - (e - b) \in 0 .. (RING - 1)
    BY <1>1, <1>4 DEF Wrapped
  <2> QED BY <1>1, <1>3, <2>1
<1>5. CASE e >= RING
  <2>1. /\ RING + b - Wrapped(e) = RING + (RING - (e - b))
        /\ RING + (RING - (e - b)) \in RING .. (RING + RING - 1)
    BY <1>1, <1>5 DEF Wrapped
  <2>2. (RING + (RING - (e - b))) % RING = RING + (RING - (e - b)) - RING
    BY <1>1, <1>3, <2>1
  <2> QED BY <1>1, <2>1, <2>2
<1> QED
  BY <1>1, <1>4, <1>5

(* What the NIC finds free is what the chain leaves of the ring.           *)
LEMMA FreeSpace ==
  ASSUME RingTypes, NEW n \in Nat \ {0}, NEW s \in [0 .. n -> Nat], Chain(n, s)
  PROVE  Space = RING - (s[n] - s[0])
<1>1. s[0] \in 0 .. (RING - 1) /\ s[n] \in Nat /\ s[0] < s[n] /\ s[n] < s[0] + RING
  <2>1. n \in 0 .. n /\ 0 \in 0 .. n - 1
    OBVIOUS
  <2> QED BY <2>1, ChainPlaces DEF Chain
<1>2. RxBufPtr = s[0] /\ RxBufAddr = Wrapped(s[n])
  BY DEF Chain
<1> QED
  BY <1>1, <1>2, Left DEF Space

(* A frame that the NIC accepts is put after the chain and touches none of *)
(* its headers, also where it runs past the end of the ring.               *)
LEMMA ChainAccepts ==
  ASSUME RingTypes, Histories, NEW n \in Nat, NEW s \in [0 .. n -> Nat], Chain(n, s),
         NicAccepts
  PROVE  \E t \in [0 .. n + 1 -> Nat] :
           /\ Chain(n + 1, t)'
           /\ \A k \in 0 .. n : t[k] = s[k]
           /\ \A k \in 0 .. n - 1 : ring'[Wrapped(s[k])] = ring[Wrapped(s[k])]
<1>1. PICK len \in Lengths :
        LET frame == Len(accepted) + 1
            size  == Rounded(len + 4)
        IN  /\ Empty \/ size < Space
            /\ ring' = [o \in Offsets |->
                          IF o = RxBufAddr THEN [frame |-> frame, total_len |-> len]
                          ELSE IF o > RxBufAddr /\ o < RxBufAddr + size THEN Junk ELSE ring[o]]
            /\ RxBufAddr' = (RxBufAddr + size) % RING
            /\ accepted' = Append(accepted, frame)
  BY DEF NicAccepts
<1> DEFINE size == Size(len)
           L == Len(accepted)
           e == s[n]
<1>2. /\ Empty \/ size < Space
      /\ ring' = [o \in Offsets |->
                    IF o = RxBufAddr THEN [frame |-> L + 1, total_len |-> len]
                    ELSE IF o > RxBufAddr /\ o < RxBufAddr + size THEN Junk ELSE ring[o]]
      /\ RxBufAddr' = (RxBufAddr + size) % RING
      /\ accepted' = Append(accepted, L + 1)
      /\ RxBufPtr' = RxBufPtr /\ L < FrameBound
  BY <1>1 DEF Size, NicAccepts
<1>3. /\ RING \in Nat \ {0} /\ size \in Nat /\ size % 4 = 0 /\ 0 < size /\ size < RING
      /\ L \in Nat /\ Len(accepted') = L + 1 /\ FrameBound \in Nat
  BY <1>2, RingConstants, PacketSize DEF Histories
<1>4. /\ e \in Nat /\ e % 4 = 0 /\ s[0] \in 0 .. (RING - 1) /\ s[0] <= e /\ e < s[0] + RING
      /\ RxBufAddr = Wrapped(e) /\ RxBufPtr = s[0] /\ Wrapped(e) \in Offsets
  <2>1. n \in 0 .. n
    OBVIOUS
  <2> QED BY <2>1, ChainPlaces, ChainBounds DEF Chain
<1>5. e + size < s[0] + RING
  <2>1. CASE n = 0
    BY <1>3, <1>4, <2>1
  <2>2. CASE n # 0
    <3>1. ~Empty
      BY <2>2, ChainPlaces
    <3>2. Space = RING - (e - s[0])
      BY <2>2, FreeSpace
    <3>3. size < RING - (e - s[0])
      BY <1>2, <3>1, <3>2
    <3> DEFINE b == s[0]
    <3>4. b \in Nat /\ e \in Nat /\ size \in Nat /\ RING \in Nat /\ size < RING - (e - b)
      BY <1>3, <1>4, <3>3
    <3>5. e + size < b + RING
      <4> HIDE DEF size, e, b
      <4> QED BY <3>4
    <3> QED BY <3>5
  <2> QED BY <2>1, <2>2
<1>6. RxBufAddr' = Wrapped(e + size)
  <2>1. RxBufAddr \in 0 .. (RING - 1)
    BY <1>4 DEF Offsets
  <2>2. RxBufAddr' = IF RxBufAddr + size < RING THEN RxBufAddr + size
                     ELSE RxBufAddr + size - RING
    <3>1. size \in 0 .. RING
      BY <1>3
    <3> HIDE DEF size
    <3> QED BY <1>2, <1>3, <2>1, <3>1, RingIndex
  <2> HIDE DEF size, e
  <2> QED BY <1>3, <1>4, <1>5, <2>2 DEF Wrapped
<1>7. ASSUME NEW k \in 0 .. n - 1
      PROVE  /\ ring'[Wrapped(s[k])] = ring[Wrapped(s[k])]
             /\ s[k] < e
  <2>1. /\ s[k] \in Nat /\ s[0] <= s[k] /\ Wrapped(s[k]) \in Offsets
    <3>1. k \in 0 .. n
      OBVIOUS
    <3> QED BY <3>1, ChainPlaces, ChainBounds
  <2>2. s[k] < e
    BY DEF Chain
  <2>3. ~(Wrapped(s[k]) >= RxBufAddr /\ Wrapped(s[k]) < RxBufAddr + size)
    <3> HIDE DEF size, e
    <3> QED BY <1>3, <1>4, <1>5, <2>1, <2>2, Apart
  <2>4. Wrapped(s[k]) \in Nat /\ RxBufAddr \in Nat
    BY <1>4, <2>1 DEF Offsets
  <2>5. /\ Wrapped(s[k]) # RxBufAddr
        /\ ~(Wrapped(s[k]) > RxBufAddr /\ Wrapped(s[k]) < RxBufAddr + size)
    <3> HIDE DEF size, e
    <3> QED BY <1>3, <2>3, <2>4
  <2> HIDE DEF size
  <2> QED BY <1>2, <2>1, <2>2, <2>5
<1>8. ring'[Wrapped(e)] = [frame |-> L + 1, total_len |-> len]
  BY <1>2, <1>4
<1> DEFINE t == [k \in 0 .. n + 1 |-> IF k <= n THEN s[k] ELSE e + size]
<1>9. /\ t \in [0 .. n + 1 -> Nat] /\ \A k \in 0 .. n : t[k] = s[k]
      /\ t[n + 1] = e + size /\ t[0] = s[0]
  <2> HIDE DEF size, e
  <2> QED BY <1>3, <1>4
<1> HIDE DEF t
<1>10. \A k \in 0 .. n + 1 : t[k] % 4 = 0 /\ \A j \in 0 .. k - 1 : t[j] < t[k]
  <2> SUFFICES ASSUME NEW k \in 0 .. n + 1
               PROVE  t[k] % 4 = 0 /\ \A j \in 0 .. k - 1 : t[j] < t[k]
    OBVIOUS
  <2>1. CASE k \in 0 .. n
    <3>1. \A j \in 0 .. k - 1 : t[j] = s[j] /\ s[j] < s[k]
      BY <1>9, <2>1 DEF Chain
    <3>2. t[k] = s[k] /\ s[k] % 4 = 0
      BY <1>9, <2>1 DEF Chain
    <3> QED BY <3>1, <3>2
  <2>2. CASE k = n + 1
    <3>1. t[k] % 4 = 0
      <4> HIDE DEF size, e
      <4> QED BY <1>3, <1>4, <1>9, <2>2, SumOfFours
    <3>2. ASSUME NEW j \in 0 .. k - 1 PROVE t[j] < t[k]
      <4>1. j \in 0 .. n /\ t[j] = s[j] /\ s[j] <= e /\ s[j] \in Nat
        BY <1>9, <2>2, ChainBounds
      <4> HIDE DEF size, e
      <4> QED BY <1>3, <1>4, <1>9, <2>2, <4>1
    <3> QED BY <3>1, <3>2
  <2> QED BY <2>1, <2>2
<1>11. ASSUME NEW k \in 0 .. (n + 1) - 1
       PROVE  LET header == ring'[Wrapped(t[k])]
              IN  /\ header \in Headers /\ header.frame = Len(accepted') - (n + 1) + k + 1
                  /\ t[k + 1] = t[k] + Size(header.total_len)
  <2>1. CASE k \in 0 .. n - 1
    <3>1. t[k] = s[k] /\ t[k + 1] = s[k + 1] /\ ring'[Wrapped(s[k])] = ring[Wrapped(s[k])]
      BY <1>7, <1>9, <2>1
    <3>2. LET header == ring[Wrapped(s[k])]
          IN  /\ header \in Headers /\ header.frame = L - n + k + 1
              /\ s[k + 1] = s[k] + Size(header.total_len)
      BY <2>1 DEF Chain
    <3>3. Len(accepted') - (n + 1) + k + 1 = L - n + k + 1
      BY <1>3
    <3> QED BY <3>1, <3>2, <3>3
  <2>2. CASE k = n
    <3>1. [frame |-> L + 1, total_len |-> len] \in Headers
      BY <1>2, <1>3 DEF Headers
    <3>2. t[k] = e /\ t[k + 1] = e + size
      BY <1>9, <2>2
    <3>3. Len(accepted') - (n + 1) + k + 1 = L + 1
      BY <1>3, <2>2
    <3> QED BY <1>8, <3>1, <3>2, <3>3
  <2> QED BY <2>1, <2>2
<1>12. Chain(n + 1, t)'
  <2>1. t[0] = RxBufPtr' /\ Wrapped(t[n + 1]) = RxBufAddr' /\ t[n + 1] < t[0] + RING
    BY <1>2, <1>4, <1>5, <1>6, <1>9
  <2> QED BY <2>1, <1>10, <1>11 DEF Chain
<1> QED
  BY <1>7, <1>9, <1>12

(* Once the NIC is told that the first packet is read, the chain is the    *)
(* rest of it.                                                             *)
LEMMA ChainAdvances ==
  ASSUME RingTypes, Histories, NEW n \in Nat \ {0}, NEW s \in [0 .. n -> Nat], Chain(n, s),
         RxBufPtr' = Wrapped(s[1]), UNCHANGED nicVars
  PROVE  \E t \in [0 .. n - 1 -> Nat] : Chain(n - 1, t)' /\ t[0] = Wrapped(s[1])
<1> DEFINE d == IF s[1] >= RING THEN RING ELSE 0
           t == [k \in 0 .. n - 1 |-> s[k + 1] - d]
<1>1. RING \in Nat \ {0} /\ RING % 4 = 0 /\ Len(accepted) \in Nat
  BY RingConstants DEF Histories
<1>2. /\ 1 \in 0 .. n /\ n \in 0 .. n /\ (n - 1) + 1 = n /\ n - 1 \in Nat
      /\ \A k \in 0 .. n - 1 : k + 1 \in 0 .. n
  OBVIOUS
<1>3. /\ s[0] \in 0 .. (RING - 1) /\ s[n] < s[0] + RING
      /\ \A k \in 0 .. n : s[k] \in Nat /\ s[k] <= s[n] /\ s[k] % 4 = 0
  BY ChainPlaces, ChainBounds DEF Chain
<1>4. \A k \in 1 .. n : s[1] <= s[k]
  <2> SUFFICES ASSUME NEW k \in 1 .. n PROVE s[1] <= s[k]
    OBVIOUS
  <2>1. k # 1 => s[1] < s[k]
    BY DEF Chain
  <2>2. s[1] \in Nat
    BY <1>2
  <2> QED BY <2>1, <2>2
<1>5. s[0] < s[1]
  BY <1>2 DEF Chain
<1>6. d \in {0, RING} /\ d % 4 = 0
  <2>1. 0 % 4 = 0
    OBVIOUS
  <2> QED BY <1>1, <2>1
<1>7. /\ t \in [0 .. n - 1 -> Nat]
      /\ \A k \in 0 .. n - 1 : t[k] = s[k + 1] - d /\ Wrapped(t[k]) = Wrapped(s[k + 1])
  <2>1. ASSUME NEW k \in 0 .. n - 1
        PROVE  s[k + 1] - d \in Nat /\ Wrapped(s[k + 1] - d) = Wrapped(s[k + 1])
    <3>1. k + 1 \in 1 .. n /\ k + 1 \in 0 .. n
      OBVIOUS
    <3>2. s[k + 1] \in Nat /\ s[1] \in Nat /\ s[1] <= s[k + 1] /\ s[k + 1] < RING + RING
      BY <1>1, <1>2, <1>3, <1>4, <3>1
    <3>3. CASE s[1] >= RING
      <4>1. s[k + 1] >= RING
        BY <1>1, <3>2, <3>3
      <4>2. s[k + 1] - RING \in 0 .. (RING - 1) /\ d = RING
        BY <1>1, <3>2, <3>3, <4>1
      <4> HIDE DEF d
      <4> QED BY <1>1, <3>2, <4>1, <4>2 DEF Wrapped
    <3>4. CASE s[1] < RING
      <4>1. d = 0
        BY <1>1, <3>2, <3>4
      <4> HIDE DEF d
      <4> QED BY <3>2, <4>1
    <3> QED BY <1>1, <3>2, <3>3, <3>4
  <2> HIDE DEF d
  <2> QED BY <2>1
<1>8. t[0] = Wrapped(s[1]) /\ t[n - 1] = s[n] - d /\ Wrapped(t[n - 1]) = Wrapped(s[n])
  <2>1. 0 \in 0 .. n - 1 /\ n - 1 \in 0 .. n - 1
    OBVIOUS
  <2>2. t[0] = s[1] - d
    BY <1>7, <2>1
  <2>3. t[n - 1] = s[(n - 1) + 1] - d /\ Wrapped(t[n - 1]) = Wrapped(s[(n - 1) + 1])
    BY <1>7, <2>1
  <2> QED BY <1>1, <1>2, <1>3, <2>2, <2>3 DEF Wrapped
<1> HIDE DEF d, t
<1>9. t[n - 1] < t[0] + RING
  <2>1. t[0] = s[1] - d
    BY <1>7
  <2>2. s[n] \in Nat /\ s[1] \in Nat /\ s[0] \in Nat /\ d \in Nat
    BY <1>1, <1>2, <1>3, <1>6
  <2>3. s[n] < s[0] + RING /\ t[n - 1] = s[n] - d
    BY <1>3, <1>8
  <2> QED BY <1>1, <1>5, <2>1, <2>2, <2>3
<1>10. \A k \in 0 .. n - 1 : t[k] % 4 = 0 /\ \A j \in 0 .. k - 1 : t[j] < t[k]
  <2> SUFFICES ASSUME NEW k \in 0 .. n - 1
               PROVE  t[k] % 4 = 0 /\ \A j \in 0 .. k - 1 : t[j] < t[k]
    OBVIOUS
  <2>1. k + 1 \in 0 .. n /\ s[k + 1] \in Nat /\ s[k + 1] % 4 = 0 /\ t[k] = s[k + 1] - d
    BY <1>2, <1>3, <1>7
  <2>2. t[k] % 4 = 0
    <3> DEFINE p == s[k + 1]
    <3>1. d \in Int /\ d % 4 = 0 /\ p \in Int /\ p % 4 = 0
      BY <1>1, <1>6, <2>1
    <3>2. (p - d) % 4 = 0
      <4> HIDE DEF p
      <4> QED BY <3>1, SumOfFours
    <3> QED BY <2>1, <3>2
  <2>3. ASSUME NEW j \in 0 .. k - 1 PROVE t[j] < t[k]
    <3>1. j + 1 \in 0 .. (k + 1) - 1 /\ j + 1 \in 0 .. n /\ j \in 0 .. n - 1
      OBVIOUS
    <3>2. s[j + 1] < s[k + 1] /\ s[j + 1] \in Nat
      BY <2>1, <3>1 DEF Chain
    <3>3. t[j] = s[j + 1] - d
      BY <1>7, <3>1
    <3> QED BY <1>1, <1>6, <2>1, <3>2, <3>3
  <2> QED BY <2>2, <2>3
<1>11. ASSUME NEW k \in 0 .. (n - 1) - 1
       PROVE  LET header == ring[Wrapped(t[k])]
              IN  /\ header \in Headers /\ header.frame = Len(accepted) - (n - 1) + k + 1
                  /\ t[k + 1] = t[k] + Size(header.total_len)
  <2>1. /\ k \in 0 .. n - 1 /\ k + 1 \in 0 .. n - 1 /\ k + 1 \in 0 .. n
        /\ (k + 1) + 1 \in 0 .. n
    OBVIOUS
  <2>2. Wrapped(t[k]) = Wrapped(s[k + 1]) /\ t[k] = s[k + 1] - d /\ t[k + 1] = s[(k + 1) + 1] - d
    BY <1>7, <2>1
  <2> DEFINE header == ring[Wrapped(s[k + 1])]
             size == Size(header.total_len)
  <2>3. /\ header \in Headers /\ header.frame = Len(accepted) - n + (k + 1) + 1
        /\ s[(k + 1) + 1] = s[k + 1] + size
    BY <2>1 DEF Chain
  <2>4. Len(accepted) - n + (k + 1) + 1 = Len(accepted) - (n - 1) + k + 1
    BY <1>1
  <2>5. size \in Nat
    BY <2>3, PacketSize DEF Headers
  <2>6. t[k + 1] = t[k] + size
    <3>1. s[k + 1] \in Nat
      BY <2>1
    <3> HIDE DEF header, size
    <3> QED BY <1>1, <1>6, <2>2, <2>3, <2>5, <3>1
  <2> QED BY <2>2, <2>3, <2>4, <2>6
<1>12. Chain(n - 1, t)'
  <2>1. t[0] = RxBufPtr' /\ Wrapped(t[n - 1]) = RxBufAddr'
    BY <1>8 DEF nicVars, Chain
  <2>2. UNCHANGED <<ring, accepted>>
    BY DEF nicVars
  <2> QED BY <2>1, <2>2, <1>9, <1>10, <1>11 DEF Chain
<1> QED
  BY <1>7, <1>8, <1>12

-----------------------------------------------------------------------------
(* Who reads the ring.                                                     *)

ringVars == <<where, packet, rx_read_ptr, ring, RxBufAddr, accepted, RxBufPtr, delivered>>

(* Before kernel_main could see a packet its interrupt is taken: in        *)
(* rtl8139_poll it only finds that there is none.                          *)
LEMMA MainLooks ==
  ASSUME Prompt = TRUE, Turns, rtl8139_poll("main")
  PROVE  Leave("main")
<1>1. Runs("main") => Empty
  BY DEF Runs, MainRuns, Turns
<1>2. ~Deliver("main") /\ ~Advance("main") /\ ~WriteCapr("main")
  BY DEF Deliver, Advance, WriteCapr, At, Turns
<1>3. ~ReadHeader("main")
  BY <1>1 DEF ReadHeader, At
<1> QED
  BY <1>2, <1>3 DEF rtl8139_poll

(* kernel_main finds the ring empty: besides the NIC, only the handler's   *)
(* rtl8139_poll touches it.                                                *)
LEMMA HandlerReads ==
  ASSUME Prompt = TRUE, Turns, [Next]_vars
  PROVE  \/ NicAccepts \/ ReadHeader("irq") \/ Deliver("irq") \/ Advance("irq")
         \/ WriteCapr("irq") \/ UNCHANGED ringVars
<1>1. CASE Interrupt \/ ReadIsr \/ ClearIsr \/ Halt
  BY <1>1 DEF Interrupt, ReadIsr, ClearIsr, Halt, ringVars, nicVars
<1>2. CASE \E c \in {"main", "irq"} : Leave(c)
  BY <1>2 DEF Leave, ringVars, nicVars
<1>3. CASE UNCHANGED vars
  BY <1>3 DEF vars, ringVars, nicVars
<1> QED
  BY <1>1, <1>2, <1>3, MainLooks DEF Next, Handler, Kernel, rtl8139_poll

(* The handler drains the ring to its end after it cleared the bit, so the *)
(* ring is empty when it is out and the bit is clear.                      *)
LEMMA TurnsStep ==
  ASSUME Prompt = TRUE, Turns, RingTypes, [Next]_vars
  PROVE  Turns'
<1> USE DEF Turns, Empty
<1>1. CASE NicAccepts
  BY <1>1 DEF NicAccepts
<1>2. CASE Interrupt \/ ReadIsr \/ ClearIsr \/ Halt
  BY <1>2 DEF Interrupt, ReadIsr, ClearIsr, Halt, nicVars
<1>3. CASE \E c \in {"main", "irq"} : Leave(c)
  BY <1>3 DEF Leave, At, Runs, nicVars
<1>4. CASE ReadHeader("irq")
  <2>1. PICK header \in Headers \cup {Junk} : packet' = [packet EXCEPT !["irq"] = header]
    BY <1>4 DEF ReadHeader, RingTypes
  <2>2. where' = [where EXCEPT !["irq"] = "deliver"] /\ irq = "poll"
    BY <1>4 DEF ReadHeader, Goto, At, Runs
  <2>3. UNCHANGED <<main, irq, isr, rok>>
    BY <1>4 DEF ReadHeader, nicVars
  <2> QED BY <2>1, <2>2, <2>3
<1>5. CASE Deliver("irq")
  <2>1. where' = [where EXCEPT !["irq"] = "advance"] /\ irq = "poll"
    BY <1>5 DEF Deliver, Goto, At, Runs
  <2>2. UNCHANGED <<main, irq, isr, rok, packet>>
    BY <1>5 DEF Deliver, nicVars
  <2> QED BY <2>1, <2>2
<1>6. CASE Advance("irq")
  <2>1. /\ where' = [where EXCEPT !["irq"] = "capr"] /\ irq = "poll"
        /\ packet' = [packet EXCEPT !["irq"] = Junk]
    BY <1>6 DEF Advance, Goto, At, Runs
  <2>2. UNCHANGED <<main, irq, isr, rok>>
    BY <1>6 DEF Advance, nicVars
  <2> QED BY <2>1, <2>2
<1>7. CASE WriteCapr("irq")
  <2>1. where' = [where EXCEPT !["irq"] = "test"] /\ irq = "poll"
    BY <1>7 DEF WriteCapr, Goto, At, Runs
  <2>2. UNCHANGED <<main, irq, isr, rok, packet>>
    BY <1>7 DEF WriteCapr, nicVars
  <2> QED BY <2>1, <2>2
<1>8. CASE UNCHANGED vars
  BY <1>8 DEF vars, nicVars
<1>9. \/ NicAccepts \/ Interrupt \/ ReadIsr \/ ClearIsr \/ Halt
      \/ (\E c \in {"main", "irq"} : Leave(c))
      \/ ReadHeader("irq") \/ Deliver("irq") \/ Advance("irq") \/ WriteCapr("irq")
      \/ UNCHANGED vars
  BY MainLooks DEF Next, Handler, Kernel, rtl8139_poll
<1> QED
  BY <1>1, <1>2, <1>3, <1>4, <1>5, <1>6, <1>7, <1>8, <1>9

-----------------------------------------------------------------------------
(* The handler's steps.                                                    *)

(* The chain depends on the NIC's state only.                              *)
LEMMA ChainSame ==
  ASSUME NEW n, NEW s, Chain(n, s), UNCHANGED <<ring, RxBufAddr, accepted, RxBufPtr>>
  PROVE  Chain(n, s)'
BY DEF Chain

(* The header at the start of a chain that is not empty.                   *)
LEMMA FirstHeader ==
  ASSUME RingTypes, Histories, NEW n \in Nat \ {0}, NEW s \in [0 .. n -> Nat], Chain(n, s)
  PROVE  /\ ring[s[0]] \in Headers /\ ring[s[0]] # Junk /\ s[0] \in Offsets
         /\ ring[s[0]].frame = Len(accepted) - n + 1
         /\ s[1] = s[0] + Size(ring[s[0]].total_len)
<1>1. Wrapped(s[0]) = s[0] /\ 0 \in 0 .. n - 1 /\ 0 \in 0 .. n /\ Wrapped(s[0]) \in Offsets
  BY ChainPlaces
<1>2. /\ ring[s[0]] \in Headers /\ ring[s[0]].frame = Len(accepted) - n + 0 + 1
      /\ s[0 + 1] = s[0] + Size(ring[s[0]].total_len)
  BY <1>1 DEF Chain
<1>3. ring[s[0]] # Junk
  BY <1>2, RingConstants DEF Headers, Junk
<1>4. Len(accepted) - n + 0 + 1 = Len(accepted) - n + 1
  BY DEF Histories
<1> QED
  BY <1>1, <1>2, <1>3, <1>4

(* A frame that comes in lengthens the chain and leaves the handler's      *)
(* packet as it is.                                                        *)
LEMMA ReadingAccepts ==
  ASSUME Turns, RingTypes, Histories, NEW n \in Nat, NEW s \in [0 .. n -> Nat],
         Chain(n, s), Progress(n, s), NicAccepts
  PROVE  Reading'
<1>1. PICK t \in [0 .. n + 1 -> Nat] :
        /\ Chain(n + 1, t)'
        /\ \A k \in 0 .. n : t[k] = s[k]
        /\ \A k \in 0 .. n - 1 : ring'[Wrapped(s[k])] = ring[Wrapped(s[k])]
  BY ChainAccepts
<1>2. UNCHANGED <<where, packet, rx_read_ptr, delivered>>
  BY DEF NicAccepts
<1>3. Len(accepted') = Len(accepted) + 1 /\ Len(accepted) \in Nat /\ Len(delivered) \in Nat
  BY DEF NicAccepts, Histories
<1>4. t[0] = s[0] /\ (n > 0 => t[1] = s[1] /\ ring'[s[0]] = ring[s[0]])
  <2>1. t[0] = s[0] /\ Wrapped(s[0]) = s[0]
    BY <1>1, ChainPlaces
  <2>2. n > 0 => 1 \in 0 .. n /\ 0 \in 0 .. n - 1
    OBVIOUS
  <2> QED BY <1>1, <2>1, <2>2
<1>5. Len(accepted') - (n + 1) = Len(accepted) - n
  BY <1>3
<1>6. n + 1 > 0 /\ n + 1 \in Nat
  OBVIOUS
<1>7. Progress(n + 1, t)'
  BY <1>2, <1>4, <1>5, <1>6 DEF Progress
<1> QED
  BY <1>1, <1>6, <1>7 DEF Reading

(* The handler's part of the invariant, step by step.                      *)
LEMMA ReadingStep ==
  ASSUME Prompt = TRUE, Turns, RingTypes, Histories, Reading, [Next]_vars
  PROVE  Reading'
<1>1. PICK n \in Nat : \E s \in [0 .. n -> Nat] : Chain(n, s) /\ Progress(n, s)
  BY DEF Reading
<1>2. PICK s \in [0 .. n -> Nat] : Chain(n, s) /\ Progress(n, s)
  BY <1>1
<1>3. Len(accepted) \in Nat /\ Len(delivered) \in Nat
  BY DEF Histories
<1>4. CASE NicAccepts
  BY <1>2, <1>4, ReadingAccepts
<1>5. CASE UNCHANGED ringVars
  <2>1. Chain(n, s)'
    BY <1>2, <1>5, ChainSame DEF ringVars
  <2>2. Progress(n, s)'
    BY <1>2, <1>5 DEF ringVars, Progress
  <2> QED BY <2>1, <2>2 DEF Reading
<1>6. CASE ReadHeader("irq")
  <2>1. n # 0 /\ where["irq"] = "test" /\ UNCHANGED <<rx_read_ptr, delivered>>
    BY <1>2, <1>6, ChainPlaces DEF ReadHeader, At
  <2>2. Chain(n, s)' /\ UNCHANGED <<ring, accepted>>
    BY <1>2, <1>6, ChainSame DEF ReadHeader, nicVars
  <2>3. rx_read_ptr = s[0] /\ Len(delivered) = Len(accepted) - n + 0
    BY <1>2, <2>1 DEF Progress
  <2>4. packet'["irq"] = ring[s[0]]
    <3>1. s[0] \in Offsets /\ ring[s[0]] # Junk
      BY <1>2, <2>1, FirstHeader
    <3>2. packet' = [packet EXCEPT !["irq"] = ring[s[0]]]
      BY <1>6, <2>3, <3>1 DEF ReadHeader
    <3> QED BY <3>2 DEF Turns
  <2>5. where'["irq"] = "deliver"
    BY <1>6 DEF ReadHeader, Goto, Turns
  <2>6. n > 0
    BY <2>1
  <2>7. Progress(n, s)'
    BY <2>1, <2>2, <2>3, <2>4, <2>5, <2>6 DEF Progress
  <2> QED BY <2>2, <2>7 DEF Reading
<1>7. CASE Deliver("irq")
  <2>1. where["irq"] = "deliver" /\ UNCHANGED <<rx_read_ptr, packet>>
    BY <1>7 DEF Deliver, At
  <2>2. Chain(n, s)' /\ UNCHANGED <<ring, accepted>>
    BY <1>2, <1>7, ChainSame DEF Deliver, nicVars
  <2>3. /\ n > 0 /\ rx_read_ptr = s[0] /\ Len(delivered) = Len(accepted) - n + 0
        /\ packet["irq"] = ring[s[0]]
    BY <1>2, <2>1 DEF Progress
  <2>4. Len(delivered') = Len(delivered) + 1
    <3>1. packet["irq"].total_len > 4
      <4>1. n \in Nat \ {0}
        BY <2>3
      <4>2. packet["irq"] \in Headers
        BY <1>2, <2>3, <4>1, FirstHeader
      <4> QED BY <4>2, RingConstants DEF Headers
    <3>2. delivered' = Append(delivered, packet["irq"].frame)
      BY <1>7, <3>1 DEF Deliver
    <3> QED BY <3>2 DEF Histories
  <2>5. where'["irq"] = "advance"
    BY <1>7 DEF Deliver, Goto, Turns
  <2>6. Len(delivered') = Len(accepted') - n + 1
    BY <1>3, <2>2, <2>3, <2>4
  <2>7. Progress(n, s)'
    BY <2>1, <2>2, <2>3, <2>5, <2>6 DEF Progress
  <2> QED BY <2>2, <2>7 DEF Reading
<1>8. CASE Advance("irq")
  <2>1. where["irq"] = "advance" /\ UNCHANGED delivered
    BY <1>8 DEF Advance, At
  <2>2. Chain(n, s)' /\ UNCHANGED <<ring, accepted>>
    BY <1>2, <1>8, ChainSame DEF Advance, nicVars
  <2>3. /\ n > 0 /\ rx_read_ptr = s[0] /\ Len(delivered) = Len(accepted) - n + 1
        /\ packet["irq"] = ring[s[0]]
    BY <1>2, <2>1 DEF Progress
  <2>4. rx_read_ptr' = Wrapped(s[1])
    <3> DEFINE len == ring[s[0]].total_len
    <3>1. s[1] = s[0] + Size(len) /\ len \in Lengths /\ s[0] \in Offsets
      BY <1>2, <2>3, FirstHeader DEF Headers
    <3>2. rx_read_ptr' = Wrapped(Aligned(s[0] + len + 4))
      BY <1>8, <2>3 DEF Advance
    <3> HIDE DEF len
    <3> DEFINE b == s[0]
    <3>3. b \in Nat /\ b % 4 = 0 /\ len + 4 \in Nat /\ b + len + 4 \in Nat
      BY <3>1, RingConstants DEF Offsets
    <3>4. Aligned(b + len + 4) = b + Size(len)
      <4> HIDE DEF b
      <4>1. b + len + 4 = b + (len + 4)
        BY <3>1, <3>3, RingConstants
      <4>2. Aligned(b + (len + 4)) = Rounded(b + (len + 4))
        BY <3>3, <4>1, RoundUp
      <4>3. Rounded(b + (len + 4)) = b + Rounded(len + 4)
        BY <3>3, RoundUpFrom
      <4> QED BY <4>1, <4>2, <4>3 DEF Size
    <3> QED BY <3>1, <3>2, <3>4
  <2>5. where'["irq"] = "capr"
    BY <1>8 DEF Advance, Goto, Turns
  <2>6. Progress(n, s)'
    BY <2>1, <2>2, <2>3, <2>4, <2>5 DEF Progress
  <2> QED BY <2>2, <2>6 DEF Reading
<1>9. CASE WriteCapr("irq")
  <2>1. where["irq"] = "capr" /\ UNCHANGED <<rx_read_ptr, delivered>> /\ UNCHANGED nicVars
    BY <1>9 DEF WriteCapr, At
  <2>2. n > 0 /\ rx_read_ptr = Wrapped(s[1]) /\ Len(delivered) = Len(accepted) - n + 1
    BY <1>2, <2>1 DEF Progress
  <2>3. RxBufPtr' = rx_read_ptr
    <3>1. rx_read_ptr \in 0 .. (RING - 1)
      BY DEF RingTypes, Offsets
    <3>2. RxBufPtr' = (((WORD + rx_read_ptr - 16) % WORD) + 16) % RING
      BY <1>9 DEF WriteCapr
    <3> QED BY <3>1, <3>2, Capr
  <2>4. PICK t \in [0 .. n - 1 -> Nat] : Chain(n - 1, t)' /\ t[0] = Wrapped(s[1])
    <3>1. n \in Nat \ {0} /\ RxBufPtr' = Wrapped(s[1])
      BY <2>2, <2>3
    <3> QED BY <1>2, <2>1, <3>1, ChainAdvances
  <2>5. where'["irq"] = "test"
    BY <1>9 DEF WriteCapr, Goto, Turns
  <2>6. Len(delivered') = Len(accepted') - (n - 1) + 0
    BY <1>3, <2>1, <2>2 DEF nicVars
  <2>7. Progress(n - 1, t)'
    BY <2>1, <2>2, <2>4, <2>5, <2>6 DEF Progress
  <2>8. n - 1 \in Nat
    BY <2>2
  <2> QED BY <2>4, <2>7, <2>8 DEF Reading
<1> QED
  BY <1>4, <1>5, <1>6, <1>7, <1>8, <1>9, HandlerReads

(* What the handler delivers is the next frame that came in.               *)
LEMMA DeliversNext ==
  ASSUME Turns, RingTypes, Histories, Reading, Deliver("irq")
  PROVE  /\ delivered' = Append(delivered, Len(delivered) + 1)
         /\ Len(delivered) < Len(accepted)
<1>1. PICK n \in Nat : \E s \in [0 .. n -> Nat] : Chain(n, s) /\ Progress(n, s)
  BY DEF Reading
<1>2. PICK s \in [0 .. n -> Nat] : Chain(n, s) /\ Progress(n, s)
  BY <1>1
<1>3. /\ n \in Nat \ {0} /\ Len(delivered) = Len(accepted) - n + 0
      /\ packet["irq"] = ring[s[0]]
  BY <1>2 DEF Deliver, At, Progress
<1>4. packet["irq"] \in Headers /\ packet["irq"].frame = Len(accepted) - n + 1
  BY <1>2, <1>3, FirstHeader
<1>5. packet["irq"].total_len > 4
  BY <1>4, RingConstants DEF Headers
<1>6. Len(accepted) \in Nat /\ Len(delivered) \in Nat
  BY DEF Histories
<1> QED
  BY <1>3, <1>4, <1>5, <1>6 DEF Deliver

(* Frames are accepted and delivered in the order of their numbers.        *)
LEMMA HistoriesStep ==
  ASSUME Prompt = TRUE, Turns, RingTypes, Histories, Reading, [Next]_vars
  PROVE  Histories'
<1>1. CASE NicAccepts
  <2>1. /\ accepted' = Append(accepted, Len(accepted) + 1) /\ UNCHANGED delivered
        /\ Len(accepted) < FrameBound
    BY <1>1 DEF NicAccepts
  <2>2. Len(accepted) \in Nat /\ FrameBound \in Nat
    BY RingConstants DEF Histories
  <2> QED BY <2>1, <2>2 DEF Histories
<1>2. CASE Deliver("irq")
  <2>1. delivered' = Append(delivered, Len(delivered) + 1) /\ UNCHANGED accepted
    BY <1>2, DeliversNext DEF Deliver, nicVars
  <2> QED BY <2>1 DEF Histories
<1>3. CASE ReadHeader("irq") \/ Advance("irq") \/ WriteCapr("irq") \/ UNCHANGED ringVars
  <2>1. UNCHANGED <<accepted, delivered>>
    BY <1>3 DEF ReadHeader, Advance, WriteCapr, nicVars, ringVars
  <2> QED BY <2>1 DEF Histories
<1> QED
  BY <1>1, <1>2, <1>3, HandlerReads

(* The pointers stay multiples of 4 in the ring.                           *)
LEMMA RingTypesStep ==
  ASSUME Prompt = TRUE, Turns, RingTypes, Histories, Reading, [Next]_vars
  PROVE  RingTypes'
<1>1. CASE NicAccepts
  <2>1. PICK len \in Lengths :
          /\ ring' = [o \in Offsets |->
                        IF o = RxBufAddr THEN [frame |-> Len(accepted) + 1, total_len |-> len]
                        ELSE IF o > RxBufAddr /\ o < RxBufAddr + Rounded(len + 4)
                             THEN Junk ELSE ring[o]]
          /\ RxBufAddr' = (RxBufAddr + Rounded(len + 4)) % RING
    BY <1>1 DEF NicAccepts
  <2>2. UNCHANGED <<rx_read_ptr, RxBufPtr>> /\ Len(accepted) < FrameBound
    BY <1>1 DEF NicAccepts
  <2>3. [frame |-> Len(accepted) + 1, total_len |-> len] \in Headers
    BY <2>2, RingConstants DEF Headers, Histories
  <2>4. ring' \in [Offsets -> Headers \cup {Junk}]
    BY <2>1, <2>3 DEF RingTypes
  <2> DEFINE a == RxBufAddr
             z == Size(len)
  <2>5. /\ a \in 0 .. (RING - 1) /\ a % 4 = 0 /\ z \in Nat /\ z % 4 = 0 /\ z < RING
        /\ RING \in Nat
    BY PacketSize, RingConstants DEF RingTypes, Offsets
  <2>6. a + z \in 0 .. (RING + RING - 1) /\ (a + z) % 4 = 0
    <3> HIDE DEF a, z
    <3> QED BY <2>5, SumOfFours
  <2>7. (a + z) % RING \in Offsets
    <3> HIDE DEF a, z
    <3> QED BY <2>6, Places
  <2> QED BY <2>1, <2>2, <2>4, <2>7 DEF RingTypes, Size
<1>2. CASE Advance("irq")
  <2>1. UNCHANGED <<ring, RxBufAddr, RxBufPtr>>
    BY <1>2 DEF Advance, nicVars
  <2>2. where'["irq"] = "capr"
    BY <1>2 DEF Advance, Goto, Turns
  <2>3. PICK n \in Nat : \E s \in [0 .. n -> Nat] : Chain(n, s)' /\ Progress(n, s)'
    BY ReadingStep DEF Reading
  <2>4. PICK s \in [0 .. n -> Nat] : Chain(n, s)' /\ Progress(n, s)'
    BY <2>3
  <2>5. n > 0 /\ rx_read_ptr' = Wrapped(s[1])
    BY <2>2, <2>4 DEF Progress
  <2>6. Chain(n, s)
    BY <2>1, <2>4, <1>2 DEF Chain, Advance, nicVars
  <2>7. 1 \in 0 .. n
    BY <2>5
  <2>8. rx_read_ptr' \in Offsets
    BY <2>5, <2>6, <2>7, ChainPlaces
  <2> QED BY <2>1, <2>8 DEF RingTypes
<1>3. CASE WriteCapr("irq")
  <2>1. RxBufPtr' = rx_read_ptr /\ UNCHANGED <<ring, RxBufAddr, rx_read_ptr>>
    <3>1. rx_read_ptr \in 0 .. (RING - 1)
      BY DEF RingTypes, Offsets
    <3>2. RxBufPtr' = (((WORD + rx_read_ptr - 16) % WORD) + 16) % RING
      BY <1>3 DEF WriteCapr
    <3> QED BY <1>3, <3>1, <3>2, Capr DEF WriteCapr, nicVars
  <2> QED BY <2>1 DEF RingTypes
<1>4. CASE ReadHeader("irq") \/ Deliver("irq") \/ UNCHANGED ringVars
  BY <1>4 DEF ReadHeader, Deliver, nicVars, ringVars, RingTypes
<1> QED
  BY <1>1, <1>2, <1>3, <1>4, HandlerReads

-----------------------------------------------------------------------------
(* The theorems.                                                           *)

(* The driver's statics and the cleared ring satisfy the invariant.        *)
LEMMA InitInv == Init => IInv
<1> SUFFICES ASSUME Init PROVE IInv
  OBVIOUS
<1>1. RING \in Nat \ {0} /\ 0 % 4 = 0
  BY RingConstants
<1>2. 0 \in Offsets /\ RingTypes
  BY <1>1 DEF Init, RingTypes, Offsets
<1>3. Turns
  BY DEF Init, Turns, Empty
<1>4. Histories
  <2>1. accepted = <<>> /\ delivered = <<>> /\ FrameBound \in Nat
    BY RingConstants DEF Init
  <2> QED BY <2>1 DEF Histories
<1>5. Reading
  <2> DEFINE s == [k \in 0 .. 0 |-> 0]
  <2>1. s \in [0 .. 0 -> Nat] /\ s[0] = 0
    OBVIOUS
  <2> HIDE DEF s
  <2>2. Chain(0, s)
    <3>1. Wrapped(0) = 0 /\ 0 < 0 + RING
      BY <1>1 DEF Wrapped
    <3>2. RxBufPtr = 0 /\ RxBufAddr = 0
      BY DEF Init
    <3>3. \A k \in 0 .. 0 : s[k] % 4 = 0 /\ \A j \in 0 .. k - 1 : s[j] < s[k]
      BY <1>1, <2>1
    <3> QED BY <2>1, <3>1, <3>2, <3>3 DEF Chain
  <2>3. Progress(0, s)
    <3>1. Len(accepted) = 0 /\ Len(delivered) = 0 /\ rx_read_ptr = 0 /\ where["irq"] = "test"
      BY DEF Init
    <3> QED BY <2>1, <3>1 DEF Progress
  <2>4. 0 \in Nat
    OBVIOUS
  <2> QED BY <2>1, <2>2, <2>3, <2>4 DEF Reading
<1> QED
  BY <1>2, <1>3, <1>4, <1>5 DEF IInv

(* The invariant holds whenever interrupts are taken in time.              *)
LEMMA Inductive ==
  ASSUME Prompt = TRUE
  PROVE  Spec => []IInv
<1>1. IInv /\ [Next]_vars => IInv'
  BY TurnsStep, HistoriesStep, RingTypesStep, ReadingStep DEF IInv
<1> QED
  BY <1>1, InitInv, PTL DEF Spec

(* Types hold: both contexts are at steps of their own, and all pointers   *)
(* are places where a packet may start.                                    *)
THEOREM TypeCorrect ==
  ASSUME Prompt = TRUE
  PROVE  Spec => []TypeOK
<1>1. IInv => TypeOK
  BY DEF IInv, Turns, RingTypes, TypeOK
<1> QED
  BY <1>1, Inductive, PTL

(* For every ring, register width and length of frames that fit: between   *)
(* packets the NIC and the driver agree on what has been read, and the     *)
(* next packet starts there, not overwritten.                              *)
THEOREM DriverInStep ==
  ASSUME Prompt = TRUE
  PROVE  Spec => []RingInStep
<1>1. IInv => RingInStep
  <2> SUFFICES ASSUME IInv, where["irq"] = "test"
               PROVE  /\ RxBufPtr = rx_read_ptr
                      /\ ~Empty => ring[rx_read_ptr].frame = Len(delivered) + 1
    BY DEF RingInStep
  <2>1. PICK n \in Nat : \E s \in [0 .. n -> Nat] : Chain(n, s) /\ Progress(n, s)
    BY DEF IInv, Reading
  <2>2. PICK s \in [0 .. n -> Nat] : Chain(n, s) /\ Progress(n, s)
    BY <2>1
  <2>3. rx_read_ptr = s[0] /\ RxBufPtr = s[0] /\ Len(delivered) = Len(accepted) - n + 0
    BY <2>2 DEF Progress, Chain
  <2>4. ASSUME ~Empty PROVE ring[s[0]].frame = Len(accepted) - n + 1
    <3>1. n \in Nat \ {0}
      BY <2>2, <2>4, ChainPlaces DEF IInv
    <3> QED BY <2>2, <3>1, FirstHeader DEF IInv
  <2>5. Len(accepted) \in Nat
    BY DEF IInv, Histories
  <2> QED BY <2>3, <2>4, <2>5
<1> QED
  BY <1>1, Inductive, PTL

(* kernel_main does not sleep on a packet that no interrupt announces.     *)
THEOREM NoneForgotten ==
  ASSUME Prompt = TRUE
  PROVE  Spec => []NothingForgotten
<1>1. IInv => NothingForgotten
  BY DEF IInv, Turns, NothingForgotten
<1> QED
  BY <1>1, Inductive, PTL

(* No more frames are delivered than were accepted.                        *)
LEMMA Counts == IInv => Len(delivered) \in 0 .. Len(accepted)
<1> SUFFICES ASSUME IInv PROVE Len(delivered) \in 0 .. Len(accepted)
  OBVIOUS
<1>1. PICK n \in Nat : \E s \in [0 .. n -> Nat] : Progress(n, s)
  BY DEF IInv, Reading
<1>2. Len(accepted) \in Nat /\ Len(delivered) \in Nat
  BY DEF IInv, Histories
<1>3. \E done \in {0, 1} : Len(delivered) = Len(accepted) - n + done /\ (done = 1 => n > 0)
  BY <1>1 DEF Progress
<1> QED
  BY <1>2, <1>3

(* What is left once more is added.                                        *)
LEMMA LeftAdded ==
  ASSUME NEW a \in Seq(Nat), NEW d \in 0 .. Len(a), NEW f \in Nat
  PROVE  SubSeq(Append(a, f), d + 1, Len(a) + 1) = Append(SubSeq(a, d + 1, Len(a)), f)
<1> DEFINE L == Len(a)
           x == SubSeq(Append(a, f), d + 1, L + 1)
           y == SubSeq(a, d + 1, L)
<1>1. L \in Nat /\ d \in 0 .. L /\ Append(a, f) \in Seq(Nat) /\ Len(Append(a, f)) = L + 1
  BY AppendProperties
<1>2. /\ \A i \in 1 .. L : Append(a, f)[i] = a[i]
      /\ Append(a, f)[L + 1] = f
  BY AppendProperties
<1>3. /\ x \in Seq(Nat) /\ Len(x) = L - d + 1
      /\ \A i \in 1 .. L - d + 1 : x[i] = Append(a, f)[d + i]
  <2>1. d + 1 \in 1 .. (L + 1) + 1 /\ L + 1 \in (d + 1) - 1 .. L + 1
    BY <1>1
  <2> QED BY <1>1, <2>1, SubSeqProperties
<1>4. /\ y \in Seq(Nat) /\ Len(y) = L - d
      /\ \A i \in 1 .. L - d : y[i] = a[d + i]
  <2>1. d + 1 \in 1 .. L + 1 /\ L \in (d + 1) - 1 .. L
    BY <1>1
  <2> QED BY <1>1, <2>1, SubSeqProperties
<1> HIDE DEF L, x, y
<1>5. /\ Append(y, f) \in Seq(Nat) /\ Len(Append(y, f)) = L - d + 1
      /\ \A i \in 1 .. L - d : Append(y, f)[i] = y[i]
      /\ Append(y, f)[L - d + 1] = f
  <2>1. /\ Append(y, f) \in Seq(Nat) /\ Len(Append(y, f)) = Len(y) + 1
        /\ \A i \in 1 .. Len(y) : Append(y, f)[i] = y[i]
        /\ Append(y, f)[Len(y) + 1] = f
    BY <1>4, AppendProperties
  <2>2. Len(y) = L - d
    BY <1>4
  <2> QED BY <2>1, <2>2
<1>6. ASSUME NEW i \in 1 .. Len(x) PROVE x[i] = Append(y, f)[i]
  <2>1. CASE i \in 1 .. L - d
    <3>1. d + i \in 1 .. L
      BY <1>1, <2>1 DEF L
    <3> QED BY <1>2, <1>3, <1>4, <1>5, <2>1, <3>1
  <2>2. CASE i = L - d + 1
    <3>1. d + i = L + 1
      BY <1>1, <2>2
    <3> QED BY <1>2, <1>3, <1>5, <2>2, <3>1
  <2>3. i \in 1 .. L - d \/ i = L - d + 1
    <3>1. i \in 1 .. L - d + 1 /\ L - d \in Nat
      BY <1>1, <1>3
    <3> QED BY <3>1
  <2> QED BY <2>1, <2>2, <2>3
<1>7. x = Append(y, f)
  BY <1>3, <1>5, <1>6, SeqEqual
<1> QED
  BY <1>7 DEF L, x, y

(* What is left once the first of it is gone.                              *)
LEMMA LeftTaken ==
  ASSUME NEW a \in Seq(Nat), NEW d \in 0 .. Len(a) - 1
  PROVE  /\ SubSeq(a, d + 1, Len(a)) # <<>>
         /\ Head(SubSeq(a, d + 1, Len(a))) = a[d + 1]
         /\ Tail(SubSeq(a, d + 1, Len(a))) = SubSeq(a, d + 2, Len(a))
<1> DEFINE L == Len(a)
           x == SubSeq(a, d + 1, L)
           y == SubSeq(a, d + 2, L)
<1>1. L \in Nat
  OBVIOUS
<1>2. /\ x \in Seq(Nat) /\ Len(x) = L - d
      /\ \A i \in 1 .. L - d : x[i] = a[d + i]
  <2>1. d + 1 \in 1 .. L + 1 /\ L \in (d + 1) - 1 .. L
    BY <1>1
  <2> QED BY <1>1, <2>1, SubSeqProperties
<1>3. /\ y \in Seq(Nat) /\ Len(y) = L - d - 1
      /\ \A i \in 1 .. L - d - 1 : y[i] = a[d + 1 + i]
  <2>1. d + 2 \in 1 .. L + 1 /\ L \in (d + 2) - 1 .. L
    BY <1>1
  <2> QED BY <1>1, <2>1, SubSeqProperties
<1> HIDE DEF L, x, y
<1>4. L - d >= 1
  BY <1>1 DEF L
<1>5. x # <<>>
  BY <1>1, <1>2, <1>4
<1>6. /\ Head(x) = x[1] /\ Tail(x) \in Seq(Nat) /\ Len(Tail(x)) = Len(x) - 1
      /\ \A i \in 1 .. Len(Tail(x)) : Tail(x)[i] = x[i + 1]
  BY <1>2, <1>5, HeadTailProperties
<1>7. ASSUME NEW i \in 1 .. Len(y) PROVE y[i] = Tail(x)[i]
  <2>1. i \in 1 .. L - d - 1 /\ i + 1 \in 1 .. L - d /\ d + (i + 1) = d + 1 + i
    BY <1>1, <1>3
  <2> QED BY <1>2, <1>3, <1>6, <2>1
<1>8. Tail(x) = y
  BY <1>1, <1>2, <1>3, <1>6, <1>7, SeqEqual
<1>9. x[1] = a[d + 1]
  BY <1>1, <1>2, <1>4
<1> QED
  BY <1>5, <1>6, <1>8, <1>9 DEF L, x, y

(* Each accepted frame is handed to the network once, in order: the safety *)
(* part of the queue that the ring stands for.                             *)
THEOREM QueueImplemented ==
  ASSUME Prompt = TRUE
  PROVE  Spec => Queue!Init /\ [][Queue!Next]_<<Undelivered, delivered>>
<1>1. Init => Queue!Init
  BY DEF Init, Queue!Init, Undelivered
<1>2. IInv /\ [Next]_vars => [Queue!Next]_<<Undelivered, delivered>>
  <2> SUFFICES ASSUME IInv, [Next]_vars PROVE [Queue!Next]_<<Undelivered, delivered>>
    OBVIOUS
  <2>0. Turns /\ Histories /\ RingTypes /\ Reading
    BY DEF IInv
  <2>1. CASE NicAccepts
    <3>1. /\ accepted' = Append(accepted, Len(accepted) + 1) /\ UNCHANGED delivered
          /\ Len(accepted) + 1 \in 1 .. FrameBound
      BY <2>0, <2>1, RingConstants DEF NicAccepts, Histories
    <3>2. Len(delivered) \in 0 .. Len(accepted) /\ Len(accepted') = Len(accepted) + 1
      BY <2>0, <3>1, Counts DEF Histories
    <3>3. Undelivered' = Append(Undelivered, Len(accepted) + 1)
      <4>1. accepted \in Seq(Nat) /\ Len(accepted) + 1 \in Nat
        BY <2>0 DEF Histories
      <4>2. SubSeq(Append(accepted, Len(accepted) + 1), Len(delivered) + 1, Len(accepted) + 1)
              = Append(SubSeq(accepted, Len(delivered) + 1, Len(accepted)), Len(accepted) + 1)
        BY <3>2, <4>1, LeftAdded
      <4> QED BY <3>1, <3>2, <4>2 DEF Undelivered
    <3> QED BY <3>1, <3>3 DEF Queue!Next, Queue!Accept
  <2>2. CASE Deliver("irq")
    <3>1. /\ delivered' = Append(delivered, Len(delivered) + 1) /\ UNCHANGED accepted
          /\ Len(delivered) < Len(accepted)
      BY <2>0, <2>2, DeliversNext DEF Deliver, nicVars
    <3>2. /\ Len(delivered) \in 0 .. Len(accepted) - 1
          /\ Len(delivered') = Len(delivered) + 1
      BY <2>0, <3>1 DEF Histories
    <3>3. accepted[Len(delivered) + 1] = Len(delivered) + 1
      BY <2>0, <3>2 DEF Histories
    <3>4. (Len(delivered) + 1) + 1 = Len(delivered) + 2
      BY <3>2
    <3>5. /\ Undelivered # <<>> /\ Head(Undelivered) = Len(delivered) + 1
          /\ Undelivered' = Tail(Undelivered)
      BY <2>0, <3>1, <3>2, <3>3, <3>4, LeftTaken DEF Undelivered, Histories
    <3> QED BY <3>1, <3>5 DEF Queue!Next, Queue!Deliver
  <2>3. CASE ReadHeader("irq") \/ Advance("irq") \/ WriteCapr("irq") \/ UNCHANGED ringVars
    BY <2>3 DEF ReadHeader, Advance, WriteCapr, nicVars, ringVars, Undelivered
  <2> QED BY <2>0, <2>1, <2>2, <2>3, HandlerReads
<1> QED
  BY <1>1, <1>2, Inductive, PTL DEF Spec
=============================================================================
