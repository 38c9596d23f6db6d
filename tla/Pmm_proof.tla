----------------------------- MODULE Pmm_proof -----------------------------
(* Proofs about Pmm for every memory map, page size and bitmap geometry    *)
(* that GeometryAssumption and MemmapAssumption allow.                     *)
EXTENDS Pmm, NatFacts

-----------------------------------------------------------------------------
(* pmm_init's sizes and what it reserves.                                  *)

(* A page, a bitmap byte and a huge page are not empty.                     *)
LEMMA Geometry ==
  /\ PageSize \in Nat \ {0} /\ ByteBits \in Nat \ {0}
  /\ HugeBytes \in Nat \ {0} /\ HugeFrames \in Nat \ {0}
  /\ RunLengths \subseteq Nat
BY GeometryAssumption DEF HugeFrames

(* The numbers Limine reports are natural numbers.                          *)
LEMMA MemmapEntries ==
  \A i \in DOMAIN Memmap : Memmap[i].base \in Nat /\ Memmap[i].length \in Nat
<1> SUFFICES ASSUME NEW i \in DOMAIN Memmap
             PROVE  Memmap[i].base \in Nat /\ Memmap[i].length \in Nat
  OBVIOUS
<1> DEFINE R == [base : Nat, length : Nat, type : STRING]
<1>1. Memmap \in Seq(R)
  BY MemmapAssumption
<1>2. Memmap[i] \in R
  <2> HIDE DEF R
  <2>1. DOMAIN Memmap = 1 .. Len(Memmap)
    BY <1>1
  <2> QED BY <1>1, <2>1
<1> QED
  BY <1>2

(* The bitmap holds a bit for every frame below the highest usable one.    *)
LEMMA HighestAddr ==
  /\ get_highest_usable_addr \in Nat
  /\ \A i \in DOMAIN Memmap : Allocatable(Memmap[i]) =>
       Memmap[i].base + Memmap[i].length <= get_highest_usable_addr
<1> DEFINE S == {0} \cup EntryEnds
<1>2. AddrLimit \in Nat /\ S \in SUBSET (0 .. AddrLimit) /\ S # {}
  BY MemmapEntries, MemmapAssumption, GeometryAssumption DEF EntryEnds
<1>3. Max(S) \in S /\ \A y \in S : y <= Max(S)
  <2> HIDE DEF S
  <2> QED BY <1>2, MaxFact
<1>4. \A i \in DOMAIN Memmap : Allocatable(Memmap[i]) =>
        Memmap[i].base + Memmap[i].length \in S
  BY DEF EntryEnds
<1> QED
  BY <1>2, <1>3, <1>4 DEF get_highest_usable_addr

(* Rounding up loses nothing: pmm_init rounds frames and bytes up.          *)
LEMMA CeilDivFact ==
  ASSUME NEW a \in Nat, NEW b \in Nat \ {0}
  PROVE  CeilDiv(a, b) \in Nat /\ a <= CeilDiv(a, b) * b
<1>1. a + b - 1 \in Nat
  OBVIOUS
<1> DEFINE c == a + b - 1
           q == c \div b
<1>2. q \in Nat /\ b * q <= c /\ c < b * q + b
  BY <1>1, DivNat
<1>3. q * b = b * q
  BY <1>2
<1> QED
  BY <1>2, <1>3 DEF CeilDiv

(* The bitmap of pmm_init has a bit for every frame it counts.              *)
LEMMA BitmapSizes ==
  /\ total_frames \in Nat /\ bitmap_size \in Nat
  /\ get_highest_usable_addr <= total_frames * PageSize
  /\ total_frames <= bitmap_size * ByteBits
  /\ bitmap_size * ByteBits \in Nat
  /\ IsFiniteSet(Bits) /\ Bits \subseteq Nat
<1>1. total_frames \in Nat /\ get_highest_usable_addr <= total_frames * PageSize
  BY HighestAddr, Geometry, CeilDivFact DEF total_frames
<1>2. bitmap_size \in Nat /\ total_frames <= bitmap_size * ByteBits
  BY <1>1, Geometry, CeilDivFact DEF bitmap_size
<1>3. bitmap_size * ByteBits \in Nat
  BY <1>2, Geometry
<1>4. IsFiniteSet(Bits) /\ Bits \subseteq Nat
  BY <1>3, FS_Interval DEF Bits
<1> QED
  BY <1>1, <1>2, <1>3, <1>4

(* Frame 0, which doubles as the NULL of every search, and the bits of the *)
(* last byte that stand for no frame are never cleared by pmm_init.        *)
LEMMA PoolFact ==
  Pool \subseteq 1 .. (total_frames - 1)
<1> SUFFICES ASSUME NEW f \in Pool PROVE f \in 1 .. (total_frames - 1)
  OBVIOUS
<1>1. PICK i \in DOMAIN Memmap :
        Allocatable(Memmap[i]) /\ f \in PagesOf(Memmap[i].base, Memmap[i].length)
  BY DEF Pool, Reserved, AllocatableFrames
<1> DEFINE lo == Memmap[i].base
           hi == Memmap[i].base + Memmap[i].length
<1>2. lo \in Nat /\ hi \in Nat /\ lo >= PageSize
  BY <1>1, MemmapEntries, MemmapAssumption
<1>3. hi <= total_frames * PageSize
  BY <1>1, <1>2, HighestAddr, BitmapSizes, Geometry
<1>4. hi - 1 \in Nat /\ PageSize \in Nat \ {0} /\ f \in Nat
  <2>1. lo <= hi
    BY MemmapEntries
  <2>2. f \in Nat
    BY BitmapSizes DEF Pool
  <2> QED BY <1>2, <2>1, <2>2, Geometry
<1>5. lo \div PageSize <= f /\ f <= (hi - 1) \div PageSize
  <2>0. f \in PagesOf(Memmap[i].base, Memmap[i].length)
    BY <1>1
  <2>1. f \in (lo \div PageSize) .. ((hi - 1) \div PageSize)
    BY <2>0, MemmapEntries DEF PagesOf
  <2>2. lo \div PageSize \in Int /\ (hi - 1) \div PageSize \in Int
    BY <1>2, <1>4
  <2> QED BY <1>4, <2>1, <2>2
<1> HIDE DEF lo, hi
<1>6. f < total_frames
  <2>1. (hi - 1) \div PageSize < total_frames
    BY <1>2, <1>3, <1>4, BitmapSizes, DivBelow
  <2>2. (hi - 1) \div PageSize \in Nat
    BY <1>4, DivNat
  <2> QED BY <1>4, <1>5, <2>1, <2>2, BitmapSizes
<1>7. 1 <= f
  <2>1. lo \div PageSize \in Nat /\ lo < PageSize * (lo \div PageSize) + PageSize
    BY <1>2, <1>4, DivNat
  <2>2. lo \div PageSize # 0
    BY <1>2, <1>4, <2>1
  <2> QED BY <1>4, <1>5, <2>1, <2>2
<1> QED
  BY <1>4, <1>6, <1>7, BitmapSizes

-----------------------------------------------------------------------------
(* What the three searches find.                                           *)

(* The bytes of the bitmap partition its bits.                              *)
LEMMA ByteFact ==
  /\ \A b \in 0 .. LastByte : ByteFrames(b) \subseteq Bits
  /\ \A f \in Bits : f \div ByteBits \in 0 .. LastByte
  /\ \A f \in Bits : f \in ByteFrames(f \div ByteBits)
<1>1. ASSUME NEW b \in 0 .. LastByte, NEW f \in ByteFrames(b) PROVE f \in Bits
  <2>1. b \in Nat /\ b < bitmap_size /\ ByteBits \in Nat \ {0} /\ bitmap_size \in Nat
    BY BitmapSizes, Geometry DEF LastByte
  <2>2. f \in (b * ByteBits) .. (b * ByteBits + ByteBits - 1) /\ b * ByteBits \in Nat
    BY <2>1 DEF ByteFrames
  <2>3. PICK j \in 0 .. (ByteBits - 1) : f = b * ByteBits + j
    <3>1. f - b * ByteBits \in 0 .. (ByteBits - 1)
      BY <2>1, <2>2
    <3> QED BY <2>1, <2>2, <3>1
  <2>4. f \div ByteBits = b /\ f \in Nat
    BY <2>1, <2>2, <2>3, DivModOf
  <2>5. f < bitmap_size * ByteBits
    BY <2>1, <2>4, DivBelow
  <2> QED BY <2>4, <2>5, BitmapSizes DEF Bits
<1>2. ASSUME NEW f \in Bits
      PROVE  f \div ByteBits \in 0 .. LastByte /\ f \in ByteFrames(f \div ByteBits)
  <2>1. f \in Nat /\ f < bitmap_size * ByteBits /\ bitmap_size \in Nat /\ ByteBits \in Nat \ {0}
    BY BitmapSizes, Geometry DEF Bits
  <2> DEFINE q == f \div ByteBits
  <2>2. q \in Nat /\ ByteBits * q <= f /\ f < ByteBits * q + ByteBits
    BY <2>1, DivNat
  <2>3. q < bitmap_size
    BY <2>1, DivBelow
  <2> HIDE DEF q
  <2>4. q \in 0 .. LastByte
    BY <2>1, <2>2, <2>3 DEF LastByte
  <2>5. f \in ByteFrames(q)
    <3>1. q * ByteBits = ByteBits * q /\ q * ByteBits \in Nat
      BY <2>1, <2>2
    <3> QED BY <2>1, <2>2, <3>1 DEF ByteFrames
  <2> QED BY <2>4, <2>5 DEF q
<1> QED
  BY <1>1, <1>2

(* pmm_alloc finds a clear bit below total_frames; it finds none only when *)
(* every frame of the pool is taken, although it looks at a single byte.   *)
LEMMA FirstFit ==
  ASSUME bitmap \subseteq Bits, Reserved \subseteq bitmap
  PROVE  /\ first_fit \subseteq (0 .. (total_frames - 1)) \ bitmap
         /\ first_fit = {} => Bits \subseteq bitmap
<1> DEFINE open == {b \in 0 .. LastByte : ~ByteFull(b)}
           f == Min(ByteFrames(Min(open)) \ bitmap)
<1>1. CASE open = {}
  <2>1. first_fit = {}
    BY <1>1 DEF first_fit
  <2>2. \A g \in Bits : ByteFull(g \div ByteBits)
    BY <1>1, ByteFact
  <2> QED BY <2>1, <2>2, ByteFact DEF ByteFull
<1>2. CASE open # {}
  <2>1. Min(open) \in open
    <3>1. open \in SUBSET Nat
      OBVIOUS
    <3> QED BY <1>2, <3>1, MinFact
  <2> HIDE DEF open
  <2>2. /\ ByteFrames(Min(open)) \subseteq Bits
        /\ ByteFrames(Min(open)) \ bitmap # {}
    BY <2>1, ByteFact DEF open, ByteFull
  <2>3. f \in Bits \ bitmap
    <3>1. ByteFrames(Min(open)) \ bitmap \in SUBSET Nat
      BY <2>2, BitmapSizes
    <3> QED BY <2>2, <3>1, MinFact
  <2>4. f \in 0 .. (total_frames - 1)
    <3>1. f \in Pool
      BY <2>3 DEF Pool
    <3> HIDE DEF f
    <3> QED BY <3>1, PoolFact
  <2>5. first_fit = {f}
    BY <1>2, <2>4 DEF first_fit, open
  <2> QED BY <2>3, <2>4, <2>5
<1> QED
  BY <1>1, <1>2

(* ... and there is no clear bit below the one it finds.                   *)
LEMMA FirstFitIsLowest ==
  ASSUME bitmap \subseteq Bits, NEW f \in first_fit, NEW g \in Bits \ bitmap
  PROVE  f <= g
<1> DEFINE open == {b \in 0 .. LastByte : ~ByteFull(b)}
           b == g \div ByteBits
           m == Min(open)
           clear == ByteFrames(m) \ bitmap
<1>1. b \in open /\ g \in ByteFrames(b)
  BY ByteFact DEF ByteFull
<1>2. m \in open /\ m <= b
  <2>1. open \in SUBSET Nat
    OBVIOUS
  <2> HIDE DEF open, b
  <2> QED BY <1>1, <2>1, MinFact
<1>3. /\ m \in Nat /\ b \in Nat /\ ByteBits \in Nat \ {0}
      /\ m * ByteBits \in Nat /\ b * ByteBits \in Nat
  BY <1>1, <1>2, Geometry
<1>4. clear # {} /\ clear \in SUBSET Nat
  BY <1>2, ByteFact, BitmapSizes DEF ByteFull
<1>5. f = Min(clear)
  BY <1>1 DEF first_fit
<1>6. f \in clear /\ \A y \in clear : f <= y
  <2> HIDE DEF clear
  <2> QED BY <1>4, <1>5, MinFact
<1> HIDE DEF open, b, m
<1>7. CASE m = b
  BY <1>1, <1>6, <1>7
<1>8. CASE m # b
  <2>1. f <= m * ByteBits + ByteBits - 1 /\ f \in Nat
    BY <1>3, <1>4, <1>6 DEF ByteFrames
  <2>2. b * ByteBits <= g /\ g \in Nat
    BY <1>1, <1>3, BitmapSizes DEF ByteFrames
  <2>3. m * ByteBits + ByteBits <= b * ByteBits
    <3>1. PICK d \in Nat : b = m + 1 + d
      <4>1. b - m - 1 \in Nat /\ b = m + 1 + (b - m - 1)
        BY <1>2, <1>3, <1>8
      <4> QED BY <4>1
    <3>2. b * ByteBits = m * ByteBits + ByteBits + d * ByteBits /\ d * ByteBits >= 0
      BY <3>1, <1>3
    <3> QED BY <3>2, <1>3
  <2> QED BY <2>1, <2>2, <2>3, <1>3
<1> QED BY <1>7, <1>8

(* Every frame below total_frames has a bit.                                *)
LEMMA BitsUpToTotal == 0 .. (total_frames - 1) \subseteq Bits
  BY BitmapSizes DEF Bits

(* pmm_alloc_contiguous finds a run of clear bits inside the bitmap.        *)
LEMMA FirstRun ==
  ASSUME bitmap \subseteq Bits, NEW n \in RunLengths, FreeRuns(n) # {}
  PROVE  /\ Min(FreeRuns(n)) \in Nat /\ n \in Nat \ {0}
         /\ Run(Min(FreeRuns(n)), n) \subseteq Bits \ bitmap
<1>1. n \in Nat /\ total_frames \in Nat
  BY Geometry, BitmapSizes
<1>2. FreeRuns(n) \in SUBSET Nat
  BY <1>1 DEF FreeRuns
<1>3. Min(FreeRuns(n)) \in FreeRuns(n)
  BY <1>2, MinFact
<1>4. ASSUME NEW s \in FreeRuns(n) PROVE n > 0 /\ Run(s, n) \subseteq Bits \ bitmap
  <2>1. s \in 0 .. (total_frames - n) /\ n > 0 /\ Run(s, n) \cap bitmap = {}
    BY DEF FreeRuns
  <2>2. Run(s, n) \subseteq 0 .. (total_frames - 1)
    BY <1>1, <2>1 DEF Run
  <2> QED BY <2>1, <2>2, BitsUpToTotal
<1> QED
  BY <1>1, <1>2, <1>3, <1>4

(* A 2mb page has HugeFrames frames, its first among them.                  *)
LEMMA HugeBlockFact ==
  ASSUME NEW h \in Nat
  PROVE  /\ h \in HugeBlock(h) /\ HugeBlock(h) \subseteq Nat
         /\ IsFiniteSet(HugeBlock(h)) /\ Cardinality(HugeBlock(h)) = HugeFrames
<1>1. h + HugeFrames - 1 \in Int /\ HugeFrames \in Nat \ {0}
  BY Geometry
<1> QED
  BY <1>1, FS_Interval DEF HugeBlock

(* The bytes that pmm_alloc_2mb tests are exactly the bits it then sets.   *)
LEMMA HugePageBytes ==
  ASSUME NEW b \in Nat, NEW f \in HugeBlock(b * ByteBits)
  PROVE  \E entry \in 0 .. (HugeBytes - 1) : f \in ByteFrames(b + entry)
<1>1. ByteBits \in Nat \ {0} /\ HugeBytes \in Nat \ {0} /\ b * ByteBits \in Nat
  BY Geometry
<1> DEFINE j == f - b * ByteBits
           q == j \div ByteBits
<1>2. j \in Nat /\ j < HugeBytes * ByteBits /\ f = b * ByteBits + j
  <2>1. HugeBytes * ByteBits \in Nat
    BY <1>1
  <2> QED BY <1>1, <2>1 DEF HugeBlock, HugeFrames
<1> HIDE DEF j
<1>3. q \in Nat /\ ByteBits * q <= j /\ j < ByteBits * q + ByteBits
  BY <1>1, <1>2, DivNat
<1>4. q < HugeBytes
  BY <1>1, <1>2, DivBelow
<1> HIDE DEF q
<1>5. (b + q) * ByteBits = b * ByteBits + ByteBits * q /\ ByteBits * q \in Nat
  BY <1>1, <1>3
<1>6. f \in ByteFrames(b + q)
  BY <1>1, <1>2, <1>3, <1>5 DEF ByteFrames
<1> QED
  BY <1>1, <1>3, <1>4, <1>6

(* pmm_alloc_2mb finds an aligned block of clear bits; it finds none only  *)
(* when no aligned block is clear.                                         *)
LEMMA FirstHugePage ==
  ASSUME bitmap \subseteq Bits, EmptyHugePages # {}
  PROVE  LET h == Min(EmptyHugePages) * ByteBits
         IN  h \in HugeStarts /\ HugeBlock(h) \subseteq Bits \ bitmap
<1> DEFINE b == Min(EmptyHugePages)
           h == b * ByteBits
<1>1. bitmap_size \in Nat /\ ByteBits \in Nat \ {0} /\ HugeBytes \in Nat \ {0}
  BY BitmapSizes, Geometry
<1>2. b \in EmptyHugePages
  <2>1. EmptyHugePages \in SUBSET Nat
    BY <1>1 DEF EmptyHugePages, LastByte
  <2> QED BY <2>1, MinFact
<1> HIDE DEF b
<1>3. /\ b \in Nat /\ b < bitmap_size
      /\ b % HugeBytes = 0 /\ b + HugeBytes <= bitmap_size
      /\ \A entry \in 0 .. (HugeBytes - 1) : ByteEmpty(b + entry)
  BY <1>1, <1>2 DEF EmptyHugePages, InBitmap, LastByte
<1>4. HugeBlock(h) \subseteq Bits \ bitmap
  <2> SUFFICES ASSUME NEW f \in HugeBlock(h) PROVE f \in Bits \ bitmap
    OBVIOUS
  <2>1. PICK entry \in 0 .. (HugeBytes - 1) : f \in ByteFrames(b + entry)
    BY <1>3, HugePageBytes
  <2>2. b + entry \in 0 .. LastByte
    BY <1>1, <1>3, <2>1 DEF LastByte
  <2>3. f \in Bits
    BY <2>1, <2>2, ByteFact
  <2>4. f \notin bitmap
    BY <1>3, <2>1 DEF ByteEmpty
  <2> QED BY <2>3, <2>4
<1>5. h % HugeFrames = 0
  <2>1. b = HugeBytes * (b \div HugeBytes) /\ b \div HugeBytes \in Nat
    BY <1>1, <1>3, DivMod, DivNat
  <2>2. PICK k \in Nat : b = HugeBytes * k
    BY <2>1
  <2>3. h = k * HugeFrames + 0
    BY <1>1, <2>2 DEF HugeFrames
  <2>4. 0 \in 0 .. (HugeFrames - 1)
    BY Geometry
  <2> HIDE DEF h
  <2> QED BY <2>2, <2>3, <2>4, Geometry, DivModOf
<1>6. h \in Nat
  BY <1>1, <1>3
<1>7. h \in Bits
  BY <1>4, <1>6, HugeBlockFact
<1> QED
  BY <1>4, <1>5, <1>7 DEF HugeStarts, b

(* pmm_alloc_2mb overlooks no aligned block of clear bits.                  *)
LEMMA HugePageSearchComplete ==
  ASSUME NEW h \in HugeStarts, HugeBlock(h) \subseteq Bits \ bitmap
  PROVE  EmptyHugePages # {}
<1>1. bitmap_size \in Nat /\ ByteBits \in Nat \ {0} /\ HugeBytes \in Nat \ {0}
  BY BitmapSizes, Geometry
<1>2. h \in Nat /\ h % HugeFrames = 0
  BY BitmapSizes DEF HugeStarts
<1>3. PICK k \in Nat : h = HugeFrames * k
  <2>0. HugeFrames \in Nat \ {0} /\ h \in Int
    BY <1>2, Geometry
  <2>1. h \div HugeFrames \in Nat /\ h = HugeFrames * (h \div HugeFrames) + (h % HugeFrames)
    BY <1>2, <2>0, DivMod, DivNat
  <2>2. h = HugeFrames * (h \div HugeFrames)
    BY <1>2, <2>1, Geometry
  <2> QED BY <2>1, <2>2
<1> DEFINE b == HugeBytes * k
<1>4. b \in Nat /\ h = b * ByteBits
  BY <1>1, <1>3 DEF HugeFrames
<1>5. b % HugeBytes = 0
  <2>1. b = k * HugeBytes + 0 /\ 0 \in 0 .. (HugeBytes - 1)
    BY <1>1
  <2> QED BY <1>1, <2>1, DivModOf
<1> HIDE DEF b
<1>6. ASSUME NEW entry \in 0 .. (HugeBytes - 1)
      PROVE  ByteFrames(b + entry) \subseteq HugeBlock(h)
  <2>1. (b + entry) * ByteBits = h + entry * ByteBits /\ entry * ByteBits \in Nat
    BY <1>1, <1>4
  <2>2. entry * ByteBits + ByteBits <= HugeFrames
    <3>1. PICK d \in Nat : HugeBytes = entry + 1 + d
      <4>1. HugeBytes - entry - 1 \in Nat /\ HugeBytes = entry + 1 + (HugeBytes - entry - 1)
        BY <1>1
      <4> QED BY <4>1
    <3>2. HugeBytes * ByteBits = entry * ByteBits + ByteBits + d * ByteBits /\ d * ByteBits >= 0
      BY <1>1, <3>1
    <3> QED BY <1>1, <2>1, <3>2 DEF HugeFrames
  <2> QED BY <1>1, <1>2, <2>1, <2>2, Geometry DEF ByteFrames, HugeBlock
<1>7. ASSUME NEW entry \in 0 .. (HugeBytes - 1)
      PROVE  ByteEmpty(b + entry) /\ b + entry < bitmap_size
  <2>1. ByteFrames(b + entry) \subseteq Bits \ bitmap
    BY <1>6
  <2>2. (b + entry) * ByteBits \in Bits
    <3>1. (b + entry) * ByteBits \in ByteFrames(b + entry)
      <4>1. (b + entry) * ByteBits \in Nat
        BY <1>1, <1>4
      <4> QED BY <1>1, <4>1 DEF ByteFrames
    <3> QED BY <2>1, <3>1
  <2>3. (b + entry) * ByteBits < bitmap_size * ByteBits /\ b + entry \in Nat
    BY <1>4, <2>2, BitmapSizes DEF Bits
  <2>4. b + entry < bitmap_size
    BY <1>1, <2>3
  <2> QED BY <2>1, <2>4 DEF ByteEmpty
<1>8. b + HugeBytes <= bitmap_size
  <2>1. HugeBytes - 1 \in 0 .. (HugeBytes - 1)
    BY <1>1
  <2> QED BY <1>1, <1>4, <1>7, <2>1
<1>9. b \in 0 .. LastByte
  BY <1>1, <1>4, <1>8 DEF LastByte
<1> QED
  BY <1>5, <1>7, <1>8, <1>9 DEF EmptyHugePages, InBitmap

-----------------------------------------------------------------------------
(* Counting.                                                               *)

(* claim_frame keeps the distance of free_frames from the clear bits.       *)
LEMMA ClaimCount ==
  ASSUME bitmap \subseteq Bits, NEW S \in SUBSET (Bits \ bitmap), Claim(S),
         NEW k \in Nat, free_frames = Cardinality(Bits \ bitmap) + k
  PROVE  free_frames' = Cardinality(Bits \ bitmap') + k
<1>1. IsFiniteSet(Bits \ bitmap) /\ S \ bitmap = S
  BY BitmapSizes, FS_Difference
<1>2. /\ Cardinality((Bits \ bitmap) \ S)
           = Cardinality(Bits \ bitmap) - Cardinality((Bits \ bitmap) \cap S)
      /\ Cardinality(Bits \ bitmap) \in Nat
  BY <1>1, FS_Difference, FS_CardinalityType
<1>3. (Bits \ bitmap) \cap S = S /\ Bits \ bitmap' = (Bits \ bitmap) \ S
  BY DEF Claim
<1>4. Cardinality(S) \in Nat
  BY <1>1, FS_Subset, FS_CardinalityType
<1>5. free_frames' = free_frames - Cardinality(S)
  BY <1>1 DEF Claim
<1>6. Cardinality(Bits \ bitmap') = Cardinality(Bits \ bitmap) - Cardinality(S)
  BY <1>2, <1>3
<1> QED
  BY <1>2, <1>4, <1>5, <1>6

(* free_frame keeps the distance of free_frames from the clear bits.        *)
LEMMA ReleaseCount ==
  ASSUME bitmap \subseteq Bits, NEW S \in SUBSET bitmap, Release(S),
         NEW k \in Nat, free_frames = Cardinality(Bits \ bitmap) + k
  PROVE  free_frames' = Cardinality(Bits \ bitmap') + k
<1>1. IsFiniteSet(Bits \ bitmap) /\ IsFiniteSet(S) /\ S \cap bitmap = S
  BY BitmapSizes, FS_Difference, FS_Subset
<1>2. Bits \ bitmap' = (Bits \ bitmap) \cup S /\ (Bits \ bitmap) \cap S = {}
  BY DEF Release
<1>3. /\ Cardinality((Bits \ bitmap) \cup S)
           = Cardinality(Bits \ bitmap) + Cardinality(S) - Cardinality({})
      /\ Cardinality(Bits \ bitmap) \in Nat /\ Cardinality(S) \in Nat
  BY <1>1, <1>2, FS_Union, FS_CardinalityType
<1>5. free_frames' = free_frames + Cardinality(S)
  BY <1>1 DEF Release
<1>6. Cardinality(Bits \ bitmap') = Cardinality(Bits \ bitmap) + Cardinality(S)
  BY <1>2, <1>3, FS_EmptySet
<1> QED
  BY <1>3, <1>5, <1>6

(* The value FreeFramesDrift gives to free_frames is never negative.        *)
LEMMA DriftIsNat ==
  ASSUME NEW B, NEW G \in SUBSET Bits
  PROVE  Cardinality(Bits \ B) + HugeFrames * Cardinality(G) \in Nat
<1>1. Cardinality(Bits \ B) \in Nat /\ Cardinality(G) \in Nat
  BY BitmapSizes, FS_Difference, FS_Subset, FS_CardinalityType
<1> QED
  BY <1>1, Geometry

-----------------------------------------------------------------------------
(* The invariant is inductive as the conjunction of its parts: Exclusive   *)
(* needs Conservation (a clear bit is held by nobody), Conservation needs  *)
(* Exclusive (a block given back takes nobody else's bits with it), and    *)
(* free_frames never wraps because of FreeFramesDrift.                     *)
IInv == TypeOK /\ Exclusive /\ Conservation /\ FreeFramesDrift

(* What the invariant says of the bitmap and of what is held.               *)
LEMMA InvFacts ==
  ASSUME IInv
  PROVE  /\ bitmap \subseteq Bits /\ Reserved \subseteq bitmap
         /\ Held \subseteq bitmap /\ Held \cap Reserved = {}
         /\ huges \subseteq Nat /\ frames \subseteq Nat
         /\ IsFiniteSet(huges) /\ HugeFrames * Cardinality(huges) \in Nat
<1>1. huges \subseteq Bits /\ frames \subseteq Bits /\ Held \subseteq Pool
  BY DEF IInv, TypeOK, HugeStarts, Exclusive
<1>2. IsFiniteSet(huges) /\ Cardinality(huges) \in Nat
  BY <1>1, BitmapSizes, FS_Subset, FS_CardinalityType
<1>3. HugeFrames * Cardinality(huges) \in Nat
  BY <1>2, Geometry
<1> QED
  BY <1>1, <1>2, <1>3, BitmapSizes DEF IInv, TypeOK, Conservation, Pool

(* Handing out clear frames, one or a run, preserves the invariant.         *)
LEMMA TakeFrames ==
  ASSUME IInv, NEW S \in SUBSET (Bits \ bitmap), Claim(S),
         frames' = frames \cup S, UNCHANGED huges, ret' \in Bits \cup {0}
  PROVE  IInv'
<1>1. HugeHeld' = HugeHeld /\ Held' = Held \cup S
  BY DEF HugeHeld, Held
<1>2. S \cap Held = {} /\ S \subseteq Pool
  BY InvFacts DEF Pool
<1>3. FreeFramesDrift'
  BY InvFacts, ClaimCount DEF IInv, FreeFramesDrift
<1>4. Exclusive'
  BY <1>1, <1>2 DEF IInv, Exclusive, Held, Pool
<1>5. Conservation'
  BY <1>1 DEF IInv, Conservation, Claim
<1>6. TypeOK'
  <2>1. bitmap' \subseteq Bits
    BY InvFacts DEF Claim
  <2>2. free_frames' \in Nat
    <3>1. huges' \in SUBSET Bits
      BY DEF IInv, TypeOK, HugeStarts
    <3> QED BY <1>3, <3>1, DriftIsNat DEF FreeFramesDrift
  <2> QED BY <2>1, <2>2 DEF IInv, TypeOK
<1> QED
  BY <1>3, <1>4, <1>5, <1>6 DEF IInv

(* pmm_free of a frame that is held preserves the invariant.                *)
LEMMA GiveFrame ==
  ASSUME IInv, NEW f \in frames, Release({f}), frames' = frames \ {f},
         UNCHANGED <<huges, ret>>
  PROVE  IInv'
<1>1. HugeHeld' = HugeHeld /\ f \notin HugeHeld /\ Held' = Held \ {f}
  BY DEF IInv, Exclusive, HugeHeld, Held
<1>2. f \in bitmap /\ f \notin Reserved
  BY InvFacts DEF Held
<1>3. FreeFramesDrift'
  <2>1. {f} \in SUBSET bitmap
    BY <1>2
  <2> QED BY <2>1, InvFacts, ReleaseCount DEF IInv, FreeFramesDrift
<1>4. Exclusive'
  BY <1>1 DEF IInv, Exclusive, Pool
<1>5. Conservation'
  BY <1>1, <1>2 DEF IInv, Conservation, Release
<1>6. TypeOK'
  <2>1. bitmap' \subseteq Bits
    BY InvFacts DEF Release
  <2>2. free_frames' \in Nat
    <3>1. huges' \in SUBSET Bits
      BY DEF IInv, TypeOK, HugeStarts
    <3> QED BY <1>3, <3>1, DriftIsNat DEF FreeFramesDrift
  <2> QED BY <2>1, <2>2 DEF IInv, TypeOK
<1> QED
  BY <1>3, <1>4, <1>5, <1>6 DEF IInv

(* Handing out a clear 2mb page preserves the invariant.                    *)
LEMMA HugePageTaken ==
  ASSUME IInv, NEW h \in HugeStarts, HugeBlock(h) \subseteq Bits \ bitmap,
         bitmap' = bitmap \cup HugeBlock(h), huges' = huges \cup {h}, ret' = h,
         UNCHANGED <<free_frames, frames>>
  PROVE  IInv'
<1> DEFINE K == HugeBlock(h)
<1>1. /\ h \in K /\ IsFiniteSet(K) /\ Cardinality(K) = HugeFrames
      /\ h \in Bits
  BY BitmapSizes, HugeBlockFact DEF HugeStarts
<1>2. HugeHeld' = HugeHeld \cup K /\ Held' = Held \cup K
  BY DEF HugeHeld, Held
<1>3. K \cap Held = {} /\ K \subseteq Pool /\ h \notin huges
  <2>1. K \cap Held = {} /\ K \subseteq Pool
    BY InvFacts DEF Pool
  <2>2. \A g \in huges : HugeBlock(g) \subseteq Held
    BY DEF Held, HugeHeld
  <2> QED BY <1>1, <2>1, <2>2
<1>4. Exclusive'
  <2>1. \A g \in huges : HugeBlock(g) \cap K = {}
    BY <1>3 DEF Held, HugeHeld
  <2>2. frames' \cap HugeHeld' = {} /\ Held' \subseteq Pool
    BY <1>2, <1>3 DEF IInv, Exclusive, Held
  <2>3. \A f, g \in huges' : f # g => HugeBlock(f) \cap HugeBlock(g) = {}
    BY <2>1 DEF IInv, Exclusive
  <2> QED BY <2>2, <2>3 DEF Exclusive, Pool
<1>5. Conservation'
  BY <1>2 DEF IInv, Conservation
<1>6. FreeFramesDrift'
  <2> DEFINE c == Cardinality(Bits \ bitmap)
             n == Cardinality(huges)
  <2>1. IsFiniteSet(Bits \ bitmap) /\ c \in Nat /\ n \in Nat
    BY InvFacts, BitmapSizes, FS_Difference, FS_CardinalityType
  <2>2. Cardinality(huges') = n + 1
    BY <1>3, InvFacts, FS_AddElement
  <2>3. Cardinality(Bits \ bitmap') = c - HugeFrames
    <3>1. Bits \ bitmap' = (Bits \ bitmap) \ K /\ (Bits \ bitmap) \cap K = K
      OBVIOUS
    <3>2. Cardinality((Bits \ bitmap) \ K) = c - Cardinality((Bits \ bitmap) \cap K)
      BY <2>1, FS_Difference
    <3> QED BY <1>1, <3>1, <3>2
  <2>4. free_frames' = c + HugeFrames * n
    BY DEF IInv, FreeFramesDrift
  <2> HIDE DEF c, n
  <2>5. c + HugeFrames * n = (c - HugeFrames) + HugeFrames * (n + 1)
    BY <2>1, Geometry
  <2> QED BY <2>2, <2>3, <2>4, <2>5 DEF FreeFramesDrift
<1>7. TypeOK'
  BY <1>1 DEF IInv, TypeOK
<1> QED
  BY <1>4, <1>5, <1>6, <1>7 DEF IInv

(* pmm_free_2mb of a 2mb page that is held preserves the invariant.         *)
LEMMA GiveHugePage ==
  ASSUME IInv, NEW h \in huges, bitmap' = bitmap \ HugeBlock(h),
         huges' = huges \ {h}, UNCHANGED <<free_frames, frames, ret>>
  PROVE  IInv'
<1> DEFINE K == HugeBlock(h)
<1>1. IsFiniteSet(K) /\ Cardinality(K) = HugeFrames
  BY InvFacts, HugeBlockFact
<1>2. K \subseteq Held /\ K \subseteq bitmap /\ K \cap Reserved = {}
  BY InvFacts DEF Held, HugeHeld
<1>3. HugeHeld' = HugeHeld \ K /\ Held' = Held \ K
  <2>1. \A g \in huges \ {h} : HugeBlock(g) \cap K = {}
    BY DEF IInv, Exclusive
  <2>2. HugeHeld' = HugeHeld \ K
    BY <2>1 DEF HugeHeld
  <2>3. frames \cap K = {}
    BY DEF IInv, Exclusive, HugeHeld
  <2> QED BY <2>2, <2>3 DEF Held
<1>4. Exclusive'
  BY <1>3 DEF IInv, Exclusive, Pool
<1>5. Conservation'
  BY <1>2, <1>3 DEF IInv, Conservation
<1>6. FreeFramesDrift'
  <2> DEFINE c == Cardinality(Bits \ bitmap)
             n == Cardinality(huges)
  <2>1. IsFiniteSet(Bits \ bitmap) /\ c \in Nat /\ n \in Nat
    BY InvFacts, BitmapSizes, FS_Difference, FS_CardinalityType
  <2>2. Cardinality(huges') = n - 1
    BY InvFacts, FS_RemoveElement
  <2>3. Cardinality(Bits \ bitmap') = c + HugeFrames
    <3>1. Bits \ bitmap' = (Bits \ bitmap) \cup K /\ (Bits \ bitmap) \cap K = {}
      BY <1>2, InvFacts
    <3>2. Cardinality((Bits \ bitmap) \cup K) = c + Cardinality(K) - Cardinality({})
      BY <1>1, <2>1, <3>1, FS_Union
    <3>3. Cardinality(Bits \ bitmap') = Cardinality((Bits \ bitmap) \cup K)
      BY <3>1
    <3> HIDE DEF K, c
    <3> QED BY <1>1, <2>1, <3>2, <3>3, FS_EmptySet, Geometry
  <2>4. free_frames' = c + HugeFrames * n
    BY DEF IInv, FreeFramesDrift
  <2> HIDE DEF c, n
  <2>5. c + HugeFrames * n = (c + HugeFrames) + HugeFrames * (n - 1)
    BY <2>1, Geometry
  <2> QED BY <2>2, <2>3, <2>4, <2>5 DEF FreeFramesDrift
<1>7. TypeOK'
  BY DEF IInv, TypeOK
<1> QED
  BY <1>4, <1>5, <1>6, <1>7 DEF IInv

-----------------------------------------------------------------------------
(* Addresses given back: inside a page only its first address passes the   *)
(* alignment tests.                                                        *)

(* Any address in a frame has the index of the frame.                       *)
LEMMA FrameAddress ==
  ASSUME NEW f \in Nat, NEW offset \in 0 .. (PageSize - 1)
  PROVE  phys_addr_to_index(f * PageSize + offset) = f
  BY Geometry, DivModOf DEF phys_addr_to_index

(* An address in a 2mb page that passes the alignment test is its first.    *)
LEMMA HugePageAddress ==
  ASSUME NEW h \in HugeStarts, NEW offset \in 0 .. (HugeFrames * PageSize - 1),
         (h * PageSize + offset) % (HugeFrames * PageSize) = 0
  PROVE  phys_addr_to_index(h * PageSize + offset) = h
<1> DEFINE n == HugeFrames * PageSize
<1>1. /\ HugeFrames \in Nat \ {0} /\ PageSize \in Nat \ {0} /\ n \in Nat \ {0}
      /\ h \in Nat /\ h % HugeFrames = 0
  BY Geometry, BitmapSizes DEF HugeStarts
<1>2. PICK k \in Nat : h = HugeFrames * k
  <2>1. h \div HugeFrames \in Nat /\ h = HugeFrames * (h \div HugeFrames) + (h % HugeFrames)
    BY <1>1, DivMod, DivNat
  <2>2. h = HugeFrames * (h \div HugeFrames)
    BY <1>1, <2>1
  <2> QED BY <2>1, <2>2
<1>3. h * PageSize + offset = k * n + offset /\ offset \in 0 .. (n - 1)
  BY <1>1, <1>2
<1>4. offset = 0
  <2> HIDE DEF n
  <2>1. (k * n + offset) % n = offset
    BY <1>1, <1>3, DivModOf
  <2>2. (k * n + offset) % n = 0
    BY <1>3 DEF n
  <2> QED BY <2>1, <2>2
<1>5. 0 \in 0 .. (PageSize - 1)
  BY <1>1
<1> QED
  BY <1>1, <1>4, <1>5, FrameAddress

-----------------------------------------------------------------------------
(* pmm_init establishes the invariant.                                      *)
LEMMA InitInv == Init => IInv
<1> SUFFICES ASSUME Init PROVE IInv
  OBVIOUS
<1>1. HugeHeld = {} /\ Held = {}
  BY DEF Init, HugeHeld, Held
<1>2. bitmap = Reserved /\ Reserved \subseteq Bits
  BY DEF Init, Reserved
<1>3. huges = {} /\ frames = {} /\ ret = 0 /\ free_frames = Cardinality(Bits \ bitmap)
  BY DEF Init
<1>4. FreeFramesDrift /\ free_frames \in Nat
  <2>1. Cardinality(huges) = 0 /\ Cardinality(Bits \ bitmap) \in Nat
    BY <1>3, FS_EmptySet, BitmapSizes, FS_Difference, FS_CardinalityType
  <2> QED BY <1>3, <2>1, Geometry DEF FreeFramesDrift
<1> QED
  BY <1>1, <1>2, <1>3, <1>4 DEF IInv, TypeOK, Exclusive, Conservation

(* Every call preserves the invariant.                                      *)
LEMMA NextInv == IInv /\ [Next]_vars => IInv'
<1> SUFFICES ASSUME IInv, [Next]_vars PROVE IInv'
  OBVIOUS
<1>1. bitmap \subseteq Bits /\ Reserved \subseteq bitmap
  BY InvFacts
<1>2. ASSUME FailToAllocate PROVE IInv'
  BY <1>2 DEF FailToAllocate, IInv, TypeOK, Exclusive, Conservation,
     FreeFramesDrift, Held, HugeHeld
<1>3. CASE pmm_alloc
  <2>1. CASE \E f \in first_fit : /\ Claim({f}) /\ frames' = frames \cup {f}
                                  /\ ret' = f /\ UNCHANGED huges
    <3>1. PICK f \in first_fit : /\ Claim({f}) /\ frames' = frames \cup {f}
                                 /\ ret' = f /\ UNCHANGED huges
      BY <2>1
    <3>2. f \in Bits \ bitmap
      BY <1>1, FirstFit, BitsUpToTotal
    <3>3. {f} \in SUBSET (Bits \ bitmap) /\ ret' \in Bits \cup {0}
      BY <3>1, <3>2
    <3> QED BY <3>1, <3>3, TakeFrames
  <2> QED BY <1>2, <1>3, <2>1 DEF pmm_alloc
<1>4. CASE pmm_alloc_2mb
  <2>1. CASE EmptyHugePages # {}
    <3>1. LET h == Min(EmptyHugePages) * ByteBits
          IN  h \in HugeStarts /\ HugeBlock(h) \subseteq Bits \ bitmap
      BY <1>1, <2>1, FirstHugePage
    <3>2. LET h == Min(EmptyHugePages) * ByteBits
          IN  /\ bitmap' = bitmap \cup HugeBlock(h) /\ huges' = huges \cup {h}
              /\ ret' = h /\ UNCHANGED <<free_frames, frames>>
      BY <1>4, <2>1 DEF pmm_alloc_2mb
    <3> QED BY <3>1, <3>2, HugePageTaken
  <2> QED BY <1>2, <1>4, <2>1 DEF pmm_alloc_2mb
<1>5. ASSUME NEW n \in RunLengths, pmm_alloc_contiguous(n) PROVE IInv'
  <2>1. CASE FreeRuns(n) # {}
    <3> DEFINE s == Min(FreeRuns(n))
    <3>1. s \in Nat /\ n \in Nat \ {0} /\ Run(s, n) \subseteq Bits \ bitmap
      BY <1>1, <2>1, FirstRun
    <3>2. /\ Claim(Run(s, n)) /\ frames' = frames \cup Run(s, n)
          /\ ret' = s /\ UNCHANGED huges
      BY <1>5, <2>1 DEF pmm_alloc_contiguous
    <3> HIDE DEF s
    <3>3. s \in Run(s, n)
      BY <3>1 DEF Run
    <3>4. Run(s, n) \in SUBSET (Bits \ bitmap) /\ ret' \in Bits \cup {0}
      BY <3>1, <3>2, <3>3
    <3> QED BY <3>2, <3>4, TakeFrames
  <2> QED BY <1>2, <1>5, <2>1 DEF pmm_alloc_contiguous
<1>6. ASSUME NEW f \in frames, NEW offset \in 0 .. (PageSize - 1),
             pmm_free(f * PageSize + offset)
      PROVE  IInv'
  <2>1. phys_addr_to_index(f * PageSize + offset) = f
    BY InvFacts, FrameAddress
  <2>2. Release({f}) /\ frames' = frames \ {f} /\ UNCHANGED <<huges, ret>>
    BY <1>6, <2>1 DEF pmm_free
  <2> QED BY <2>2, GiveFrame
<1>7. ASSUME NEW h \in huges, NEW offset \in 0 .. (HugeFrames * PageSize - 1),
             pmm_free_2mb(h * PageSize + offset)
      PROVE  IInv'
  <2>1. phys_addr_to_index(h * PageSize + offset) = h
    BY <1>7, HugePageAddress DEF IInv, TypeOK, pmm_free_2mb
  <2>2. /\ bitmap' = bitmap \ HugeBlock(h) /\ huges' = huges \ {h}
        /\ UNCHANGED <<free_frames, frames, ret>>
    BY <1>7, <2>1 DEF pmm_free_2mb
  <2> QED BY <2>2, GiveHugePage
<1>8. CASE UNCHANGED vars
  BY <1>8 DEF vars, IInv, TypeOK, Exclusive, Conservation, FreeFramesDrift,
     Held, HugeHeld
<1> QED
  BY <1>3, <1>4, <1>5, <1>6, <1>7, <1>8 DEF Next

(* The invariant of every run of the allocator.                            *)
THEOREM Invariance == Spec => []IInv
  BY InitInv, NextInv, PTL DEF Spec

(* The bitmap is never written outside its bytes and free_frames never     *)
(* wraps below zero.                                                       *)
THEOREM TypeCorrect == Spec => []TypeOK
<1>1. IInv => TypeOK
  BY DEF IInv
<1> QED BY Invariance, <1>1, PTL

(* No frame has two holders and no reserved frame has one, whatever the    *)
(* memory map and the order of calls.                                      *)
THEOREM MutualExclusion == Spec => []Exclusive
<1>1. IInv => Exclusive
  BY DEF IInv
<1> QED BY Invariance, <1>1, PTL

(* The set bits are exactly the reserved and the held frames: no leak.     *)
THEOREM NoLeak == Spec => []Conservation
<1>1. IInv => Conservation
  BY DEF IInv
<1> QED BY Invariance, <1>1, PTL

(* free_frames is off by exactly the frames of the huge pages held.        *)
THEOREM DriftIsExact == Spec => []FreeFramesDrift
<1>1. IInv => FreeFramesDrift
  BY DEF IInv
<1> QED BY Invariance, <1>1, PTL

-----------------------------------------------------------------------------
(* The bitmap implements the abstract allocator.                           *)

(* The free frames of the abstract allocator are the clear bits.            *)
LEMMA FreeIsClear ==
  ASSUME IInv
  PROVE  FA!Free = Bits \ bitmap
<1>1. FA!Free = Pool \ Held
  BY DEF FA!Free, FA!HugeBlock, Held, HugeHeld, HugeBlock
<1> QED
  BY <1>1 DEF Pool, IInv, Conservation

(* Every call is a step of the abstract allocator, or changes nothing there. *)
LEMMA StepRefines ==
  ASSUME IInv, [Next]_vars
  PROVE  [FA!Next]_(FA!vars)
<1> USE DEF FA!vars
<1>1. bitmap \subseteq Bits /\ Reserved \subseteq bitmap /\ Bits \subseteq Nat
  BY InvFacts, BitmapSizes
<1>2. \A h \in HugeStarts : FA!HugeBlock(h) = HugeBlock(h)
  BY DEF FA!HugeBlock, HugeBlock
<1>3. ASSUME NEW n \in RunLengths \cup {1}, NEW s \in Nat, n > 0,
             Run(s, n) \subseteq Bits \ bitmap,
             frames' = frames \cup Run(s, n), asked' = <<"frames", n>>, ret' = s,
             UNCHANGED huges
      PROVE  FA!Next
  <2>1. FA!FreeRun(s, n)
    BY <1>3, FreeIsClear DEF FA!FreeRun, Run
  <2>2. s \in Pool
    <3>1. n \in Nat /\ s \in Run(s, n)
      BY <1>3, Geometry DEF Run
    <3> QED BY <1>1, <1>3, <3>1 DEF Pool
  <2>3. FA!TakeRun(s, n)
    BY <1>3, <2>1 DEF FA!TakeRun, Run
  <2> QED BY <2>2, <2>3 DEF FA!Next
<1>4. CASE pmm_alloc
  <2>1. CASE first_fit = {} /\ FailToAllocate
    <3>1. \A s \in Pool : ~FA!FreeRun(s, 1)
      BY <1>1, <2>1, FirstFit, FreeIsClear DEF FA!FreeRun, Pool
    <3>2. FA!NoRun(1)
      BY <1>4, <2>1, <3>1 DEF pmm_alloc, FailToAllocate, FA!NoRun
    <3> QED BY <3>2 DEF FA!Next
  <2>2. CASE \E f \in first_fit : /\ Claim({f}) /\ frames' = frames \cup {f}
                                  /\ ret' = f /\ UNCHANGED huges
    <3>1. PICK f \in first_fit : /\ Claim({f}) /\ frames' = frames \cup {f}
                                 /\ ret' = f /\ UNCHANGED huges
      BY <2>2
    <3>2. f \in Bits \ bitmap /\ f \in Nat
      BY <1>1, FirstFit, BitsUpToTotal
    <3>3. Run(f, 1) = {f}
      BY <3>2 DEF Run
    <3>4. asked' = <<"frames", 1>>
      BY <1>4 DEF pmm_alloc
    <3> QED BY <1>3, <3>1, <3>2, <3>3, <3>4
  <2> QED BY <1>4, <2>1, <2>2 DEF pmm_alloc
<1>5. CASE pmm_alloc_2mb
  <2>1. CASE EmptyHugePages = {} /\ FailToAllocate
    <3>1. \A h \in HugeStarts : ~(FA!HugeBlock(h) \subseteq FA!Free)
      BY <1>2, <2>1, HugePageSearchComplete, FreeIsClear
    <3>2. FA!NoHuge
      BY <1>5, <2>1, <3>1 DEF pmm_alloc_2mb, FailToAllocate, FA!NoHuge
    <3> QED BY <3>2 DEF FA!Next
  <2>2. CASE EmptyHugePages # {}
    <3> DEFINE h == Min(EmptyHugePages) * ByteBits
    <3>1. h \in HugeStarts /\ HugeBlock(h) \subseteq Bits \ bitmap
      BY <1>1, <2>2, FirstHugePage
    <3>2. /\ huges' = huges \cup {h} /\ asked' = <<"huge", 1>> /\ ret' = h
          /\ UNCHANGED frames
      BY <1>5, <2>2 DEF pmm_alloc_2mb
    <3> HIDE DEF h
    <3>3. FA!TakeHuge(h)
      BY <1>2, <3>1, <3>2, FreeIsClear DEF FA!TakeHuge
    <3> QED BY <3>1, <3>3 DEF FA!Next
  <2> QED BY <1>5, <2>1, <2>2 DEF pmm_alloc_2mb
<1>6. ASSUME NEW n \in RunLengths, pmm_alloc_contiguous(n) PROVE FA!Next
  <2>1. CASE FreeRuns(n) = {} /\ FailToAllocate
    <3>1. ASSUME NEW s \in Pool, FA!FreeRun(s, n), n # 0 PROVE FALSE
      <4>1. s \in Nat /\ n \in Nat \ {0} /\ Run(s, n) \subseteq Bits \ bitmap
        BY <1>1, <3>1, FreeIsClear, Geometry DEF FA!FreeRun, Run, Pool
      <4>2. s + n - 1 \in Run(s, n)
        BY <4>1 DEF Run
      <4>3. s + n - 1 \in Pool
        BY <1>1, <4>1, <4>2 DEF Pool
      <4>4. s \in 0 .. (total_frames - n)
        BY <4>1, <4>3, PoolFact, BitmapSizes
      <4>5. s \in FreeRuns(n)
        BY <4>1, <4>4 DEF FreeRuns
      <4> QED BY <2>1, <4>5
    <3>2. FA!NoRun(n)
      BY <1>6, <2>1, <3>1 DEF pmm_alloc_contiguous, FailToAllocate, FA!NoRun
    <3> QED BY <3>2 DEF FA!Next
  <2>2. CASE FreeRuns(n) # {}
    <3> DEFINE s == Min(FreeRuns(n))
    <3>1. s \in Nat /\ n \in Nat \ {0} /\ Run(s, n) \subseteq Bits \ bitmap
      BY <1>1, <2>2, FirstRun
    <3>2. /\ frames' = frames \cup Run(s, n) /\ asked' = <<"frames", n>> /\ ret' = s
          /\ UNCHANGED huges
      BY <1>6, <2>2 DEF pmm_alloc_contiguous
    <3> HIDE DEF s
    <3> QED BY <1>3, <3>1, <3>2
  <2> QED BY <1>6, <2>1, <2>2 DEF pmm_alloc_contiguous
<1>7. ASSUME NEW f \in frames, NEW offset \in 0 .. (PageSize - 1),
             pmm_free(f * PageSize + offset)
      PROVE  FA!Next
  <2>1. FA!GiveFrame(f)
    BY <1>7, InvFacts, FrameAddress DEF pmm_free, FA!GiveFrame
  <2> QED BY <2>1 DEF FA!Next
<1>8. ASSUME NEW h \in huges, NEW offset \in 0 .. (HugeFrames * PageSize - 1),
             pmm_free_2mb(h * PageSize + offset)
      PROVE  FA!Next
  <2>1. h \in HugeStarts
    BY DEF IInv, TypeOK
  <2>2. phys_addr_to_index(h * PageSize + offset) = h
    BY <1>8, <2>1, HugePageAddress DEF pmm_free_2mb
  <2>3. FA!GiveHuge(h)
    BY <1>8, <2>2 DEF pmm_free_2mb, FA!GiveHuge
  <2> QED BY <2>3 DEF FA!Next
<1>9. CASE UNCHANGED vars
  BY <1>9 DEF vars
<1> QED
  BY <1>4, <1>5, <1>6, <1>7, <1>8, <1>9 DEF Next

(* Every behaviour of the bitmap is one of the abstract allocator: the     *)
(* first-fit searches hand out only free frames and fail only when there   *)
(* is nothing to hand out.                                                 *)
THEOREM Refinement == Spec => ImplementsFrameAllocator
<1>1. Init => FA!Init
  BY DEF Init, FA!Init
<1>2. IInv /\ [Next]_vars => [FA!Next]_(FA!vars)
  BY StepRefines
<1> QED
  BY <1>1, <1>2, Invariance, PTL DEF Spec, ImplementsFrameAllocator, FA!Spec

=============================================================================
