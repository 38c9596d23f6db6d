-------------------------------- MODULE Pmm --------------------------------
(***************************************************************************)
(* The bitmap allocator of src/pmm.c.  The bitmap is the set of frame      *)
(* numbers whose bit is 1; Bits are all the bits the bitmap has, a few     *)
(* more than there are frames when the last byte is partly used.           *)
(*                                                                         *)
(* frames and huges are history: what the callers hold.  A caller gives    *)
(* back only what it holds, but may do so with an address that is not the  *)
(* start of the page (pmm_free) or of the 2mb page (pmm_free_2mb), which   *)
(* the code must refuse.                                                   *)
(***************************************************************************)
EXTENDS Integers, FiniteSets, FiniteSetsExt, Sequences

CONSTANTS
  PageSize,    \* bytes of a frame: 4096
  ByteBits,    \* bits of a bitmap byte: 8
  HugeBytes,   \* bitmap bytes that describe a 2mb page: 64
  AddrLimit,   \* bound: no address the bootloader reports is higher
  Memmap,      \* what Limine reports: entries [base, length, type], in order
  RunLengths   \* lengths pmm_alloc_contiguous is asked for

Allocatable(e) == e.type \in {"usable", "reclaimable"}

ASSUME GeometryAssumption ==
  /\ PageSize \in Nat \ {0}
  /\ ByteBits \in Nat \ {0}
  /\ HugeBytes \in Nat \ {0}
  /\ AddrLimit \in Nat
  /\ RunLengths \subseteq Nat

(* What the Limine protocol promises of the entries pmm.c hands out.       *)
ASSUME MemmapAssumption ==
  /\ Memmap \in Seq([base : Nat, length : Nat, type : STRING])
  /\ \A i \in DOMAIN Memmap :
       /\ Memmap[i].base + Memmap[i].length <= AddrLimit
       /\ Allocatable(Memmap[i]) =>
            /\ Memmap[i].base >= PageSize
            /\ Memmap[i].base % PageSize = 0
            /\ Memmap[i].length % PageSize = 0

VARIABLES
  bitmap,       \* frames whose bit is set
  free_frames,  \* pmm.free_frames
  frames,       \* history: frames held singly or in a run
  huges,        \* history: first frames of the 2mb pages held
  asked,        \* history: what the last allocating call asked for
  ret           \* history: first frame it returned, 0 for NULL

vars == <<bitmap, free_frames, frames, huges, asked, ret>>

-----------------------------------------------------------------------------
(* pmm_init: sizes, where the bitmap goes, which bits start clear.         *)

CeilDiv(a, b) == (a + b - 1) \div b

EntryEnds == {Memmap[i].base + Memmap[i].length :
                i \in {j \in DOMAIN Memmap : Allocatable(Memmap[j])}}

get_highest_usable_addr == Max({0} \cup EntryEnds)

total_frames == CeilDiv(get_highest_usable_addr, PageSize)
bitmap_size == CeilDiv(total_frames, ByteBits)
Bits == 0 .. (bitmap_size * ByteBits - 1)

(* The loop from base to base + length, a page at a time. *)
PagesOf(base, length) ==
  (base \div PageSize) .. ((base + length - 1) \div PageSize)

bitmap_physical_addr ==
  LET fits == {i \in DOMAIN Memmap : /\ Memmap[i].type = "usable"
                                     /\ Memmap[i].length >= bitmap_size}
  IN  IF fits = {} THEN 0 ELSE Memmap[Min(fits)].base

AllocatableFrames ==
  UNION {PagesOf(Memmap[i].base, Memmap[i].length) :
           i \in {j \in DOMAIN Memmap : Allocatable(Memmap[j])}}

BitmapFrames == PagesOf(bitmap_physical_addr, bitmap_size)

(* Bits still set when pmm_init returns: never handed out afterwards. *)
Reserved == (Bits \ AllocatableFrames) \cup (BitmapFrames \cap Bits)

Init ==
  /\ bitmap = Reserved
  /\ free_frames = Cardinality(Bits \ Reserved)
  /\ frames = {}
  /\ huges = {}
  /\ asked = <<"frames", 0>>
  /\ ret = 0

-----------------------------------------------------------------------------
(* Addresses, bitmap bytes and 2mb pages.                                  *)

phys_addr_to_index(addr) == addr \div PageSize

HugeFrames == HugeBytes * ByteBits
HugeBlock(h) == h .. (h + HugeFrames - 1)
HugeStarts == {h \in Bits : h % HugeFrames = 0}

ByteFrames(b) == (b * ByteBits) .. (b * ByteBits + ByteBits - 1)
ByteFull(b) == ByteFrames(b) \subseteq bitmap
ByteEmpty(b) == ByteFrames(b) \cap bitmap = {}
LastByte == bitmap_size - 1

(* Mutant: free_frame forgets to count.                                    *)
ReleaseUncounted(S) == bitmap' = bitmap \ S /\ UNCHANGED free_frames

(* claim_frame and free_frame over the frames S: a bit that already has    *)
(* its value is left alone and not counted.                                *)
Claim(S) ==
  /\ bitmap' = bitmap \cup S
  /\ free_frames' = free_frames - Cardinality(S \ bitmap)

Release(S) ==
  /\ bitmap' = bitmap \ S
  /\ free_frames' = free_frames + Cardinality(S \cap bitmap)

FailToAllocate ==
  /\ ret' = 0
  /\ UNCHANGED <<bitmap, free_frames, frames, huges>>

-----------------------------------------------------------------------------
(* Single frames.                                                          *)

(* Mutant: gives up when the first byte is full.                           *)
first_fit_first_byte ==
  IF ByteFull(0) THEN {} ELSE {Min(ByteFrames(0) \ bitmap)}

(* Mutant: the highest frame.                                              *)
first_fit_last ==
  LET frame_index == Max((0 .. (total_frames - 1)) \ bitmap)
  IN  IF (0 .. (total_frames - 1)) \subseteq bitmap THEN {} ELSE {frame_index}

(* The frame pmm_alloc takes, if any: only the first byte that is not full *)
(* is looked at, and only its first clear bit.                             *)
first_fit ==
  LET open == {b \in 0 .. LastByte : ~ByteFull(b)}
      frame_index == Min(ByteFrames(Min(open)) \ bitmap)
  IN  IF open = {} THEN {} ELSE {frame_index} \cap 0 .. (total_frames - 1)

pmm_alloc ==
  /\ asked' = <<"frames", 1>>
  /\ \/ first_fit = {} /\ FailToAllocate
     \/ \E f \in first_fit :
          /\ Claim({f})
          /\ frames' = frames \cup {f}
          /\ ret' = f
          /\ UNCHANGED huges

(* A misaligned address is refused; the caller still holds the frame.      *)
pmm_free(addr) ==
  /\ addr % PageSize = 0
  /\ Release({phys_addr_to_index(addr)})
  /\ frames' = frames \ {phys_addr_to_index(addr)}
  /\ UNCHANGED <<huges, asked, ret>>

-----------------------------------------------------------------------------
(* 2mb pages: their bits are written without free_frames being updated.    *)

InBitmap(byte_index) == byte_index + HugeBytes <= bitmap_size

(* Mutant: the scan goes up by a byte, not by a huge page.                 *)
EmptyHugePagesAnyByte ==
  {b \in 0 .. LastByte :
     /\ InBitmap(b)
     /\ \A entry \in 0 .. (HugeBytes - 1) : ByteEmpty(b + entry)}

(* Mutant: only the first byte of the block is tested.                     *)
EmptyHugePagesFirstByte ==
  {b \in 0 .. LastByte : b % HugeBytes = 0 /\ InBitmap(b) /\ ByteEmpty(b)}

EmptyHugePages ==
  {b \in 0 .. LastByte :
     /\ b % HugeBytes = 0
     /\ InBitmap(b)
     /\ \A entry \in 0 .. (HugeBytes - 1) : ByteEmpty(b + entry)}

pmm_alloc_2mb ==
  /\ asked' = <<"huge", 1>>
  /\ \/ EmptyHugePages = {} /\ FailToAllocate
     \/ LET h == Min(EmptyHugePages) * ByteBits IN
          /\ EmptyHugePages # {}
          /\ bitmap' = bitmap \cup HugeBlock(h)
          /\ huges' = huges \cup {h}
          /\ ret' = h
          /\ UNCHANGED <<free_frames, frames>>

(* Mutant: the alignment test is dropped. *)
pmm_free_2mb_unaligned(addr) ==
  LET f == phys_addr_to_index(addr)
  IN  /\ InBitmap(f \div ByteBits)
      /\ bitmap' = bitmap \ HugeBlock(f)
      /\ huges' = huges \ {f}
      /\ UNCHANGED <<free_frames, frames, asked, ret>>

pmm_free_2mb(addr) ==
  LET f == phys_addr_to_index(addr)
  IN  /\ addr % (HugeFrames * PageSize) = 0
      /\ InBitmap(f \div ByteBits)
      /\ bitmap' = bitmap \ HugeBlock(f)
      /\ huges' = huges \ {f}
      /\ UNCHANGED <<free_frames, frames, asked, ret>>

-----------------------------------------------------------------------------
(* Contiguous runs: the lowest one; a run of 0 frames is never found.      *)

Run(s, n) == s .. (s + n - 1)
FreeRuns(n) ==
  {s \in 0 .. (total_frames - n) : n > 0 /\ Run(s, n) \cap bitmap = {}}

pmm_alloc_contiguous(num_frames) ==
  /\ asked' = <<"frames", num_frames>>
  /\ \/ FreeRuns(num_frames) = {} /\ FailToAllocate
     \/ LET run == Run(Min(FreeRuns(num_frames)), num_frames) IN
          /\ FreeRuns(num_frames) # {}
          /\ Claim(run)
          /\ frames' = frames \cup run
          /\ ret' = Min(FreeRuns(num_frames))
          /\ UNCHANGED huges

-----------------------------------------------------------------------------
(* Callers give back only what they hold, by any address inside it.        *)
Next ==
  \/ pmm_alloc
  \/ pmm_alloc_2mb
  \/ \E n \in RunLengths : pmm_alloc_contiguous(n)
  \/ \E f \in frames, offset \in 0 .. (PageSize - 1) :
       pmm_free(f * PageSize + offset)
  \/ \E h \in huges, offset \in 0 .. (HugeFrames * PageSize - 1) :
       pmm_free_2mb(h * PageSize + offset)

Spec == Init /\ [][Next]_vars
-----------------------------------------------------------------------------
(* Properties.                                                             *)

Pool == Bits \ Reserved
HugeHeld == UNION {HugeBlock(h) : h \in huges}
Held == frames \cup HugeHeld

(* Type invariant.  bitmap \subseteq Bits says that no operation ever      *)
(* writes past the bitmap_size bytes of the bitmap.                        *)
TypeOK ==
  /\ bitmap \subseteq Bits
  /\ free_frames \in Nat
  /\ frames \subseteq Bits
  /\ huges \subseteq HugeStarts
  /\ ret \in Bits \cup {0}

(* Frames, runs and 2mb pages are cut from one bitmap by three different   *)
(* searches: still no frame is held twice, and no frame that pmm_init      *)
(* reserved (unusable memory, the bitmap itself, bits past the last frame) *)
(* is ever held.                                                           *)
Exclusive ==
  /\ frames \cap HugeHeld = {}
  /\ \A g, h \in huges : g # h => HugeBlock(g) \cap HugeBlock(h) = {}
  /\ Held \subseteq Pool

(* Nothing leaks and nothing is forgotten: after any sequence of calls     *)
(* the set bits are exactly the reserved frames and those held.            *)
Conservation == bitmap = Reserved \cup Held

(* claim_frame and free_frame keep free_frames but the 2mb operations      *)
(* write the bitmap behind its back: the counter overstates the number of  *)
(* clear bits by a huge page for every huge page held, and by nothing      *)
(* else, so it is right again once they have all been given back.          *)
FreeFramesDrift ==
  free_frames = Cardinality(Bits \ bitmap) + HugeFrames * Cardinality(huges)

FA == INSTANCE FrameAllocator WITH Null <- 0

(* The bitmap implements the abstract allocator: every call hands out only *)
(* free frames of the pool, and returns NULL only when nothing that would  *)
(* satisfy it is free.                                                     *)
ImplementsFrameAllocator == FA!Spec
=============================================================================
