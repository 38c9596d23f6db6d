-------------------------------- MODULE Vmm --------------------------------
(***************************************************************************)
(* The four-level page tables and the heap of src/vmm.c, from vmm_init to  *)
(* the POLLING / EXECUTING loop of kernel.c, over the allocator of Pmm.    *)
(*                                                                         *)
(* Addresses are page numbers.  A walk takes a step per level, for it may  *)
(* call pmm_alloc at each; the CPU may cache a heap translation between    *)
(* any two steps.  The tables live in frames: entries maps the frame of    *)
(* each table to its contents.                                             *)
(***************************************************************************)
EXTENDS Pmm

CONSTANTS
  LEVELS,              \* levels of page tables: 4
  IdentityPages,       \* pages mapped one to one: 0x400000 bytes
  KernelVirt, KernelPhys,  \* what Limine reports of the kernel
  HhdmOffset,          \* hhdm_offset
  HEAP_START,          \* where the heap begins
  KERNEL_API_ADDRESS,  \* the page of the API table
  MmioPhys, MmioPages, \* registers of the I219
  RingFrames,          \* frames i219_init takes: a ring and 32 buffers
  BufferRun,           \* frames rtl8139_init takes, contiguous: 4
  Requests,            \* huge pages a payload or a workload asks for
  MaxHeap              \* bound: huge pages of heap at a time

ENTRIES == HugeFrames  \* entries of a table: 512, a table maps a huge page

ASSUME VmmAssumption ==
  /\ LEVELS \in Nat /\ LEVELS > 1
  /\ {IdentityPages, KernelVirt, KernelPhys, HhdmOffset, KERNEL_API_ADDRESS,
      MmioPhys, MmioPages, RingFrames, MaxHeap} \subseteq Nat
  /\ HEAP_START \in Nat /\ HEAP_START % HugeFrames = 0
  /\ BufferRun \in RunLengths
  /\ Requests \subseteq Nat

VARIABLES
  nic,             \* the controller pci_scan_bus finds: "i219" or "rtl8139"
  phase,           \* where kernel_main is
  calls, offset,   \* vmm_map_range calls still to do, pages done of the first
  left,            \* huge pages, or receive buffers, still to take
  phys,            \* phys_addr of vmm_alloc_huge_page
  table, level,    \* current_table and level of a walk; LEVELS: no walk
  entries, pml4,   \* the tables, vmm.pml4_phys
  next_virt_addr,  \* end of the heap
  addr,            \* loop variable of vmm_reset_heap
  rx,              \* history: frames the NIC writes to
  tlb              \* translations of heap pages the CPU has cached, 0 if none

pmmVars == <<bitmap, free_frames, frames, huges, asked, ret>>
mapVars == <<calls, offset>>
walkVars == <<table, level>>
heapVars == <<left, phys, next_virt_addr, addr>>
vmmVars == <<pmmVars, nic, phase, mapVars, walkVars, heapVars, entries, pml4, rx, tlb>>

-----------------------------------------------------------------------------
(* Page tables.                                                            *)

Absent == [present |-> FALSE, huge |-> FALSE, frame |-> 0]
ToTable(f) == [present |-> TRUE, huge |-> FALSE, frame |-> f]
ToHugePage(f) == [present |-> TRUE, huge |-> TRUE, frame |-> f]
EmptyTable == [i \in 0 .. (ENTRIES - 1) |-> Absent]

(* The tables t and a new one in frame f, zeroed.                          *)
WithNewTable(f, t) == [s \in {f} \cup DOMAIN t |-> IF s = f THEN EmptyTable ELSE t[s]]

(* Pages that an entry of a table at level l stands for: the shifts by 9.  *)
Span[l \in 0 .. LEVELS] == IF l = 0 THEN 1 ELSE ENTRIES * Span[l - 1]
Index(v, l) == (v \div Span[l]) % ENTRIES

(* The entry at which the CPU's walk for page v ends.                      *)
WalkOf(v) ==
  LET at[l \in 0 .. (LEVELS - 1)] ==
        IF l = LEVELS - 1 THEN entries[pml4][Index(v, l)]
        ELSE IF ~at[l + 1].present \/ at[l + 1].huge THEN at[l + 1]
        ELSE IF at[l + 1].frame \notin DOMAIN entries THEN Absent
        ELSE entries[at[l + 1].frame][Index(v, l)]
  IN  at[0]

Mapped(v) == WalkOf(v).present
Translate(v) ==
  IF WalkOf(v).huge THEN WalkOf(v).frame + (v % HugeFrames) ELSE WalkOf(v).frame

-----------------------------------------------------------------------------
(* The calls of vmm_map_range that boot makes.                             *)

MapRange(virt, f, pages) == [virt |-> virt, frame |-> f, pages |-> pages]

kernel_size ==
  LET images == {i \in DOMAIN Memmap : Memmap[i].type = "kernel"}
  IN  IF images = {} THEN 0 ELSE Memmap[Max(images)].length

(* Mutant of DirectMapped: bootloader memory is not mapped. *)
DirectMappedUsable(e) == e.type \in {"usable", "framebuffer"}

DirectMapped(e) == Allocatable(e) \/ e.type = "framebuffer"
DirectRange(e) ==
  MapRange(HhdmOffset + (e.base \div PageSize), e.base \div PageSize,
           IF DirectMapped(e) THEN CeilDiv(e.length, PageSize) ELSE 0)

InitRanges ==
  <<MapRange(0, 0, IdentityPages),
    MapRange(KernelVirt, KernelPhys, CeilDiv(kernel_size, PageSize))>>
    \o [i \in DOMAIN Memmap |-> DirectRange(Memmap[i])]
MmioRanges == <<MapRange(HhdmOffset + MmioPhys, MmioPhys, MmioPages)>>
ApiRanges == <<MapRange(KERNEL_API_ADDRESS, KERNEL_API_ADDRESS, 1)>>

BootRanges ==
  UNION {{ranges[i] : i \in DOMAIN ranges} : ranges \in {InitRanges, MmioRanges, ApiRanges}}
HeapVirts == {HEAP_START + i * HugeFrames : i \in 0 .. (MaxHeap - 1)}

(* What tells a 2mb page from the others: the indices of a walk but the    *)
(* last.                                                                   *)
Slot(v) == [l \in 1 .. (LEVELS - 1) |-> Index(v, l)]

(* The heap has slots of its own: it lies far from what boot maps, and is  *)
(* smaller than the address space.                                         *)
ASSUME HeapApartAssumption ==
  /\ \A v, w \in HeapVirts : v # w => Slot(v) # Slot(w)
  /\ \A range \in BootRanges, v \in HeapVirts :
       \A page \in 0 .. (range.pages - 1) : Slot(range.virt + page) # Slot(v)

(* A page that boot maps more than once is mapped to the same frame.       *)
ASSUME RangesAgreeAssumption ==
  \A range, other \in BootRanges :
    \A page \in 0 .. (range.pages - 1), twin \in 0 .. (other.pages - 1) :
      (\A l \in 0 .. (LEVELS - 1) : Index(range.virt + page, l) = Index(other.virt + twin, l))
        => range.frame + page = other.frame + twin

VmmInit ==
  /\ Init
  /\ nic \in {"i219", "rtl8139"}
  /\ phase = "prep"
  /\ calls = <<>> /\ offset = 0 /\ left = 0 /\ phys = 0
  /\ table = 0 /\ level = LEVELS
  /\ entries = <<>> /\ pml4 = 0
  /\ next_virt_addr = HEAP_START /\ addr = HEAP_START
  /\ rx = {}
  /\ tlb = [v \in HeapVirts |-> 0]

vmm_prep_pml4 ==
  /\ phase = "prep"
  /\ pmm_alloc
  /\ pml4' = ret'
  /\ entries' = WithNewTable(ret', entries)
  /\ phase' = "vmm_init" /\ calls' = InitRanges
  /\ UNCHANGED <<nic, offset, walkVars, heapVars, rx, tlb>>

-----------------------------------------------------------------------------
(* vmm_map_range, vmm_map_virt_to_phys and its huge-page twin.             *)

InHeapCall == phase \in {"payload", "workload"}
Bottom == IF InHeapCall THEN 1 ELSE 0
Virt == IF InHeapCall THEN next_virt_addr ELSE Head(calls).virt + offset

BeginMapping ==
  /\ level = LEVELS /\ calls # <<>> /\ offset < Head(calls).pages
  /\ table' = pml4 /\ level' = LEVELS - 1
  /\ UNCHANGED <<pmmVars, nic, phase, mapVars, heapVars, entries, pml4, rx, tlb>>

RangeDone ==
  /\ level = LEVELS /\ calls # <<>> /\ offset >= Head(calls).pages
  /\ calls' = Tail(calls) /\ offset' = 0
  /\ UNCHANGED <<pmmVars, nic, phase, walkVars, heapVars, entries, pml4, rx, tlb>>

(* Mutant of Walk: a table is made whether or not one is present. *)
WalkAnew ==
  /\ level \in Bottom + 1 .. LEVELS - 1
  /\ level' = level - 1
  /\ pmm_alloc
  /\ entries' = WithNewTable(ret',
                 [entries EXCEPT ![table][Index(Virt, level)] = ToTable(ret')])
  /\ table' = ret'
  /\ UNCHANGED <<nic, phase, mapVars, heapVars, pml4, rx, tlb>>

(* One level down; pmm_alloc's answer is not tested, nor is VMM_HUGE. *)
Walk ==
  /\ level \in Bottom + 1 .. LEVELS - 1
  /\ level' = level - 1
  /\ LET entry == entries[table][Index(Virt, level)] IN
       \/ /\ entry.present
          /\ table' = entry.frame
          /\ UNCHANGED <<pmmVars, entries>>
       \/ /\ ~entry.present
          /\ pmm_alloc
          /\ entries' = WithNewTable(ret',
                         [entries EXCEPT ![table][Index(Virt, level)] = ToTable(ret')])
          /\ table' = ret'
  /\ UNCHANGED <<nic, phase, mapVars, heapVars, pml4, rx, tlb>>

EnterPage ==
  /\ level = 0 /\ ~InHeapCall
  /\ entries' = [entries EXCEPT ![table][Index(Virt, 0)] = ToTable(Head(calls).frame + offset)]
  /\ offset' = offset + 1
  /\ level' = LEVELS
  /\ UNCHANGED <<pmmVars, nic, phase, calls, table, heapVars, pml4, rx, tlb>>

-----------------------------------------------------------------------------
(* The rest of boot: the NIC takes its buffers, the API page is mapped.    *)

Booted(from) == phase = from /\ level = LEVELS /\ calls = <<>>

InitDone ==
  /\ Booted("vmm_init")
  /\ phase' = IF nic = "i219" THEN "mmio" ELSE "buffers"
  /\ calls' = IF nic = "i219" THEN MmioRanges ELSE <<>>
  /\ left' = IF nic = "i219" THEN RingFrames ELSE 1
  /\ UNCHANGED <<pmmVars, nic, offset, walkVars, phys, next_virt_addr, addr, entries, pml4, rx, tlb>>

MmioDone ==
  /\ Booted("mmio")
  /\ phase' = "buffers"
  /\ UNCHANGED <<pmmVars, nic, mapVars, walkVars, heapVars, entries, pml4, rx, tlb>>

TakeBuffers ==
  /\ phase = "buffers" /\ left > 0
  /\ left' = left - 1
  /\ \/ nic = "i219" /\ pmm_alloc /\ rx' = rx \cup {ret'}
     \/ nic = "rtl8139" /\ pmm_alloc_contiguous(BufferRun) /\ rx' = rx \cup Run(ret', BufferRun)
  /\ UNCHANGED <<nic, phase, mapVars, walkVars, phys, next_virt_addr, addr, entries, pml4, tlb>>

MapApi ==
  /\ phase = "buffers" /\ left = 0
  /\ phase' = "api" /\ calls' = ApiRanges
  /\ UNCHANGED <<pmmVars, nic, offset, walkVars, heapVars, entries, pml4, rx, tlb>>

ApiDone ==
  /\ Booted("api")
  /\ phase' = "polling"
  /\ UNCHANGED <<pmmVars, nic, mapVars, walkVars, heapVars, entries, pml4, rx, tlb>>

-----------------------------------------------------------------------------
(* The heap.  POLLING allocates the payload, EXECUTING runs it; it may     *)
(* allocate more, and when it returns the whole heap is given back.        *)

vmm_alloc_huge_page(n) ==
  /\ left' = n
  /\ next_virt_addr' = CeilDiv(next_virt_addr, HugeFrames) * HugeFrames
  /\ next_virt_addr' + n * HugeFrames <= HEAP_START + MaxHeap * HugeFrames
  /\ UNCHANGED <<pmmVars, nic, mapVars, walkVars, phys, addr, entries, pml4, rx, tlb>>

(* A payload of no pages is jumped to all the same; Receive has that.      *)
AllocPayload ==
  /\ phase = "polling" /\ phase' = "payload"
  /\ \E n \in Requests \ {0} : vmm_alloc_huge_page(n)

WorkloadAllocates ==
  /\ phase = "executing" /\ phase' = "workload"
  /\ \E n \in Requests : vmm_alloc_huge_page(n)

TakeHugePage ==
  /\ InHeapCall /\ level = LEVELS /\ left > 0
  /\ pmm_alloc_2mb
  /\ phys' = ret'
  /\ table' = pml4 /\ level' = LEVELS - 1
  /\ UNCHANGED <<nic, phase, mapVars, left, next_virt_addr, addr, entries, pml4, rx, tlb>>

(* memset of a huge page zeroes what lives in its frames, be it page       *)
(* tables or the bitmap.                                                   *)
BitsStoredIn(S) ==
  {b \in Bits : (bitmap_physical_addr + b \div ByteBits) \div PageSize \in S}

(* Mutant of EnterHugePage: the heap grows by 4kb, as in vmm_alloc. *)
EnterHugePageSmall ==
  /\ level = 1 /\ InHeapCall
  /\ entries' = [entries EXCEPT ![table][Index(Virt, 1)] = ToHugePage(phys)]
  /\ tlb' = [tlb EXCEPT ![next_virt_addr] = 0]
  /\ next_virt_addr' = next_virt_addr + 1
  /\ left' = left - 1
  /\ level' = LEVELS
  /\ UNCHANGED <<pmmVars, nic, phase, mapVars, table, phys, addr, pml4, rx>>

EnterHugePage ==
  /\ level = 1 /\ InHeapCall
  /\ LET e == [entries EXCEPT ![table][Index(Virt, 1)] = ToHugePage(phys)]
     IN  entries' = [t \in DOMAIN e |-> IF t \in HugeBlock(phys) THEN EmptyTable ELSE e[t]]
  /\ bitmap' = bitmap \ BitsStoredIn(HugeBlock(phys))
  /\ tlb' = [tlb EXCEPT ![next_virt_addr] = 0]
  /\ next_virt_addr' = next_virt_addr + HugeFrames
  /\ left' = left - 1
  /\ level' = LEVELS
  /\ UNCHANGED <<free_frames, frames, huges, asked, ret, nic, phase, mapVars, table, phys, addr,
                 pml4, rx>>

AllocReturns ==
  /\ InHeapCall /\ level = LEVELS /\ left = 0
  /\ phase' = "executing"
  /\ UNCHANGED <<pmmVars, nic, mapVars, walkVars, heapVars, entries, pml4, rx, tlb>>

WorkloadReturns ==
  /\ phase = "executing" /\ phase' = "reset"
  /\ addr' = HEAP_START
  /\ UNCHANGED <<pmmVars, nic, mapVars, walkVars, left, phys, next_virt_addr, entries, pml4,
                 rx, tlb>>

(* The page directory of addr, found without testing VMM_PRESENT. *)
pd == LET down[l \in 1 .. LEVELS - 1] ==
            IF l = LEVELS - 1 THEN pml4 ELSE entries[down[l + 1]][Index(addr, l + 1)].frame
      IN  down[1]

(* pmm_free_2mb does nothing when it refuses the address. *)
FreeHugePage(f) ==
  IF f % HugeFrames = 0 /\ InBitmap(f \div ByteBits)
  THEN pmm_free_2mb(f * PageSize)
  ELSE UNCHANGED pmmVars

(* Mutant of ResetPage: the page directory entry is left in place. *)
ResetPageKept ==
  /\ phase = "reset" /\ addr < next_virt_addr
  /\ FreeHugePage(entries[pd][Index(addr, 1)].frame)
  /\ tlb' = [tlb EXCEPT ![addr] = 0]
  /\ addr' = addr + HugeFrames
  /\ UNCHANGED <<nic, phase, mapVars, walkVars, left, phys, next_virt_addr, entries, pml4, rx>>

(* Mutant of ResetPage: no invlpg. *)
ResetPageCached ==
  /\ phase = "reset" /\ addr < next_virt_addr
  /\ FreeHugePage(entries[pd][Index(addr, 1)].frame)
  /\ entries' = [entries EXCEPT ![pd][Index(addr, 1)] = Absent]
  /\ addr' = addr + HugeFrames
  /\ UNCHANGED <<tlb, nic, phase, mapVars, walkVars, left, phys, next_virt_addr, pml4, rx>>

ResetPage ==
  /\ phase = "reset" /\ addr < next_virt_addr
  /\ FreeHugePage(entries[pd][Index(addr, 1)].frame)
  /\ entries' = [entries EXCEPT ![pd][Index(addr, 1)] = Absent]
  /\ tlb' = [tlb EXCEPT ![addr] = 0]
  /\ addr' = addr + HugeFrames
  /\ UNCHANGED <<nic, phase, mapVars, walkVars, left, phys, next_virt_addr, pml4, rx>>

(* Mutant of ResetDone: the heap does not start over. *)
ResetDoneGrown ==
  /\ phase = "reset" /\ addr >= next_virt_addr
  /\ phase' = "polling"
  /\ UNCHANGED <<pmmVars, nic, mapVars, walkVars, heapVars, entries, pml4, rx, tlb>>

ResetDone ==
  /\ phase = "reset" /\ addr >= next_virt_addr
  /\ next_virt_addr' = HEAP_START
  /\ phase' = "polling"
  /\ UNCHANGED <<pmmVars, nic, mapVars, walkVars, left, phys, addr, entries, pml4, rx, tlb>>

-----------------------------------------------------------------------------
(* The CPU caches any translation it finds, when it likes.                 *)
CpuCaches ==
  /\ phase \notin {"prep", "vmm_init"}
  /\ \E v \in DOMAIN tlb : Mapped(v) /\ tlb' = [tlb EXCEPT ![v] = Translate(v)]
  /\ UNCHANGED <<pmmVars, nic, phase, mapVars, walkVars, heapVars, entries, pml4, rx>>

Boot ==
  \/ vmm_prep_pml4 \/ BeginMapping \/ RangeDone \/ EnterPage
  \/ InitDone \/ MmioDone \/ TakeBuffers \/ MapApi \/ ApiDone

Heap ==
  \/ AllocPayload \/ WorkloadAllocates \/ TakeHugePage \/ EnterHugePage \/ AllocReturns
  \/ WorkloadReturns \/ ResetPage \/ ResetDone

VmmNext == Boot \/ Walk \/ Heap \/ CpuCaches

VmmSpec == VmmInit /\ [][VmmNext]_vmmVars
-----------------------------------------------------------------------------
(* Properties.                                                             *)

HeapPages == {v \in DOMAIN tlb : v < next_virt_addr}
AtRest == phase \in {"polling", "executing"}
Running == AtRest \/ InHeapCall \/ phase = "reset"

(* Type invariant: the tables are tables of ENTRIES entries in frames of   *)
(* the machine, and the heap ends at a huge page.                          *)
VmmTypeOK ==
  /\ \A t \in DOMAIN entries : DOMAIN entries[t] = 0 .. (ENTRIES - 1)
  /\ DOMAIN entries \subseteq Bits
  /\ level \in 0 .. LEVELS
  /\ phase # "prep" => pml4 \in DOMAIN entries
  /\ next_virt_addr \in HEAP_START .. (HEAP_START + MaxHeap * HugeFrames)
  /\ next_virt_addr % HugeFrames = 0

(* vmm.c and the NIC drivers use the frame allocator as it must be used:   *)
(* they give back only what they hold, and write neither the bitmap nor    *)
(* anything else they do not own, so all that Pmm promises is theirs.      *)
PmmProtocol == Spec

(* Between calls the heap is backed, page for page, by the huge pages held *)
(* and by no two pages the same; nothing is mapped beyond its end.  When   *)
(* POLLING, its end is its start: a workload leaves nothing behind.        *)
HeapBacked ==
  AtRest =>
    /\ \A v \in HeapPages : WalkOf(v).huge
    /\ {Translate(v) : v \in HeapPages} = huges
    /\ Cardinality(huges) = Cardinality(HeapPages)
    /\ \A v \in DOMAIN tlb \ HeapPages : ~Mapped(v)

(* The tables at a level, and the entries that point to a table.           *)
TablesAt ==
  LET at[l \in 0 .. (LEVELS - 1)] ==
        IF l = LEVELS - 1 THEN {pml4}
        ELSE {e.frame : e \in {x \in UNION {{entries[t][i] : i \in 0 .. (ENTRIES - 1)} :
                                             t \in at[l + 1]} : x.present /\ ~x.huge}}
  IN  at
Links ==
  UNION {{link \in TablesAt[l] \X (0 .. (ENTRIES - 1)) :
            LET e == entries[link[1]][link[2]] IN e.present /\ ~e.huge} : l \in 1 .. (LEVELS - 1)}

(* The page tables form a tree: none is reached twice, none is lost and    *)
(* none lies in a frame that was taken for something else.  What is taken  *)
(* singly and is no table is a receive buffer.                             *)
TablesAreATree ==
  phase # "prep" =>
    /\ DOMAIN entries = UNION {TablesAt[l] : l \in 0 .. (LEVELS - 1)}
    /\ Cardinality(DOMAIN entries) = Cardinality(Links) + 1
    /\ frames = DOMAIN entries \cup rx /\ DOMAIN entries \cap rx = {}

(* Once booted, what the kernel runs on stays mapped: its image, the low   *)
(* memory and, at hhdm_offset, every frame pmm.c can ever hand out, which  *)
(* is how new tables are written.                                          *)
DirectMapComplete ==
  Running =>
    /\ \A f \in Pool : Mapped(HhdmOffset + f) /\ Translate(HhdmOffset + f) = f
    /\ \A f \in BitmapFrames : Translate(HhdmOffset + f) = f
    /\ \A n \in 0 .. (IdentityPages - 1) : Translate(n) = n
    /\ \A n \in 0 .. (CeilDiv(kernel_size, PageSize) - 1) :
         Translate(KernelVirt + n) = KernelPhys + n

(* Limine's answers and the page tables in use until CR3 is loaded lie in  *)
(* reclaimable memory, which pmm_init puts in the pool at once: none of it *)
(* is handed out before vmm_init has read and replaced them.  First fit    *)
(* and enough usable memory below it are what this rests on.               *)
Reclaimable ==
  UNION {PagesOf(Memmap[i].base, Memmap[i].length) :
           i \in {j \in DOMAIN Memmap : Memmap[j].type = "reclaimable"}}
BootloaderIntact == phase \in {"prep", "vmm_init"} => Held \cap Reclaimable = {}

(* The CPU never holds a translation the tables no longer have: a frame    *)
(* given back cannot be written through the heap of the last workload.     *)
TlbCoherent ==
  \A v \in DOMAIN tlb : tlb[v] # 0 => Mapped(v) /\ tlb[v] = Translate(v)

(* The table of functions handed to workloads is nobody else's.            *)
ApiPagePrivate == Running => KERNEL_API_ADDRESS \notin Held
=============================================================================
