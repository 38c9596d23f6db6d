# Verification of the math unikernel

TLA+ models of the kernel in `src/src`, checked by TLC, with proofs checked by
TLAPS. The kernel is one CPU running `kernel_main`, the interrupt handler of one
network card over it, and a host that streams workloads to it.

## 1. The system

| Component | State it keeps | Operations | What makes it correct |
|---|---|---|---|
| `pmm.c` frame allocator | bitmap, its size, `total_frames`, `free_frames` | `pmm_init`, `pmm_alloc`, `pmm_free`, `pmm_alloc_2mb`, `pmm_free_2mb`, `pmm_alloc_contiguous` | no frame is held twice, nothing reserved is handed out, nothing leaks, first fit answers NULL only if there is none |
| `vmm.c` page tables and heap | the tables, `vmm`, `next_virt_addr`; the TLB beside them | `vmm_init`, `vmm_map_range`, the two walks, `vmm_alloc_huge_page`, `vmm_reset_heap`, `vmm_alloc` (unused) | tables form a tree in frames of their own; the heap is backed page for page and given back whole; no stale translation |
| `kernel.c` main loop | state POLLING / EXECUTING / EXTRACTING, the API page | boot sequence, the loop | each workload streamed is run once, unchanged; boot steps come in an order that works |
| `loader.c` | rolling window, size so far | `unlock`, `poll_payload_size`, `poll_payload` | finds a valid header, waits for the whole payload |
| `network.c` | `hdr_buf` with `hdr_len`, `hdr_read`, `hdr_done`, `rx_ready`; `rx_dest`, `rx_expected`, `rx_received` | `network_receive_frame`, `read_ethernet`, `reset_header`, `network_set_dest` | frames land in the header buffer or, in order, in the heap, and nowhere else |
| `i219.c` | descriptor ring, `rx_tail`; the NIC's RDH, RDT, ICR | `i219_init`, `i219_interrupt_handler`, `i219_poll_rx` | driver and NIC agree on the next slot; the NIC always has one (which depends on the NIC, see *What the passing runs assume*) |
| `rtl8139.c` | 8 KB ring, `rx_read_ptr` | init, poll, handler | the read pointer stays on packet boundaries |
| `pci.c` | configuration space | scan, wake, enable | the right driver is started |
| `idt.c`, `isr.S`, `pic.c` | gates, handler table, masks | remap, dispatch, unmask, EOI | no IRQ is taken for an exception; each is handled and ended on both controllers |
| `lib.c` | `tsc_freq_hz` | calibration, conversions, `hcf` | calibration ends, and is exact also when the PIT passes 0 |
| `mathlib.c` | none but its callers' arrays | dot product, GEMM, SpMV, generators | index ranges are those of the mathematical definition |
| `display.c` | cursor | printing, clearing | glyphs do not cover each other; a race with the handler heals |
| `io.c` | UART | `serial_init` | output only: `write_serial` is commented out, although `src/README.md:173` promises a serial console |
| `gdt.c`, `boot.S`, `simd.S`, `linker.ld` | CPU tables and control registers | run once | straight-line but for the test in `enable_simd` |
| host (`send.py`, another repository) | its script | streams header and chunks (`src/README.md:273-276`) | assumed, see *Pace* |

How they interact. `kernel_main` calls down: `kernel -> loader -> network -> (nic_poll)
-> i219 -> network`, and `kernel -> vmm -> pmm`. The interrupt handler calls
`i219 -> network` and shares with `kernel_main`, without any lock: the header
buffer and its indices, the destination triple, `rx_tail` and the descriptors (or
`rx_read_ptr` and the byte ring), and the cursor of the display.
Workloads call `vmm_alloc_huge_page` through the API page at 0x10000000. The NIC
writes descriptors and buffers by DMA at any time. No reply ever goes to the host.

Hard behaviours: the handler between any two loads or stores of `kernel_main`;
`i219_poll_rx` nested in itself; `hlt` after a test; frames early, late, foreign or
lost; a ring that fills; three searches of one bitmap; page tables that compete
with what they map for memory; running out of memory; stale TLB entries; interrupts that
come as soon as `timer_calibrate` turns them on, in the middle of boot. The full
list, each at its line, is under `hazards` in `PROJECT.json`.

## 2. Modules

| Module | Models | Refines / is refined by |
|---|---|---|
| `FrameAllocator` | what an allocator promises: disjoint frames, runs and 2mb pages of a pool, NULL only when there is none | refined by `Pmm` |
| `Pmm` | `pmm.c`, one action per function | `ImplementsFrameAllocator` |
| `NatFacts`, `Pmm_proof` | lemmas on numbers, levels and sums for all proofs; theorems about `Pmm` | `Refinement` |
| `WorkloadService` | what the kernel promises a host: workloads run in order, once, and each at last | refined by `Receive` |
| `Receive` | I219 ring, interrupt, `network.c`, `loader.c`, the loop of `kernel.c` | `ImplementsWorkloadService` |
| `Receive_proof` | theorems about `Receive`: with any host, then with a host that waits | `ServiceImplemented` |
| `Vmm` | `vmm.c`, the allocations of boot, the heap through many workloads; extends `Pmm` and calls its actions | `PmmProtocol` |
| `Vmm_proof` | theorems about `Vmm`; extends `Pmm_proof` | `UsesPmmWell` |
| `MathLib` | `mathlib.c`, called by a workload in any order | |
| `MathLib_proof` | theorems about `MathLib` | |
| `Interrupts` | `isr.S`, `idt.c`, `pic.c` over two 8259 controllers | extended by `Pci`, `Timer` |
| `Pci` | `pci.c`, the start of both drivers, the NIC as far as its interrupt goes | extended by `Boot` |
| `Timer` | `timer_calibrate` of `lib.c` | extended by `Boot` |
| `Boot` | `kernel_main` from the handshake to its loop, composing the three | |
| `Boot_proof` | theorems about `Boot` and its parts | |
| `RxQueue` | what a receive ring promises: each frame once, in order, at last | refined by `Rtl8139` |
| `Rtl8139` | ring, poll function and handler of `rtl8139.c` | `ImplementsRxQueue` |
| `Rtl8139_proof` | theorems about `Rtl8139` | `QueueImplemented` |
| `Display` | `display.c` in two contexts | |
| `Display_proof` | theorems about `Display` | |
| `MCPmm`, `MCReceive`, `MCVmm`, `MCMathLib`, `MCBoot`, `MCRtl8139`, `MCDisplay` | small instances for TLC | |

An operator called `X...` that is introduced as a *mutant of X* is a wrong version of
X; it is part of no specification and serves to show that a property can fail.

### Pmm

`bitmap` is the set of frame numbers whose bit is 1. Every function is one action:
`pmm.c` is called from `kernel_main` only, the handler never
allocates. `pmm_alloc` is `first_fit` (first byte that is not full, first clear bit in it,
refused if it is past `total_frames`), `pmm_alloc_2mb` takes the first aligned block of
`HugeBytes` zero bytes, `pmm_alloc_contiguous` the lowest run of clear bits; the loop's
jump over full bytes changes nothing in the result. `frames`, `huges`, `asked`,
`ret` are history: who holds what, and the last call and its answer. Callers give back what
they hold, by any address in it, aligned or not; the code refuses the unaligned ones.

### Receive

`pc` says where `kernel_main` is, `irq` whether the handler runs. The handler's frames
are single steps, for nothing interrupts it; `kernel_main` takes a step per load or
store of a shared variable: `reset_header` four, `network_set_dest` three, a byte of
`read_ethernet` three (`Read`, `Take`, `Mark`; the last header byte is marked by two
stores), and `i219_poll_rx`, when called from `read_ethernet`, one per test, copied byte,
published variable and cleared status. The advance is two, the store of `rx_tail` and the
write of RDT, in either order: only the latter is volatile and a compiler may move it
first. `hlt` is a step after the test before it. Other stores come in the order of the
source. Payload bytes copied to the heap are one step per frame: only the handler
copies them, since `kernel_main` never polls while `rx_dest` is in use.

The NIC puts a frame at RDH if it owns the descriptor (`credits`), else the frame is
lost. A write of RDT hands over what is between RDH and RDT; whether equality means all or
none is not decided in the repository and is the constant `EqualMeansAll`: none on Intel's NICs,
by their manuals. Frames are records; those with the EtherType
of the kernel have `kind = "work"`, others and those with receive errors are ignored
alike. Frames of fewer than 16 payload bytes are left out: Ethernet pads to 46. The host is
at frame `sent` of workload number `workload`, whose header and chunks are `Stream`; `Weight`
is what a byte of the announced size counts for.

### Vmm

Addresses are page numbers. `entries` maps the frame of each table to its contents; a
walk (`BeginMapping`/`TakeHugePage`, `Walk`, `EnterPage`/`EnterHugePage`) takes a step
per level because each level may call `pmm_alloc`. Boot is the sequence of
`vmm_map_range` calls of `vmm_init`, the NIC driver's allocations (either driver), the API
page. Zeroing a huge page empties the page tables and clears the bitmap bits that lie in
it (`BitsStoredIn`). Between any two steps the CPU may cache a translation
(`CpuCaches`); `invlpg` drops it. A payload of no pages is left to `Receive`.

Two assumptions say how the address space is laid out. `HeapApartAssumption`: the heap, at
0xffff900000000000, shares no page directory entry with what boot maps, nor any two of its pages
one. `RangesAgreeAssumption`: a page boot maps twice goes to the same frame both times. The ranges
of the code do: the memory map's and the NIC's registers are all mapped at `hhdm_offset` plus their
address, the first 4 MB and the API page one to one, and the kernel alone at its own address. TLC
evaluates both on the instance.

### MathLib

A float is an integer in units that make the init helpers' values whole; rounding is left
out. `matrix_multiply` is a step per tile (`Tile`), `generate_banded_matrix` and `spmv_csr` a
step per row (`BandRow`, `SpmvRow`), the others one step each. A call uses a part of its
arrays; the rest keeps what earlier calls left. The aligned load of `spmv_csr` at an
index that is no multiple of 8 either does not fault (a compiler that folds it into
the `fmadd`) or does (`SpmvFaults`).

### Boot, with Interrupts, Pci and Timer

`pc` is the place of `kernel_main`, and each call of the boot sequence is an action there, but
the scan takes a step per function and per capability, the NIC drivers one per phase
(reset, start, wiring), and the calibration one per read of the counter. `frame` is the
interrupt being dispatched; while it is not `Idle`, `pc` stands still. `interrupts` is the
flag of the CPU: Limine enters the kernel with it off and with all lines masked, and
`timer_calibrate` turns it on. `TakeInterrupt` picks the pending line of highest rank on the
cascaded controllers, puts it in service, and goes through its gate; no gate is the end
`"reset"`. `TakeSpurious` is a line that drops before it is acknowledged: vector 7 of either
controller, without a service bit of its own. The dispatcher calls the handler
of the line or panics, and `pic_send_eoi` is non-specific. Lines are level-triggered: a NIC holds
its line until its handler reads ICR or clears ISR. A machine is chosen in `Init`: which of
Limine's answers are given, the CPU's features, and the functions of the bus. A NULL answer
that is read is undefined behaviour, the end `"undefined"`. The counter runs a number of
ticks between two reads that is only bounded by `MaxGap`, and TSC cycles are counted in ticks.
What `pmm_init` and `vmm_init` do is in `Pmm` and `Vmm`.

### Rtl8139

The ring is a header per offset that starts a packet and `Junk` elsewhere; a read of `Junk` may
give any header. The NIC writes packets past the end of the ring rather than split them, as the
filter word of `rtl8139_init` asks, and starts over behind them at the rounded length modulo
8192. `rtl8139_poll` is one action per load, delivery or store of something shared, with
the context (`main`, `irq`) as its parameter. CAPR is written as a 16-bit number, 16 less than the
pointer. What `network_receive_frame` does with a frame is in `Receive`.

### Display

`fb_putchar` in `kernel_main` takes a step per store of the cursor; a value that the
compiler may keep in a register or load again is chosen from the two. The handler starts
between any two steps and prints a whole message, a character at a time, while `kernel_main` stands
still; its messages hold no tab. A glyph is the corner it is drawn at.

## 3. Runs

Passing:

- **pmm** (33 196 states). A page of 4 bytes, 2 bits to a byte, 2 bytes to a huge page. 13
  frames give a bitmap of 7 bytes: the last bit is no frame, the bitmap straddles two
  frames, the last aligned block sticks out, the first usable entry is too small for
  the bitmap. `Exclusive`: nothing held twice, nothing reserved held. `Conservation`: the
  set bits are the reserved and the held. `FreeFramesDrift`: `free_frames` is off by
  exactly what the 2mb calls hold. `ImplementsFrameAllocator`: every answer, NULL
  included, is one the abstract allocator allows.
- **any_order** (2.1 million states). The host sends at any time, and one foreign frame,
  frame without the magic or header of no bytes may come anywhere. `HeapSafe`: no frame
  is written outside the mapped huge pages. `LaunchIsComplete`: what is jumped to has
  been filled to its last byte. `RunningIsFrozen`: a running workload is not overwritten.
- **paced** (3 242 states, with fairness). The host sends when the kernel is asleep in
  the loop that will consume the frame; foreign frames come likewise. `RingInStep`: an
  idle driver's `rx_tail` is the NIC's RDH and no slot is unread.
  `RunsWhatWasSent`. `ImplementsWorkloadService`: safety and liveness of the service.
- **vmm** (1 536 states). Tables of 8 entries, so that a huge page has 8 frames; 72 frames;
  up to 3 huge pages of heap out of the 4 that boot leaves, of which a table
  of the heap takes one; allocations of 0, 1 or 2 by
  payload and workload, for ever. `HeapBacked`, `TablesAreATree`, `DirectMapComplete`,
  `TlbCoherent`; `BootloaderIntact`: until `vmm_init` has replaced Limine's page tables and read
  its answers, nothing in bootloader-reclaimable memory is handed out, which rests on first
  fit and on enough memory below it; and `PmmProtocol`: seen through `pmm.c`'s variables every step is one that
  `Pmm!Spec` allows, so its properties hold of the whole.
- **math** (36 104 states). Registers of 2 floats and tiles of 4 (8, 64); up to four calls.
  `ProductSoFar`: after any number of tiles each element of `out` is the sum of exactly the
  products those tiles cover, so that in the end it is the product of `a` and `b`.
  `BandedProduct`: what the generator writes and `spmv_csr` reads is the banded matrix, and `y` becomes
  its product with `x`, whatever earlier calls left in `y`.
  `DotIsExact`: without a tail loop the result is right as long as one vector is 0 up to the
  end of the last register.
- **boot** (11 959 states, with fairness). Nine buses: a NIC that sleeps and has power management in
  the middle of its capabilities, one without it, line 255, lines 7 and 15, both vendors in either
  order, an unknown vendor in front of a known one, a NIC that loses its BAR, one whose ports are
  not decoded, and none; each answer of Limine withheld; three CPUs. `InterruptsAreNotExceptions`: the only
  panic of boot is `xsetbv` on a CPU without AVX. `ServiceClean`: after a handler no line is left in
  service. `CalibrationExact`. `PollingMeansReady`: the loop is entered only with gates,
  clock and a NIC that is awake, unmasked and has its own driver. `OnlyNicTouched`: the scan writes
  the configuration of no other function. `BootEnds` and `NicServed` are its liveness.
- **rtl** (19 213 states, with fairness). `RingInStep`: between packets driver and NIC agree on
  what is read, and what is unread starts with a header. `NothingForgotten`: the kernel does not
  sleep on a packet. `ImplementsRxQueue`: each frame reaches the network once, in order and at last.
- **display** (1.4 million states). `CursorHeals`: whatever the handler interrupted, the next glyph
  has room, unless a tab came last. `GlyphsApart`: a glyph covers another only if the handler
  came inside `fb_putchar` or `fb_clear`. `NumbersDenote`: the text about to be printed for a number
  denotes it, in decimal and hexadecimal digits, and `buffer` has room for it.

Violations, each a disagreement between code and what the repository says (the quotes
are in `PROJECT.json`):

- **lost_wakeup** — a header stored between the test and `hlt` is slept on.
- **stray** — twelve bytes of a frame without the magic set `hdr_done`; no header is
  accepted any more.
- **nested_poll** — a handler inside `i219_poll_rx` leaves `rx_tail` out of step.
- **vmm_api_page** — the API table's frame is handed out.

Disagreements met while modelling that no violation run is about:

- `mathlib.c:70` says of the output of `spmv_csr` that it "must be zeroed by caller or will accumulate". The code
  stores each row's sum (`mathlib.c:132`), which starts at 0 (`mathlib.c:92`): it overwrites `y`, and nobody has to zero it; a
  caller who wants to add up products cannot. `BandedProduct` states what the code does, the `math` run has the
  second call into a `y` that is not zero, and the mutant `SpmvRowAdds`, which does what the comment says,
  violates it.
- `mathlib.c:98` and `mathlib.c:100` call the values array aligned where registers are loaded from it. A row starts where
  the one before it ends, and neither `generate_banded_matrix` nor the comment (`mathlib.c:82`: padding is "for best
  performance") makes that a register's boundary. The action `SpmvFaults` is this case. gcc with the Makefile's
  `-O2` folds the load into the `fmadd`, which takes any address; a compiler that keeps it apart faults.
- `i219.c:178` means to "tell the NIC it can reuse this descriptor", but RDT is written with the index after the
  one just read. By Intel's manuals the NIC then does not own that descriptor, and a drained ring, RDT = RDH, is an
  empty one: `EmptyRingStarves`. Since that is the NIC's part and not in the repository, both readings are modelled.

### What the passing runs assume

Each of these is a constant or a hypothesis that the code does not guarantee; what
TLC finds without it is said here.

- `EqualMeansAll = TRUE` in `paced`: RDT = RDH gives the NIC all descriptors. Nothing in the repository
  justifies it, and Intel's parts have it the other way; with TRUE the run shows what service the
  rest of the code gives if the ring is handed back. With FALSE draining the ring takes all descriptors
  away and no payload is ever received: that is the theorem `EmptyRingStarves`, and TLC finds the liveness of
  `ImplementsWorkloadService` violated. The other theorems hold for both.
- `Pace = "halted"` in `paced`: a host that does not wait has data frames dropped between
  `hdr_done` and `network_set_dest`, or taken for a header, and a payload that was not sent is run.
  `any_order` makes no such assumption and says what still holds.
- `MaxHeap` below what boot leaves: with one huge page more, the 0 of `pmm_alloc_2mb` is mapped
  and zeroed like a frame, the page tables in it included, and `TablesAreATree` fails.
- `Prompt = TRUE` in `rtl`: a pending interrupt is taken before the next instruction of
  `kernel_main`, so that the handler is never inside `rtl8139_poll` of `read_ethernet`. With FALSE,
  one packet that comes while `read_ethernet` polls is delivered by both and the read pointer
  advanced twice: it is the race of `nested_poll` in the other driver.
- `MaxGap`: `kernel_main` reads the PIT at least every 2^16 - 50000 ticks (13 ms). A longer stop may hide
  a turn of the counter.
- `NicCanAnswer` in `BootEnds`, and a line that is wired as the Interrupt Line register says in
  `NicServed`: the run has NICs without either, for which boot spins in a reset loop or no interrupt comes.

What these assumptions exclude is therefore not caught by a passing run. The notes of the hazards in
`PROJECT.json` say so where it is the whole hazard (memory that runs out, an unknown vendor, a line that is not
routed, a NIC that does not answer, the RTL8139's race) or a part of it.

### Bounds, and why they are enough

- *Ring of 3 or 4* (32): large enough to wrap with RDH and `rx_tail` in every relative
  position, small enough to overflow in `any_order`.
- *Magic of 2 bytes, size of 1, header frame of 4* (4, 8, 16): a rolling window with
  memory and header bytes after the magic; the byte loops have no other length dependence.
- *Two workloads*, 7 bytes in 2 chunks and 2 pages, then 3 bytes in 1: the second is shorter
  so that what the first leaves behind (counts, destination) shows; both last chunks are
  padded past the announced size.
- *NoiseBound* 1 or 2: one stray frame is enough to break `stray`; two interrupts are needed
  to nest a poll.
- *MaxHeap* 3: the payload and a second allocation of the workload; 4 asks for more than there is.
- *Matrices of 0, 1, 4, 5 rows, bands of 0 to 2*: a matrix that fills no register, exactly one
  tile, or neither; rows with whole registers and a rest, at every alignment. Four calls are
  what it takes to fill both vectors and use them.
- *Counter of 16 values, 10 to measure, gaps up to 6* (2^16, 50000): it starts at three places, so
  that it passes 0 during the measurement, or not, or starts below what it has to measure.
  The proof is for all values. *Two spurious interrupts, two frames*: one while the other is
  dispatched; more repeat the same states, for the controllers are left clean each time.
- *Ring of 32 bytes, registers of 64 values, packets of 12 and 16 bytes, 6 of them*: the ring is left at its
  exact end and past it, fills up, and every frame length modulo 4 that rounding tells apart is
  there.
- *Screen of 29 by 25 pixels*: three glyphs and a rest to a line, two lines and a rest; 6
  characters wrap twice or leave the screen, 2 interrupts meet each other's effects.
- *AddrLimit* bounds the memory map in `Pmm`; it only makes sets finite.
- Deadlock is checked for `Pmm` and `Vmm`. A workload of `MathLib` makes at most `MaxCalls`
  calls; `Boot` ends; the texts of `Display` and the packets of `Rtl8139` are bounded. `Receive` really stops: a kernel that waits for a
  host that has nothing more to send.

### Pace and fairness

`Pace` is the assumption about the host, which gets no replies: `free` (none), `waiting` (a
frame is sent only while the loop that consumes it is being executed), `halted` (once it
sleeps there). A host can come near the last by pausing between frames; the violations
`lost_wakeup` shows what the pauses are for.

Fairness is weak, on three things: the CPU executes (`Kernel`), a raised interrupt is
taken (`Interrupt`: the line is level-triggered and interrupts are on but in the
handler), and a host whose turn it is sends (`HostSends`). Noise is never owed. A halted CPU
has no `Kernel` step: it needs an interrupt, so that the lost wakeup is not hidden.

`Boot` and `Rtl8139` have weak fairness on `Kernel`, the handler (`Dispatch`, `Handler`) and
`Interrupt`, for the same reasons. Spurious interrupts and frames are never owed, and a level
that is dropped needs none.

## 4. Proofs

### The frame allocator

`Pmm_proof` proves about `Pmm`, for every memory map, page size and geometry allowed by
`GeometryAssumption` (sizes are positive) and `MemmapAssumption` (what the Limine protocol
says of entries the allocator hands out: page-aligned, above page 0, and bounded):

- `TypeCorrect`, `MutualExclusion`, `NoLeak`, `DriftIsExact`: the invariants of the `pmm`
  run, each `Spec => []Inv`;
- `Refinement`: `Spec => ImplementsFrameAllocator`.

The inductive invariant is `IInv`, the conjunction of the four. None is inductive
alone: that the frame `first_fit` finds is held by nobody is `Conservation`, that giving a
frame back clears nobody else's bit is `Exclusive`, that a block of clear bits is inside the
bitmap is `TypeOK`, and the count moves with the cardinality of a set that `Conservation`
describes. The argument has three layers: arithmetic of `pmm_init` (`BitmapSizes`,
`PoolFact`: every frame the map offers has a bit), what the searches return
(`FirstFit`, `FirstRun`, `FirstHugePage`, `HugePageSearchComplete`), and what taking and
giving back do to `IInv` (`TakeFrames`, `GiveFrame`, `HugePageTaken`, `GiveHugePage`), from
which `NextInv` has a step per action. `Refinement` adds that NULL is answered only
when the abstract allocator has nothing either. `NatFacts` holds what is needed of `Min`,
`Max`, division, remainder and finite sums.

### Page tables and heap

`Vmm_proof` proves about `Vmm`, for every memory map, number of levels, size of tables and of the
heap, with either NIC and any workloads, the properties of the `vmm` run:

- `TablesFormATree` (`TablesAreATree`), `HeapIsBacked` (`HeapBacked`), `TlbIsCoherent`
  (`TlbCoherent`), `VmmTypeCorrect` (`VmmTypeOK`);
- `DirectMapIsComplete` (`DirectMapComplete`), if some usable entry has room for the bitmap
  (`BitmapFits`; otherwise `pmm.c` puts it at address 0, which `vmm_init` does not map at
  `hhdm_offset`);
- `UsesPmmWell`: `PmmProtocol`, so that the theorems of `Pmm_proof` are true of the kernel;
- `BootloaderIsIntact` (`BootloaderIntact`), and `BootHasMemory`, on which it rests, if there is
  enough low memory (`LowMemorySuffices`).

All but the last two are of the form `VmmSpec /\ []MemoryLasts => ...`. `MemoryLasts` says that after boot has begun
`pmm.c` has not answered NULL. The code needs it: `vmm.c` uses the answer untested (`vmm.c:30`,
`vmm.c:129`), frame 0 becomes a table or a huge page, and `TablesAreATree` fails, as TLC shows when
`MaxHeap` is one more. On the instance of the `vmm` run it holds in every state. Since all but
`PmmProtocol` are invariants, and the kernel may stop anywhere, they hold up to the first NULL too.

The invariant is `VInv`: Pmm's `IInv`, where control is (`Stage`, `Calls`), what frames are for
(`Owned`), and `Sound` for some `lev`, `path` and `hp`. These give each table its level and the
indices that lead to it from the root, and each heap page its 2mb page. The tree property is not
inductive in the form TLC checks it, by counting what is reached from the root; with levels and
paths every clause is about an entry and the table it leads to (`LeadsDown`, `LedTo`, `Unique`), and a walk that makes a
table extends `lev` and `path` by it (`TreeGrows`). Why the invariant needs its parts:

- A walk under way (`Walking`) must be at the table of its level and path, or the entry written at
  its end is not that of the page; `PathDown` takes it one level further.
- That the walk of a 4kb page meets no huge entry, which the code does not test, is `OnlyBacked`:
  such entries are the heap's, and there is no heap while boot maps.
- That a huge page replaces no table is `Spared` with `HeapApartAssumption`.
- `vmm_reset_heap` follows entries without testing the present bit: `PdFact`, because a
  live page has a directory on its way (`Backed`).
- The memset of a new huge page clears neither tables nor the bitmap: `TablesElsewhere`,
  `BitmapElsewhere`, from what `pmm.c` guarantees; and what `pmm.c` guarantees needs that nobody
  writes the bitmap. The two invariants are proved together.
- The TLB holds at most what `hp` says (`Cached`), so that `invlpg` has to come with every change.
- `Entered`: pages `vmm_init` has got to are mapped as told. A later range may write the same entry,
  to the same frame by `RangesAgreeAssumption`.

Until CR3 is loaded `MemoryLasts` is no hypothesis. `LowMemorySuffices` says that no more tables are needed
for the pages `vmm_init` maps (`PlacesNeeded`: the levels and paths on the way to them, and the root) than
there are usable frames below the first one the bootloader left (`LowFrames`); the kernel does not check
it, and the instance of the `vmm` run has 20 and 58. Then `BootInv` is an invariant: `VInv`, no NULL so far, and the
frames held are the lowest of the pool (`LowestFirst`). It is inductive because of `Needed`, a conjunct of
`VInv`: `vmm_init` makes a table only where one of those pages needs it. No two tables have the same
level and path, so when a walk is about to make one, fewer frames are held than there are places
(`TablesCounted`, `BootFrames`, `RoomForTable`); so some low frame is free (`PlaceIsFree`), `pmm_alloc` does not
answer NULL, and as first fit takes the lowest (`FirstFitIsLowest`) what it answers is low too
(`LowestTaken`). `BootloaderIntact` follows at once. After CR3 is loaded memory may run out, and the other
theorems need `[]MemoryLasts` again. TLC checked `BootInv` on the `vmm` run first.

What the CPU's walk and `TablesAt` compute are recursive functions; `DownEveryLevel` and
`UpEveryLevel`, proved from a least counterexample, give `WalkEnds`, `WalkFinds` and
`TablesAtFact`. TLC checked the invariant on the instance of the `vmm` run with the levels, paths
and pages computed from the state.

### Boot

`Boot_proof` proves about `Boot`, for every counter and gap that `TimerAssumption` allows, every bus
whose functions have a wire among the 16 lines and a vendor of the three kinds, and every CPU and
set of answers (`BootAssumption`):

- `TypeCorrect`: types, and the dispatcher runs with interrupts off for a vector with a gate;
- `NoFalseException`, `NothingLeftInService`, `CalibrationCorrect`: the invariants
  `InterruptsAreNotExceptions`, `ServiceClean` and `CalibrationExact` of the `boot` run.

The inductive invariant is `TypeOK /\ Order /\ Taken /\ Wires /\ Clock`. `Order`: interrupts are off
until vectors and gates are in place. `Wires`: only the controllers' lines are raised, because a
NIC receives only after it was found on the bus. With both, `PendingLine` shows that what
is taken has a gate above the exceptions. `Taken`: what is in service is what the dispatched
vector says, three cases with the spurious ones, so that `AllEnded` leaves nothing. `Clock`: during the
measurement the counter shows the ticks that are gone, which are less than a turn: `GoesOn`
is given up as soon as the counter has passed its start, and `MaxGap` bounds the read after that.
Lemmas `...Alone` say which steps touch which part; each part then has a lemma for its step.
The bus stays abstract: a function has the fields the scan reads, and nothing is assumed of its
capabilities, BARs, power or line number. The invariant was also checked by TLC on the instance
of the `boot` run.

Two more theorems follow the scan:

- `ScanTouchesNic`: `OnlyNicTouched`, in every step the functions before and behind the first
  Ethernet controller keep their configuration;
- `ReadyToPoll`: `PollingMeansReady`, if `LinesNamed`: firmware leaves 255 or the number of a line in the
  Interrupt Line register (with another value `pic.c:51` unmasks nothing, and the property fails).

They add `Scanned` (the scan stands at the first Ethernet controller, and what it has done to it
so far), `Flagged` (which answers and checks `init_status` has) and `Started` (the NIC was
reset, started and wired in this order, by its own driver, before `kernel_main` goes on).

### The way of a workload

The first part of `Receive_proof` makes no assumption about the host but `ReceiveAssumption`: any pace, any stray frames
of at least 16 bytes, any ring of two or more slots, any lengths.

- `TypeCorrect`, `HeapIsSafe`, `LaunchComplete`, `RunningFrozen`: the invariants of `any_order`.

The invariant is `Typed /\ Landing`. `Typed` is `TypeOK` with the types of what is in flight: ring slots,
`hdr_read <= hdr_len`, the local copies of `read_ethernet` and the nested `i219_poll_rx`. `Landing` follows
the destination triple: while it is open, `rx_expected` is the size announced; the bytes written
are exactly those below `rx_received`; and pages are mapped for all of them. The stores of
`network_set_dest` are three, and a frame may land between any two: the order in which the source
makes them is what the proof uses.

Its second part adds hypotheses, each needed: without it TLC or the violation runs show a
counterexample (see *What the passing runs assume*).

- `RingStaysInStep`: `RingInStep`, if `Pace = "halted"`. The invariant is `Typed /\ RingOk /\ Asleep`: the slots
  from `rx_tail` to RDH, and no others, have DD set, the NIC owns at most the others, and as the host sends to a sleeping
  kernel the handler never meets `i219_poll_rx` half done.
- `EmptyRingStarves`: if `Pace = "halted"` and `EqualMeansAll = FALSE`, `rx_received` stays 0 and nothing is ever
  executed, for every ring size, list of workloads and stray frames. The invariant adds `Starved`: `rx_tail` is
  0 exactly until the first burst is drained, which is shorter than the ring; from then on the NIC has no
  descriptor whenever the handler is not running, so that no frame can come once `hdr_done` is set.
- `RunInOrder`: `RunsWhatWasSent`, if `ModestHost`: `Pace = "halted"`, strays are of a foreign EtherType or
  damaged, and a workload has at least a byte and a length that fits the size field.
- `ServiceImplemented`: `Spec => WS!Init /\ [][WS!Stream \/ WS!Run]_WS!vars`, the safety part of
  `ImplementsWorkloadService`, if `ModestHost`.

The last two rest on `Serving`, a disjunction of the seven situations the kernel can be in with a
workload: `Resetting` the header, `Looking` for the magic in a rolling window, `Reading` the size, `Preparing` pages and
destination, `Gathering` chunks, `Launching`, and `Finished` when there is none left. Each says where
the host is in its stream, what is queued in the ring, what the header buffer and the heap hold; the lemmas show which
situation follows which. That the size read is the size sent is arithmetic of `Weight`
(`RemainderSplit` in `NatFacts`). `Serving` was checked by TLC on the `paced` instance first.

### The RTL8139's ring

`Rtl8139_proof` holds for every ring and register size of `RingAssumption` and all lengths, with
`Prompt = TRUE` (see above: with FALSE the properties fail):

- `TypeCorrect`, `DriverInStep` (`RingInStep`), `NoneForgotten` (`NothingForgotten`);
- `QueueImplemented`: `Spec => Queue!Init /\ [][Queue!Next]_<<Undelivered, delivered>>`, the safety part of
  `ImplementsRxQueue`.

The invariant is `Turns /\ Histories /\ RingTypes /\ Reading`. `Reading` says that there is a chain of `n`
unread packets at positions `s[0] < ... < s[n]` that count on past the end of the ring, from what the NIC was told is
read to where it writes next, less than a round apart; and how far the handler is with the first
of them. Counting on is what makes the proof possible: two positions less than a round apart are different places
(`Apart`), so that a new packet overwrites none that is unread (`ChainAccepts`), and rounding to
four (`RoundUp`) commutes with the wrap.

### The display

`Display_proof` holds for every screen at least as wide as a glyph, all texts and all messages without a
tab: `TypeCorrect`, `CursorRecovers` (`CursorHeals`) and `GlyphsStayApart` (`GlyphsApart`). The invariant is
`Cells /\ Heals /\ Reading`. `Heals` gives each place inside `fb_putchar` its own promise: before the wrap the cursor
is what the wrap will test, or the handler has wrapped it already. `Reading` puts every glyph
before the cursor in reading order as long as `raced` is false.

`DigitsDenote` (`NumbersDenote`) holds for all words of `Nibbles` hexadecimal digits, if their values have no more
than `BufferSize` decimal ones (`BufferAssumption`, what `display.c:95` says of 64 bits and 20 digits; TLC
evaluates it on the instance). The argument is the same for both bases: the value of the first i digits is the
number divided by the power of the base that the other digits stand for (`ValueIs`), because dividing by a power
and then by the base is dividing by the next power (`RemainderSplit` in `NatFacts`). The loop of `fb_print_dec`
is the recursive function `buffer`; what it collects is shown digit by digit (`Collected`), from a least
counterexample.

### The kernels of mathlib.c

`MathLib_proof` holds for every register width that divides the tile, all finite sets of sizes, bands and
lengths and any number of calls (`MathAssumption`); it has no other hypothesis. `TypeCorrect`, `TilesAddUp`
(`ProductSoFar`), `RowsAddUp` (`BandedProduct`), `DotAddsUp` (`DotIsExact`). The invariant is
`Scalars /\ Arrays /\ Running /\ SparseStored /\ ProductSoFar /\ BandedProduct`; TLC checked it on the `math` instance
first. `Running` says where each function's loops are: in `matrix_multiply` all three indices are
multiples of the tile and k is back at 0 whenever i moves, without which `ProductSoFar` is not inductive.
`SparseStored` says of every row of the matrix, also in the middle of `generate_banded_matrix`, that it ends where the
next one begins and holds the columns of its part of the band: it is what links the generator to a product
computed many calls later.

- Sums: `SumFunctionOnSet` is a recursive function on the subsets of a set. `NatFacts` proves
  that such a function exists (`SumExists`) and that a sum does not depend on the order (`SumTake`), that it splits
  over disjoint sets (`SumUnion`) and may be shifted (`SumShift`), each from a smallest
  counterexample (`SmallestSubset`).
- Tiles: a register that starts inside a tile ends inside it, as rows are padded to whole registers and a tile is some
  of them (`ColumnsAre`); with `TermsStep` every element gets the terms from k to the end of
  the tile exactly once.
- Rows: the columns stored are those within the band (`BandFact`), there is room for them in the
  arrays (`RoomFact`), and registers and rest together are the row (`RowSum`).

### Only model-checked

Each invariant, each action property and the safety part of each refinement that a passing run checks is
stated by a theorem. What is left is liveness (fairness and ENABLED are beyond the prover): `BootEnds`,
`NicServed`, and the liveness of `ImplementsWorkloadService` and `ImplementsRxQueue`. Induction is not available
as a rule; where a fact about a recursive function was needed (`Weight`, sums, levels of tables, digits), it is
proved from a least counterexample. The hypotheses of the theorems (`MemoryLasts`, `LowMemorySuffices`,
`BitmapFits`, `ModestHost`, `Prompt`, `LinesNamed`) are not checked by the code; TLC has checked
that the instances of the runs fulfil them.

## 5. Not modelled, and why

- `vmm_alloc`: nothing calls it. Flag bits other than present and huge: no property reads
  them.
- That memory may be too small for boot's own tables: the instance of `vmm` has enough, and `LowMemorySuffices` says
  how much is. A missing usable entry for
  the bitmap, which would go to physical 0.
- `nic_send` and `set_output`: nothing calls them. `memmove`, `memcmp`, `read_serial` neither. `cycles_to_ms`
  and `ms_to_cycles`: one division each; their products exceed 64 bits after some 50 days of
  cycles. The MAC address and the link, which are only printed; panic's register dump.
- Interrupt lines shared with a device that holds them; values 16 to 254 in the Interrupt Line
  register; that `mathlib.c` faults on a CPU without AVX.
- Configuration cycles, the UART, the font, the descriptors of the GDT, boot assembly, build
  scripts: I/O, data or straight-line code without state worth exploring. Rounding of
  floating-point values. The conversions to `uint32_t` of indices and counts of nonzeros
  (`mathlib.c:164`, `mathlib.c:174`, `mathlib.c:184`): they change nothing below 2^32.

## 6. Plan

Done: `FrameAllocator`, `Pmm`; `WorkloadService`, `Receive`; `Vmm`; `MathLib`;
`Interrupts`, `Pci`, `Timer`, `Boot`; `RxQueue`, `Rtl8139`; `Display`; the proofs about all of them.

1. `PmmScan`: the loops of `pmm_alloc`, `pmm_alloc_2mb` and `pmm_alloc_contiguous`
   iteration by iteration (the jump by 7, the restart) shown equal to the searches of `Pmm`
   over all small bitmaps, in the `pmm` run.
2. A bound like `LowMemorySuffices` for the whole of boot: the byte ring of the RTL8139 is a run of
   `pmm_alloc_contiguous`, so that it is about where free frames are, not only how many.

New questions about a modelled component go into its existing run.
