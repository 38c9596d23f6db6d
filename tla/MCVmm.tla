------------------------------- MODULE MCVmm -------------------------------
(* Vmm with tables of 8 entries, so that a huge page is 8 frames, over 72  *)
(* frames of memory: boot and its tables take the lower half, which leaves *)
(* 4 huge pages: 3 for the heap and one that a table of the heap breaks.   *)
EXTENDS Vmm

Entry(first, pages, type) == [base |-> first * PageSize, length |-> pages * PageSize, type |-> type]

MCMemmap == <<
  Entry( 0,  1, "reserved"),
  Entry( 1, 63, "usable"),
  Entry(64,  3, "kernel"),
  Entry(68,  4, "reclaimable"),
  Entry(72,  2, "framebuffer") >>
=============================================================================
