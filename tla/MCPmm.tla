------------------------------- MODULE MCPmm -------------------------------
(* A small machine for Pmm: 4 bytes to a page, 2 bits to a bitmap byte,    *)
(* 2 bytes (4 frames) to a huge page.  13 frames make a bitmap of 7 bytes, *)
(* so that its last bit is no frame, it spans 2 frames, and the last       *)
(* aligned block sticks out of it.                                         *)
EXTENDS Pmm

Entry(base, length, type) == [base |-> base, length |-> length, type |-> type]

MCMemmap == <<
  Entry( 0,  4, "reserved"),
  Entry( 4,  4, "usable"),        \* too small for the bitmap
  Entry( 8, 24, "usable"),        \* frames 2 and 3 hold the bitmap
  Entry(32, 20, "reclaimable"),
  Entry(56,  8, "framebuffer") >>
=============================================================================
