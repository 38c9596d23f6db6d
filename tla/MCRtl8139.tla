------------------------------ MODULE MCRtl8139 ------------------------------
(* A ring of 32 bytes, with packets of 12 and 16: it is left at its exact  *)
(* end and past it, and fills up, at every multiple of 4.                  *)
EXTENDS Rtl8139

MCLengths == {5, 8, 11}
=============================================================================
