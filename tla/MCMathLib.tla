----------------------------- MODULE MCMathLib -----------------------------
(* Registers of 2 floats and tiles of 4: matrices of 1, 4 and 5 rows fill  *)
(* no register, one tile, and neither; rows of up to 5 elements have whole *)
(* registers, a rest, and start at any alignment.                          *)
EXTENDS MathLib
=============================================================================
