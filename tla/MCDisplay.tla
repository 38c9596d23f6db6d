------------------------------ MODULE MCDisplay ------------------------------
(* A screen of three cells and a bit by three lines; numbers of one byte.  *)
EXTENDS Display

MCNumbers == {0, 7, 10, 255}
MCMessages == {<<1, 2>>, <<1, 2, newline>>, <<1, 2, 3, 4, newline>>}
=============================================================================
